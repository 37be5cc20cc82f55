--------------------------- MODULE PerpsV2_proofs ---------------------------
(***************************************************************************)
(* Theorems about PerpsV2, for any markets, releases, options and bounds:  *)
(* an upgrade changes what a market of the manager leads to only while it  *)
(* is paused, opens none that it found paused there, leaves every open     *)
(* market on one state, and has a state take over from the one before it   *)
(* only while the market is paused.                                        *)
(***************************************************************************)
EXTENDS PerpsV2, FiniteSetTheorems, WellFoundedInduction, TLAPS

(* The steps of a market, and those between its pause and its opening.     *)
Upgrading == {"initialize", "legacy", "linkToState", "linkToPerpsExchangeRate", "setProxy",
              "removeRoutes", "addRoutes", "linkToMarketManager", "rebuildCaches",
              "configureMarket", "pausedMode", "offchainPausedMode", "resumeMarket"}
OnMarket == {"deploy", "pauseMarket"} \cup Upgrading
Fields == {"step", "todo", "cleanup", "all", "before", "existing", "wasPaused", "updated"}

(* What the proofs need of the types: the process has its fields while it  *)
(* runs, and the manager of deployment.json is the last that was deployed. *)
ProcOK == proc.step # "off" => DOMAIN proc = Fields
TodoOK ==
  /\ proc.step \in {"manager", "import", "markets"} \cup OnMarket => proc.todo \subseteq ToSet(Market)
  /\ proc.step \in OnMarket => proc.todo # {}
ChainOK ==
  /\ DOMAIN chain = {"routes", "state", "impl", "rates", "managers", "configured", "canSuspend"}
  /\ \E S : chain.managers \in Seq(S)
  /\ Len(chain.managers) = targets[Manager] /\ targets[Manager] # 0
  /\ DOMAIN targets = Name
StatusOK ==
  /\ DOMAIN suspended = Key
  /\ DOMAIN history = {"releases", "crashes", "pauses", "complete", "opened", "foundPaused"}
  /\ history.foundPaused \subseteq ToSet(Market)

(* What the run found paused stays in its sight: in the manager, then in   *)
(* what is imported into a new one, then in the list of markets.           *)
InSight ==
  /\ proc.step \in {"manager", "markets"} => history.foundPaused \subseteq Keys(DOMAIN known)
  /\ proc.step = "import" => history.foundPaused \subseteq Keys(proc.before)
  /\ proc.step \in OnMarket => history.foundPaused \subseteq proc.existing
StillPaused == proc.step # "off" => \A k \in history.foundPaused : suspended[k] # "no"

(* A market that the manager knew is paused from its pause to its opening, *)
(* and one that the run found paused is known to have been.                *)
PausedMeanwhile == proc.step \in Upgrading /\ ~newMarket => suspended[market] # "no"
Remembered ==
  proc.step \in Upgrading /\ ~newMarket /\ market \in history.foundPaused => proc.wasPaused

(* Pausing and opening as configured is for the markets that were not      *)
(* there.                                                                  *)
OnlyNew == proc.step = "pausedMode" => newMarket

IInv ==
  /\ ProcOK /\ TodoOK /\ ChainOK /\ StatusOK /\ InSight
  /\ StillPaused /\ PausedMeanwhile /\ Remembered /\ OnlyNew

-----------------------------------------------------------------------------
(* The first of some markets is one of them.                               *)
LEMMA FirstIsOne ==
  ASSUME NEW markets, markets \subseteq ToSet(Market), markets # {}
  PROVE  FirstOf(markets) \in markets
<1> DEFINE at == {i \in DOMAIN Market : Market[i] \in markets}
<1>0. DOMAIN Market = 1..Len(Market) /\ Len(Market) \in Nat
  <2>1. Market \in Seq(ToSet(Market))
    BY MarketIsList
  <2>2. PICK S : Market \in Seq(S)
    BY <2>1
  <2>3. QED
    BY <2>2
<1>1. at \subseteq Nat /\ at # {}
  <2>1. PICK m \in markets : m \in ToSet(Market)
    OBVIOUS
  <2>2. PICK i \in DOMAIN Market : Market[i] = m
    BY <2>1 DEF ToSet
  <2>3. QED
    BY <1>0, <2>1, <2>2
<1>2. \E i \in at : \A j \in at : ~(<<j, i>> \in OpToRel(<, Nat))
  BY <1>1, NatLessThanWellFounded, WFMin
<1>3. PICK i \in at : \A j \in at : ~(j < i)
  BY <1>1, <1>2 DEF OpToRel
<1>4. \A j \in 1..(i - 1) : j \in Nat /\ j < i /\ j \in DOMAIN Market
  BY <1>0, <1>1
<1>5. \A j \in 1..(i - 1) : Market[j] \notin markets
  BY <1>3, <1>4
<1>6. QED
  BY <1>3, <1>5 DEF FirstOf

(* The market at hand is one of those to do, and not the manager's name.   *)
LEMMA MarketIsKnown ==
  ASSUME TodoOK, proc.step \in OnMarket
  PROVE  market \in proc.todo /\ market \in ToSet(Market) /\ market \in Key /\ market # ""
<1>1. proc.todo \subseteq ToSet(Market) /\ proc.todo # {}
  BY DEF TodoOK
<1>2. market \in proc.todo
  BY <1>1, FirstIsOne DEF market
<1>3. \A m \in ToSet(Market) : m # ""
  BY MarketIsList
<1>4. QED
  BY <1>1, <1>2, <1>3 DEF Key

(* A step of a run that goes on to another step.                           *)
LEMMA GotoKeeps ==
  ASSUME ProcOK, proc.step # "off", NEW s, proc' = [proc EXCEPT !.step = s]
  PROVE  /\ proc'.step = s /\ DOMAIN proc' = Fields
         /\ proc'.todo = proc.todo /\ proc'.existing = proc.existing
         /\ proc'.wasPaused = proc.wasPaused /\ proc'.before = proc.before
         /\ market' = market /\ (newMarket' <=> newMarket)
BY DEF ProcOK, Fields, market, newMarket

(* What leaves the managers alone.                                         *)
Kept == DOMAIN chain' = DOMAIN chain /\ chain'.managers = chain.managers

(* Where the managers are left alone, what the last one knows is too.      *)
LEMMA KeptIsOK ==
  ASSUME ChainOK, Kept, UNCHANGED targets
  PROVE  ChainOK' /\ known' = known
BY DEF ChainOK, Kept, known

(* Of the managers the last one is written.                                *)
LEMMA SetKeeps ==
  ASSUME ChainOK, UNCHANGED targets, NEW markets, chain' = Known(markets)
  PROVE  ChainOK' /\ known' = markets
<1>1. PICK S : chain.managers \in Seq(S)
  BY DEF ChainOK
<1> DEFINE nr == targets[Manager]
<1>2. nr \in 1..Len(chain.managers)
  BY <1>1 DEF ChainOK
<1>3. chain'.managers = [chain.managers EXCEPT ![nr] = markets] /\ DOMAIN chain' = DOMAIN chain
  BY DEF Known, ChainOK
<1>4. chain.managers \in Seq(S \cup {markets})
  BY <1>1
<1>5. chain'.managers \in Seq(S \cup {markets}) /\ Len(chain'.managers) = Len(chain.managers)
      /\ chain'.managers[nr] = markets
  BY <1>2, <1>3, <1>4
<1>6. QED
  BY <1>3, <1>5 DEF ChainOK, known

(* A step of an upgrade that pauses and opens nothing.                     *)
LEMMA UpgradeKeeps ==
  ASSUME IInv, proc.step \in Upgrading, ChainOK', UNCHANGED <<suspended, history>>,
         \/ proc' = proc /\ proc.step # "pausedMode"
         \/ \E s \in Upgrading : proc' = [proc EXCEPT !.step = s] /\ (s = "pausedMode" => newMarket)
  PROVE  IInv'
<1> USE DEF Upgrading
<1>1. /\ ProcOK' /\ proc'.step \in Upgrading /\ proc'.todo = proc.todo /\ proc'.existing = proc.existing
      /\ proc'.wasPaused = proc.wasPaused /\ market' = market /\ (newMarket' <=> newMarket)
      /\ OnlyNew'
  <2>1. CASE proc' = proc /\ proc.step # "pausedMode"
    BY <2>1 DEF IInv, ProcOK, OnlyNew, market, newMarket
  <2>2. CASE \E s \in Upgrading : proc' = [proc EXCEPT !.step = s] /\ (s = "pausedMode" => newMarket)
    BY <2>2, GotoKeeps DEF IInv, ProcOK, OnlyNew
  <2>3. QED
    BY <2>1, <2>2
<1>2. TodoOK' /\ StatusOK' /\ InSight' /\ StillPaused'
  BY <1>1 DEF IInv, TodoOK, StatusOK, InSight, StillPaused, OnMarket
<1>3. PausedMeanwhile' /\ Remembered'
  BY <1>1 DEF IInv, PausedMeanwhile, Remembered
<1>4. QED
  BY <1>1, <1>2, <1>3 DEF IInv

(* The end of a run.                                                       *)
LEMMA OffKeeps ==
  ASSUME ChainOK', StatusOK', proc'.step = "off"
  PROVE  IInv'
BY DEF IInv, ProcOK, TodoOK, InSight, StillPaused, PausedMeanwhile, Remembered, OnlyNew, OnMarket, Upgrading

(* The invariant holds before the first release.                           *)
LEMMA InitIInv == Init => IInv
<1> SUFFICES ASSUME Init PROVE IInv
  OBVIOUS
<1>1. ChainOK
  <2>1. chain.managers \in Seq({chain.managers[1]}) /\ Len(chain.managers) = 1
    BY DEF Init
  <2>2. DOMAIN targets = Name /\ Manager \in Name /\ targets[Manager] = 1
    BY DEF Init, InitialTargets, Name
  <2>3. DOMAIN chain = {"routes", "state", "impl", "rates", "managers", "configured", "canSuspend"}
    BY DEF Init
  <2>4. QED
    BY <2>1, <2>2, <2>3 DEF ChainOK
<1>2. StatusOK
  BY DEF Init, StatusOK
<1>3. QED
  BY <1>1, <1>2 DEF Init, IInv, ProcOK, TodoOK, InSight, StillPaused, PausedMeanwhile, Remembered,
                    OnlyNew, OnMarket, Upgrading

(* The steps that link a market leave its pause as it is.                  *)
LEMMA LinkKeeps == IInv /\ LinkMarket => IInv'
<1> SUFFICES ASSUME IInv, LinkMarket PROVE IInv'
  OBVIOUS
<1> USE DEF Working
<1>1. CASE linkOrInitializeState
  <2>1. Kept
    BY <1>1 DEF linkOrInitializeState, Kept, IInv, ChainOK, Goto
  <2>2. QED
    BY <1>1, <2>1, KeptIsOK, UpgradeKeeps DEF linkOrInitializeState, IInv, Goto, Upgrading
<1>2. CASE enableInLegacy
  <2>1. Kept
    BY <1>2 DEF enableInLegacy, Kept, IInv, ChainOK, Goto
  <2>2. QED
    BY <1>2, <2>1, KeptIsOK, UpgradeKeeps DEF enableInLegacy, IInv, Goto, Upgrading
<1>3. CASE linkToState
  <2>1. Kept
    BY <1>3 DEF linkToState, Kept, IInv, ChainOK, Goto
  <2>2. QED
    BY <1>3, <2>1, KeptIsOK, UpgradeKeeps DEF linkToState, IInv, Goto, Upgrading
<1>4. CASE linkToPerpsExchangeRate
  <2>1. Kept
    BY <1>4 DEF linkToPerpsExchangeRate, Kept, IInv, ChainOK, Goto
  <2>2. QED
    BY <1>4, <2>1, KeptIsOK, UpgradeKeeps DEF linkToPerpsExchangeRate, IInv, Goto, Upgrading
<1>5. CASE setProxy
  <2>1. Kept
    BY <1>5 DEF setProxy, Kept, IInv, ChainOK, Goto
  <2>2. QED
    BY <1>5, <2>1, KeptIsOK, UpgradeKeeps DEF setProxy, IInv, Goto, Upgrading
<1>6. CASE removeRoutes
  <2>1. Kept
    BY <1>6 DEF removeRoutes, Kept, IInv, ChainOK, Goto
  <2>2. QED
    BY <1>6, <2>1, KeptIsOK, UpgradeKeeps DEF removeRoutes, IInv, Goto, Upgrading
<1>7. CASE addRoutes
  <2>1. Kept
    BY <1>7 DEF addRoutes, Kept, IInv, ChainOK, Goto
  <2>2. QED
    BY <1>7, <2>1, KeptIsOK, UpgradeKeeps DEF addRoutes, IInv, Goto, Upgrading
<1>8. CASE rebuildCaches
  <2>1. Kept
    BY <1>8 DEF rebuildCaches, Kept, IInv, ChainOK, Goto
  <2>2. QED
    BY <1>8, <2>1, KeptIsOK, UpgradeKeeps DEF rebuildCaches, IInv, Goto, Upgrading
<1>9. CASE linkToMarketManager
  <2>1. CASE chain' = chain
    <3>1. Kept
      BY <2>1 DEF Kept
    <3>2. ChainOK' /\ StatusOK'
      BY <1>9, <3>1, KeptIsOK DEF linkToMarketManager, IInv, StatusOK
    <3>3. QED
      BY <1>9, <3>2, OffKeeps, UpgradeKeeps DEF linkToMarketManager, IInv, Goto, Upgrading
  <2>2. CASE addProxiedMarkets({Here(Proxy)}) \/ updateMarketsImplementations({Here(Proxy)})
    <3>1. ChainOK' /\ StatusOK'
      BY <1>9, <2>2, SetKeeps DEF linkToMarketManager, IInv, StatusOK, addProxiedMarkets,
         updateMarketsImplementations
    <3>2. QED
      BY <1>9, <3>1, OffKeeps, UpgradeKeeps DEF linkToMarketManager, IInv, Goto, Upgrading
  <2>3. QED
    BY <1>9, <2>1, <2>2 DEF linkToMarketManager
<1>10. QED
  BY <1>1, <1>2, <1>3, <1>4, <1>5, <1>6, <1>7, <1>8, <1>9 DEF LinkMarket

(* Between runs.                                                           *)
LEMMA BetweenKeeps == IInv /\ (PrepareDeploy \/ GuardianResumes) => IInv'
<1> SUFFICES ASSUME IInv, PrepareDeploy \/ GuardianResumes PROVE IInv'
  OBVIOUS
<1>1. Kept /\ UNCHANGED targets
  BY DEF PrepareDeploy, GuardianResumes, Kept
<1>2. StatusOK'
  BY DEF PrepareDeploy, GuardianResumes, IInv, StatusOK
<1>3. QED
  BY <1>1, <1>2, KeptIsOK, OffKeeps DEF PrepareDeploy, GuardianResumes, IInv

(* A run begins with what is paused in the manager it knows.               *)
LEMMA StartKeeps == IInv /\ (\E o \in Options : Start(o)) => IInv'
<1> SUFFICES ASSUME IInv, NEW o \in Options, Start(o) PROVE IInv'
  OBVIOUS
<1>1. ChainOK' /\ known' = known
  BY KeptIsOK DEF Start, IInv, Kept
<1>2. /\ proc'.step = "manager" /\ DOMAIN proc' = Fields /\ proc'.todo = o.markets
      /\ history'.foundPaused = {k \in ToSet(Market) \cap Keys(DOMAIN known) : suspended[k] # "no"}
  BY DEF Start, Fields, IInv, StatusOK
<1>3. o.markets \subseteq ToSet(Market)
  BY MarketAssumption
<1>4. StatusOK'
  BY <1>2 DEF Start, IInv, StatusOK
<1>5. StillPaused' /\ InSight'
  BY <1>1, <1>2 DEF Start, StillPaused, InSight, OnMarket, Upgrading
<1>6. ProcOK' /\ TodoOK' /\ PausedMeanwhile' /\ Remembered' /\ OnlyNew'
  BY <1>2, <1>3 DEF ProcOK, TodoOK, PausedMeanwhile, Remembered, OnlyNew, OnMarket, Upgrading
<1>7. QED
  BY <1>1, <1>4, <1>5, <1>6 DEF IInv

(* A new manager gets the markets of the one before, none out of sight.    *)
LEMMA GenericsKeep == IInv /\ (DeployManager \/ ImportMarkets \/ StartMarkets) => IInv'
<1> SUFFICES ASSUME IInv, DeployManager \/ ImportMarkets \/ StartMarkets PROVE IInv'
  OBVIOUS
<1>1. StatusOK'
  BY DEF DeployManager, ImportMarkets, StartMarkets, IInv, StatusOK
<1>2. ASSUME proc.step \in {"manager", "import", "markets"}, NEW s \in {"import", "markets", "deploy", "cleanup"},
             proc'.step = s, DOMAIN proc' = Fields, proc'.todo = proc.todo, s = "deploy" => proc.todo # {},
             UNCHANGED <<suspended, history>>, ChainOK', InSight'
      PROVE  IInv'
  BY <1>1, <1>2 DEF IInv, ProcOK, TodoOK, StillPaused, PausedMeanwhile, Remembered, OnlyNew, OnMarket, Upgrading
<1>3. CASE DeployManager /\ NeedsDeploy(Manager)
  <2>1. PICK S : chain.managers \in Seq(S)
    BY DEF IInv, ChainOK
  <2>2. chain.managers \in Seq(S \cup {<<>>})
    BY <2>1
  <2>3. chain'.managers = Append(chain.managers, <<>>) /\ DOMAIN chain' = DOMAIN chain
    BY <1>3 DEF DeployManager, IInv, ChainOK
  <2>4. chain'.managers \in Seq(S \cup {<<>>}) /\ Len(chain'.managers) = Len(chain.managers) + 1
    BY <2>2, <2>3
  <2>5. DOMAIN targets' = Name /\ targets'[Manager] = targets[Manager] + 1
    BY <1>3 DEF DeployManager, IInv, ChainOK, Name
  <2>6. Len(chain.managers) \in Nat
    BY <2>1
  <2>7. ChainOK'
    BY <2>3, <2>4, <2>5, <2>6 DEF IInv, ChainOK
  <2>8. /\ proc'.step = "import" /\ DOMAIN proc' = Fields /\ proc'.todo = proc.todo
        /\ proc'.before = DOMAIN known
    BY <1>3 DEF DeployManager, IInv, ProcOK, Fields
  <2>9. InSight'
    BY <1>3, <2>8 DEF DeployManager, InSight, IInv, OnMarket, Upgrading
  <2>10. QED
    BY <1>2, <1>3, <2>7, <2>8, <2>9 DEF DeployManager
<1>4. CASE DeployManager /\ ~NeedsDeploy(Manager)
  <2>1. ChainOK' /\ known' = known
    BY <1>4, KeptIsOK DEF DeployManager, IInv, Kept
  <2>2. proc'.step = "markets" /\ DOMAIN proc' = Fields /\ proc'.todo = proc.todo
    BY <1>4 DEF DeployManager, Goto, IInv, ProcOK, Fields
  <2>3. InSight'
    BY <1>4, <2>1, <2>2 DEF DeployManager, InSight, IInv, OnMarket, Upgrading
  <2>4. QED
    BY <1>2, <1>4, <2>1, <2>2, <2>3 DEF DeployManager
<1>5. CASE ImportMarkets
  <2> DEFINE m == [p \in DOMAIN known \cup proc.before |->
                     IF p \in proc.before THEN Targets(chain.routes[p]) ELSE known[p]]
  <2>1. chain' = Known(m) /\ UNCHANGED targets
    BY <1>5 DEF ImportMarkets, addProxiedMarkets
  <2> HIDE DEF m
  <2>2. ChainOK' /\ known' = m
    BY <2>1, SetKeeps DEF IInv
  <2>3. proc'.step = "markets" /\ DOMAIN proc' = Fields /\ proc'.todo = proc.todo
    BY <1>5 DEF ImportMarkets, Goto, IInv, ProcOK, Fields
  <2>4. proc.before \subseteq DOMAIN m
    BY DEF m
  <2>5. InSight'
    BY <1>5, <2>2, <2>3, <2>4 DEF ImportMarkets, InSight, IInv, OnMarket, Upgrading, Keys
  <2>6. QED
    BY <1>2, <1>5, <2>2, <2>3, <2>5 DEF ImportMarkets
<1>6. CASE StartMarkets /\ proc.todo = {}
  <2>1. ChainOK' /\ proc'.step = "cleanup" /\ DOMAIN proc' = Fields /\ proc'.todo = proc.todo
    BY <1>6, KeptIsOK DEF StartMarkets, Goto, IInv, ProcOK, Fields, Kept
  <2>2. InSight'
    BY <2>1 DEF InSight, OnMarket, Upgrading
  <2>3. QED
    BY <1>2, <1>6, <2>1, <2>2 DEF StartMarkets
<1>7. CASE StartMarkets /\ proc.todo # {}
  <2>1. Kept
    BY <1>7 DEF StartMarkets, IInv, ChainOK, Kept
  <2>2. ChainOK' /\ proc'.step = "deploy" /\ DOMAIN proc' = Fields /\ proc'.todo = proc.todo
        /\ proc'.existing = Keys(DOMAIN known)
    BY <1>7, <2>1, KeptIsOK DEF StartMarkets, IInv, ProcOK, Fields
  <2>3. InSight'
    BY <1>7, <2>2 DEF StartMarkets, InSight, IInv, OnMarket, Upgrading
  <2>4. QED
    BY <1>2, <1>7, <2>2, <2>3 DEF StartMarkets
<1>8. QED
  BY <1>3, <1>4, <1>5, <1>6, <1>7

-----------------------------------------------------------------------------
(* What a market's contracts are called is not what the manager is called. *)
LEMMA ManagerIsApart ==
  ASSUME TodoOK, proc.step \in OnMarket, NEW part
  PROVE  <<market, part>> # Manager
BY MarketIsKnown DEF Manager

(* One contract of the market is deployed, or the step is over.            *)
DeployNothing ==
  UNCHANGED <<targets, chain>> /\ proc' = [proc EXCEPT !.step = "pauseMarket"]
DeployPart(part) ==
  LET n == <<market, part>> IN
  /\ targets' = [targets EXCEPT ![n] = @ + 1]
  /\ proc' = [proc EXCEPT !.updated = @ \cup {part}]
  /\ Kept
  /\ \/ chain'.routes = chain.routes
     \/ part = Proxy /\ chain'.routes = Put(chain.routes, <<market, part, targets[n] + 1>>, {})

(* What the step that deploys the contracts of a market comes to.          *)
LEMMA DeployIs ==
  ASSUME IInv, deployMarket
  PROVE  /\ proc.step = "deploy" /\ UNCHANGED <<suspended, history>>
         /\ DeployNothing \/ \E part : DeployPart(part)
<1>1. proc.step = "deploy" /\ UNCHANGED <<suspended, history>>
  BY DEF deployMarket, Working
<1>2. CASE Missing = {}
  BY <1>1, <1>2 DEF deployMarket, Goto, DeployNothing
<1>3. CASE Missing # {}
  <2> DEFINE part == deployOrder[CHOOSE i \in Missing : \A j \in Missing : i <= j]
             n == <<market, part>>
             proxies == Put(chain.routes, <<market, part, targets[n] + 1>>, {})
             states == Put(chain.state, <<market, part, targets[n] + 1>>,
                           [legacy |-> IF targets[n] = 0 THEN none ELSE Here(State),
                            initialized |-> FALSE, associated |-> {<<"owner">>}])
             impls == Put(chain.impl, <<market, part, targets[n] + 1>>,
                          [state |-> Here(State), proxy |-> Here(Proxy), manager |-> 0])
  <2>1. /\ targets' = [targets EXCEPT ![n] = @ + 1]
        /\ proc' = [proc EXCEPT !.updated = @ \cup {part}]
        /\ chain' = CASE part = Proxy -> [chain EXCEPT !.routes = proxies]
                      [] part = State -> [chain EXCEPT !.state = states]
                      [] OTHER -> [chain EXCEPT !.impl = impls]
    BY <1>3 DEF deployMarket
  <2> HIDE DEF part, states, impls
  <2>2. Kept /\ (chain'.routes = chain.routes \/ (part = Proxy /\ chain'.routes = proxies))
    <3> HIDE DEF proxies
    <3>1. \/ part = Proxy /\ chain' = [chain EXCEPT !.routes = proxies]
          \/ chain' = [chain EXCEPT !.state = states]
          \/ chain' = [chain EXCEPT !.impl = impls]
      BY <2>1
    <3>2. DOMAIN chain = {"routes", "state", "impl", "rates", "managers", "configured", "canSuspend"}
      BY DEF IInv, ChainOK
    <3>3. CASE part = Proxy /\ chain' = [chain EXCEPT !.routes = proxies]
      BY <3>2, <3>3 DEF Kept
    <3>4. CASE chain' = [chain EXCEPT !.state = states] \/ chain' = [chain EXCEPT !.impl = impls]
      BY <3>2, <3>4 DEF Kept
    <3>5. QED
      BY <3>1, <3>3, <3>4
  <2>3. DeployPart(part)
    BY <2>1, <2>2 DEF DeployPart
  <2>4. QED
    BY <1>1, <2>3
<1>4. QED
  BY <1>2, <1>3

(* Deploying the contracts of a market pauses and opens nothing.           *)
LEMMA DeployKeeps == IInv /\ deployMarket => IInv' /\ known' = known
<1> SUFFICES ASSUME IInv, deployMarket PROVE IInv' /\ known' = known
  OBVIOUS
<1>1. proc.step = "deploy" /\ UNCHANGED <<suspended, history>>
  BY DeployIs
<1>2. CASE DeployNothing
  <2>1. ChainOK' /\ known' = known
    BY <1>2, KeptIsOK DEF DeployNothing, IInv, Kept
  <2>2. /\ proc'.step = "pauseMarket" /\ DOMAIN proc' = Fields /\ proc'.todo = proc.todo
        /\ proc'.existing = proc.existing
    BY <1>1, <1>2, GotoKeeps DEF DeployNothing, IInv
  <2>3. QED
    BY <1>1, <2>1, <2>2 DEF IInv, ProcOK, TodoOK, StatusOK, InSight, StillPaused,
       PausedMeanwhile, Remembered, OnlyNew, OnMarket, Upgrading
<1>3. ASSUME NEW part, DeployPart(part)
      PROVE  IInv' /\ known' = known
  <2>1. <<market, part>> # Manager
    BY <1>1, ManagerIsApart DEF IInv, OnMarket
  <2>2. ChainOK' /\ known' = known
    BY <1>3, <2>1 DEF DeployPart, IInv, ChainOK, Kept, known
  <2>3. /\ proc'.step = "deploy" /\ DOMAIN proc' = Fields /\ proc'.todo = proc.todo
        /\ proc'.existing = proc.existing
    BY <1>1, <1>3 DEF DeployPart, IInv, ProcOK, Fields
  <2>4. QED
    BY <1>1, <2>2, <2>3 DEF IInv, ProcOK, TodoOK, StatusOK, InSight, StillPaused,
       PausedMeanwhile, Remembered, OnlyNew, OnMarket, Upgrading
<1>4. QED
  BY <1>2, <1>3, DeployIs

(* A market of the list is paused, and who had paused it remembered.       *)
LEMMA PauseKeeps == IInv /\ pauseMarket => IInv'
<1> SUFFICES ASSUME IInv, pauseMarket PROVE IInv'
  OBVIOUS
<1>1. ChainOK' /\ UNCHANGED history
  BY KeptIsOK DEF pauseMarket, IInv, Kept
<1>2. proc.step = "pauseMarket" /\ market \in Key
  BY MarketIsKnown DEF pauseMarket, Working, IInv, OnMarket
<1>3. /\ proc'.step = "initialize" /\ DOMAIN proc' = Fields /\ proc'.todo = proc.todo
      /\ proc'.existing = proc.existing
      /\ ~newMarket => proc'.wasPaused = (suspended[market] # "no")
  BY <1>2 DEF pauseMarket, IInv, ProcOK, Fields
<1>4. market' = market /\ (newMarket' <=> newMarket)
  BY <1>3 DEF market, newMarket
<1>5. /\ DOMAIN suspended' = DOMAIN suspended
      /\ ~newMarket => suspended'[market] # "no"
      /\ \A k \in Key : suspended[k] # "no" => suspended'[k] # "no"
  BY <1>2 DEF pauseMarket, IInv, StatusOK
<1>6. StatusOK' /\ StillPaused' /\ InSight'
  BY <1>1, <1>2, <1>3, <1>5 DEF Key, IInv, StatusOK, StillPaused, InSight, OnMarket, Upgrading
<1>7. PausedMeanwhile'
  BY <1>3, <1>4, <1>5 DEF PausedMeanwhile
<1>8. Remembered'
  BY <1>1, <1>2, <1>3, <1>4 DEF Remembered, IInv, StillPaused
<1>9. ProcOK' /\ TodoOK' /\ OnlyNew'
  BY <1>2, <1>3 DEF OnlyNew, ProcOK, IInv, TodoOK, OnMarket, Upgrading
<1>10. QED
  BY <1>1, <1>6, <1>7, <1>8, <1>9 DEF IInv

(* Only a market that was not in the list goes on to be opened or paused.  *)
LEMMA ConfigureKeeps == IInv /\ configureMarket => IInv'
<1> SUFFICES ASSUME IInv, configureMarket PROVE IInv'
  OBVIOUS
<1>1. Kept
  BY DEF configureMarket, Kept, IInv, ChainOK
<1>2. PICK s \in Upgrading : proc' = [proc EXCEPT !.step = s] /\ (s = "pausedMode" => newMarket)
  BY DEF configureMarket, Goto, Upgrading
<1>3. QED
  BY <1>1, <1>2, KeptIsOK, UpgradeKeeps DEF configureMarket, IInv, Working, Upgrading

(* A key that was not found paused may be opened.                          *)
LEMMA OpenKeeps ==
  ASSUME StatusOK, NEW k, k \notin history.foundPaused, Confirmed(k)
  PROVE  /\ DOMAIN suspended' = Key
         /\ \A j \in history.foundPaused : suspended'[j] = suspended[j]
         /\ \A j \in Key : j # k => suspended'[j] = suspended[j]
BY DEF Confirmed, StatusOK, Key

(* Only a new market is opened or paused as it is configured, and its      *)
(* offchain key is the key of no market.                                   *)
LEMMA PausedModeKeeps ==
  ASSUME IInv, NEW step \in Upgrading, NEW next \in Upgrading \ {"pausedMode"}, NEW k, k \notin history.foundPaused,
         k = market => newMarket, setPausedMode(step, k, next)
  PROVE  IInv'
<1> USE DEF Upgrading
<1>1. ChainOK' /\ UNCHANGED history /\ proc.step = step
  BY KeptIsOK DEF setPausedMode, Working, IInv, Kept
<1>2. /\ DOMAIN suspended' = Key
      /\ \A j \in history.foundPaused : suspended'[j] = suspended[j]
      /\ \A j \in Key : j # k => suspended'[j] = suspended[j]
  <2>1. CASE k \in paused
    BY <2>1 DEF setPausedMode, IInv, StatusOK, Key
  <2>2. CASE k \notin paused
    BY <2>2, OpenKeeps DEF setPausedMode, IInv
  <2>3. QED
    BY <2>1, <2>2
<1>3. /\ proc'.step = next /\ DOMAIN proc' = Fields /\ proc'.todo = proc.todo
      /\ proc'.existing = proc.existing /\ proc'.wasPaused = proc.wasPaused
      /\ market' = market /\ (newMarket' <=> newMarket)
  BY <1>1, GotoKeeps DEF setPausedMode, Goto, IInv
<1>4. StatusOK' /\ StillPaused' /\ InSight' /\ ProcOK' /\ TodoOK' /\ Remembered' /\ OnlyNew'
  BY <1>1, <1>2, <1>3 DEF IInv, StatusOK, StillPaused, InSight, ProcOK, TodoOK, Remembered, OnlyNew, OnMarket
<1>5. PausedMeanwhile'
  BY <1>1, <1>2, <1>3, MarketIsKnown DEF IInv, PausedMeanwhile, OnMarket
<1>6. QED
  BY <1>1, <1>4, <1>5 DEF IInv

(* A new market is in no list, and an offchain key is no market's.         *)
LEMMA PausedModesKeep == IInv /\ (PausedMode \/ OffchainPausedMode) => IInv'
<1> SUFFICES ASSUME IInv, PausedMode \/ OffchainPausedMode PROVE IInv'
  OBVIOUS
<1>1. market \in ToSet(Market) /\ Offchain[market] \notin ToSet(Market)
  BY MarketIsKnown, MarketAssumption DEF PausedMode, OffchainPausedMode, setPausedMode, Working, IInv,
     OnMarket, Upgrading
<1>2. history.foundPaused \subseteq ToSet(Market)
  BY DEF IInv, StatusOK
<1>3. CASE PausedMode
  <2>1. newMarket /\ history.foundPaused \subseteq proc.existing
    BY <1>3 DEF PausedMode, setPausedMode, Working, IInv, OnlyNew, InSight, OnMarket, Upgrading
  <2>2. market \notin history.foundPaused
    BY <2>1 DEF newMarket
  <2>3. QED
    BY <1>3, <2>1, <2>2, PausedModeKeeps DEF PausedMode, Upgrading
<1>4. CASE OffchainPausedMode
  BY <1>1, <1>2, <1>4, PausedModeKeeps DEF OffchainPausedMode, Upgrading
<1>5. QED
  BY <1>3, <1>4

(* A market that the run had found paused stays paused.                    *)
LEMMA ResumeKeeps == IInv /\ resumeMarket => IInv'
<1> SUFFICES ASSUME IInv, resumeMarket PROVE IInv'
  OBVIOUS
<1>1. proc.step = "resumeMarket" /\ market \in ToSet(Market)
  BY MarketIsKnown DEF resumeMarket, Working, IInv, OnMarket, Upgrading
<1>2. ChainOK'
  BY KeptIsOK DEF resumeMarket, IInv, Kept
<1>3. /\ DOMAIN history' = DOMAIN history /\ history'.foundPaused = history.foundPaused
  BY DEF resumeMarket, IInv, StatusOK
<1>4. DOMAIN suspended' = Key /\ \A j \in history.foundPaused : suspended'[j] = suspended[j]
  <2>1. CASE ~newMarket /\ ~proc.wasPaused
    <3>1. market \notin history.foundPaused
      BY <1>1, <2>1 DEF IInv, Remembered, Upgrading
    <3>2. QED
      BY <2>1, <3>1, OpenKeeps DEF resumeMarket, IInv
  <2>2. CASE newMarket \/ proc.wasPaused
    BY <2>2 DEF resumeMarket, IInv, StatusOK
  <2>3. QED
    BY <2>1, <2>2
<1>5. /\ DOMAIN proc' = Fields /\ proc'.existing = proc.existing
      /\ proc'.todo = proc.todo \ {market}
      /\ proc'.step = IF proc'.todo = {} THEN "revoke" ELSE "deploy"
  BY <1>1 DEF resumeMarket, IInv, ProcOK, Fields
<1>6. StatusOK' /\ StillPaused' /\ InSight'
  BY <1>1, <1>3, <1>4, <1>5 DEF IInv, StatusOK, StillPaused, InSight, OnMarket, Upgrading
<1>7. ProcOK' /\ TodoOK' /\ PausedMeanwhile' /\ Remembered' /\ OnlyNew'
  BY <1>1, <1>5 DEF IInv, ProcOK, TodoOK, PausedMeanwhile, Remembered, OnlyNew, OnMarket, Upgrading
<1>8. QED
  BY <1>2, <1>6, <1>7 DEF IInv

(* What follows the markets is about none of them.                         *)
LEMMA EndKeeps ==
  IInv /\ (RevokeAccess \/ CleanupRates \/ CleanupMarkets \/ Finish \/ Crash) => IInv'
<1> SUFFICES ASSUME IInv, RevokeAccess \/ CleanupRates \/ CleanupMarkets \/ Finish \/ Crash PROVE IInv'
  OBVIOUS
<1>1. ChainOK'
  <2>1. CASE CleanupMarkets
    BY <2>1, SetKeeps DEF CleanupMarkets, IInv
  <2>2. CASE RevokeAccess \/ CleanupRates \/ Finish \/ Crash
    <3>1. Kept /\ UNCHANGED targets
      BY <2>2 DEF RevokeAccess, CleanupRates, RemoveRates, AddRates, Finish, Crash, Kept, IInv, ChainOK
    <3>2. QED
      BY <3>1, KeptIsOK DEF IInv
  <2>3. QED
    BY <2>1, <2>2
<1>2. UNCHANGED suspended /\ DOMAIN history' = DOMAIN history /\ history'.foundPaused = history.foundPaused
  BY DEF RevokeAccess, CleanupRates, RemoveRates, AddRates, CleanupMarkets, Finish, Crash, IInv, StatusOK
<1>3. StatusOK'
  BY <1>2 DEF IInv, StatusOK
<1>4. CASE proc'.step = "off"
  BY <1>1, <1>3, <1>4, OffKeeps
<1>5. CASE proc'.step # "off"
  <2>1. proc.step \in {"revoke", "cleanup", "cleanupRates", "cleanupMarkets"}
        /\ \E s \in {"cleanup", "cleanupRates", "cleanupMarkets", "finish"} : proc' = [proc EXCEPT !.step = s]
    BY <1>5 DEF RevokeAccess, CleanupRates, RemoveRates, AddRates, CleanupMarkets, Finish, Crash, Goto, Working
  <2>2. ProcOK' /\ proc'.step \in {"cleanup", "cleanupRates", "cleanupMarkets", "finish"}
    BY <2>1, GotoKeeps DEF IInv, ProcOK
  <2>3. StillPaused'
    BY <1>2, <2>1 DEF IInv, StillPaused
  <2>4. QED
    BY <1>1, <1>3, <2>2, <2>3 DEF IInv, TodoOK, InSight, PausedMeanwhile, Remembered, OnlyNew, OnMarket, Upgrading
<1>6. QED
  BY <1>4, <1>5

(* A guardian who pauses meanwhile takes nothing away.                     *)
LEMMA GuardianKeeps == IInv /\ GuardianPauses => IInv'
<1> SUFFICES ASSUME IInv, GuardianPauses PROVE IInv'
  OBVIOUS
<1>1. ChainOK' /\ known' = known
  BY KeptIsOK DEF GuardianPauses, IInv, Kept
<1>2. UNCHANGED proc /\ DOMAIN history' = DOMAIN history /\ history'.foundPaused = history.foundPaused
  BY DEF GuardianPauses, IInv, StatusOK
<1>3. /\ DOMAIN suspended' = Key
      /\ \A j \in Key : suspended'[j] = suspended[j] \/ suspended'[j] = "guardian"
  BY DEF GuardianPauses, IInv, StatusOK
<1>4. market' = market /\ (newMarket' <=> newMarket)
  BY <1>2 DEF market, newMarket
<1>5. StatusOK' /\ StillPaused' /\ InSight' /\ ProcOK' /\ TodoOK' /\ OnlyNew' /\ Remembered'
  BY <1>1, <1>2, <1>3, <1>4 DEF IInv, StatusOK, StillPaused, InSight, ProcOK, TodoOK, OnlyNew, Remembered, Key
<1>6. PausedMeanwhile'
  BY <1>2, <1>3, <1>4, MarketIsKnown DEF IInv, PausedMeanwhile, OnMarket
<1>7. QED
  BY <1>1, <1>5, <1>6 DEF IInv

(* Every step keeps the invariant.                                         *)
LEMMA NextKeeps == IInv /\ [Next]_vars => IInv'
<1> SUFFICES ASSUME IInv, [Next]_vars PROVE IInv'
  OBVIOUS
<1>1. CASE Next
  BY <1>1, BetweenKeeps, StartKeeps, GenericsKeep, DeployKeeps, PauseKeeps, LinkKeeps, ConfigureKeeps,
     PausedModesKeep, ResumeKeeps, EndKeeps, GuardianKeeps DEF Next, Process
<1>2. CASE UNCHANGED vars
  BY <1>2 DEF vars, IInv, ProcOK, TodoOK, ChainOK, StatusOK, InSight, StillPaused, PausedMeanwhile,
     Remembered, OnlyNew, market, newMarket, known
<1>3. QED
  BY <1>1, <1>2

-----------------------------------------------------------------------------
(* The markets that the manager knows and that are still to be upgraded    *)
(* were in the list.                                                       *)
Linked == {"rebuildCaches", "configureMarket", "pausedMode", "offchainPausedMode", "resumeMarket"}
Unlinked == IF proc.step \in Linked THEN proc.todo \ {market} ELSE proc.todo
Listed == proc.step \in OnMarket => Keys(DOMAIN known) \cap Unlinked \subseteq proc.existing

(* No proxy is from a later deployment than the last.                      *)
Dated ==
  /\ targets \in [Name -> Nat]
  /\ \A p \in DOMAIN chain.routes :
       \E m \in ToSet(Market) : \E n \in Nat : p = <<m, Proxy, n>> /\ n <= targets[<<m, Proxy>>]

RInv == IInv /\ Listed /\ Dated

(* The proxy of a market is a name of deployment.json.                     *)
LEMMA NameOfProxy == \A m \in ToSet(Market) : <<m, Proxy>> \in Name
BY DEF Name, Parts

(* In the beginning the proxies are from their first deployment.           *)
LEMMA InitRInv == Init => Listed /\ Dated
<1> SUFFICES ASSUME Init PROVE Listed /\ Dated
  OBVIOUS
<1>1. Listed
  BY DEF Init, Listed, OnMarket, Upgrading
<1>2. targets = InitialTargets /\ InitialTargets \in [Name -> Nat]
  BY DEF Init, InitialTargets
<1>3. DOMAIN chain.routes = {At(InitialTargets, m, Proxy) : m \in Existing}
  BY DEF Init
<1>4. ASSUME NEW m \in Existing
      PROVE  \E n \in Nat : At(InitialTargets, m, Proxy) = <<m, Proxy, n>> /\ n <= targets[<<m, Proxy>>]
  <2>1. <<m, Proxy>> \in Name
    BY NameOfProxy, MarketAssumption
  <2>2. InitialTargets[<<m, Proxy>>] \in Nat
    BY <1>2, <2>1
  <2>3. QED
    BY <1>2, <2>2 DEF At
<1>5. QED
  BY <1>1, <1>2, <1>3, <1>4, MarketAssumption DEF Dated

(* A step that leaves the list of markets and the managers alone.          *)
LEMMA ListKeeps ==
  ASSUME IInv, Listed, known' = known,
         proc' = proc \/ \E s : proc' = [proc EXCEPT !.step = s],
         proc'.step \in OnMarket => proc.step \in OnMarket,
         proc.step \in Linked => proc'.step \in Linked \/ proc'.step \notin OnMarket
  PROVE  Listed'
<1> SUFFICES ASSUME proc'.step \in OnMarket PROVE (Keys(DOMAIN known) \cap Unlinked)' \subseteq proc'.existing
  BY DEF Listed
<1>1. proc.step \in OnMarket /\ proc.step # "off"
  BY DEF OnMarket, Upgrading
<1>2. proc'.todo = proc.todo /\ proc'.existing = proc.existing /\ market' = market
  <2>1. CASE proc' = proc
    BY <2>1 DEF market
  <2>2. CASE \E s : proc' = [proc EXCEPT !.step = s]
    BY <1>1, <2>2, GotoKeeps DEF IInv
  <2>3. QED
    BY <2>1, <2>2
<1>3. Unlinked' \subseteq Unlinked
  BY <1>2 DEF Unlinked
<1>4. QED
  BY <1>1, <1>2, <1>3 DEF Listed, Keys

(* Linking adds only the market at hand to the manager.                    *)
LEMMA LinkLists == IInv /\ Listed /\ LinkMarket => Listed'
<1> SUFFICES ASSUME IInv, Listed, LinkMarket PROVE Listed'
  OBVIOUS
<1> USE DEF Working
<1>1. CASE linkToMarketManager /\ proc'.step # "off"
  <2>1. proc.step = "linkToMarketManager" /\ proc' = [proc EXCEPT !.step = "rebuildCaches"]
    BY <1>1 DEF linkToMarketManager, Goto
  <2>2. /\ proc'.todo = proc.todo /\ proc'.existing = proc.existing
        /\ proc'.step = "rebuildCaches" /\ market' = market
    BY <2>1, GotoKeeps DEF IInv
  <2>3. DOMAIN known' \subseteq DOMAIN known \cup {Here(Proxy)}
    <3>1. CASE chain' = chain
      BY <1>1, <3>1 DEF linkToMarketManager, known
    <3>2. CASE addProxiedMarkets({Here(Proxy)}) \/ updateMarketsImplementations({Here(Proxy)})
      BY <1>1, <3>2, SetKeeps DEF linkToMarketManager, addProxiedMarkets, updateMarketsImplementations, IInv
    <3>3. QED
      BY <1>1, <3>1, <3>2 DEF linkToMarketManager
  <2>4. Here(Proxy)[1] = market
    BY DEF Here, At
  <2>5. Keys(DOMAIN known)' \subseteq Keys(DOMAIN known) \cup {market}
    BY <2>3, <2>4 DEF Keys
  <2>6. QED
    BY <2>1, <2>2, <2>5 DEF Listed, Unlinked, Linked, OnMarket, Upgrading
<1>2. CASE linkToMarketManager /\ proc'.step = "off"
  BY <1>2 DEF Listed, OnMarket, Upgrading
<1>3. CASE ~linkToMarketManager
  <2>1. /\ Kept /\ UNCHANGED targets
        /\ proc' = proc \/ \E s \in Upgrading : proc' = [proc EXCEPT !.step = s]
        /\ proc.step \in Upgrading /\ (proc.step \in Linked => proc'.step \in Linked)
    BY <1>3 DEF LinkMarket, linkOrInitializeState, enableInLegacy, linkToState, linkToPerpsExchangeRate,
       setProxy, removeRoutes, addRoutes, rebuildCaches, Goto, Kept, IInv, ChainOK, Upgrading, Linked,
       ProcOK, Fields
  <2>2. QED
    BY <2>1, ListKeeps, KeptIsOK DEF IInv, OnMarket
<1>4. QED
  BY <1>1, <1>2, <1>3

(* The list is read for all the markets that are to be upgraded.           *)
LEMMA RunLists ==
  IInv /\ Listed /\ (StartMarkets \/ deployMarket \/ pauseMarket \/ configureMarket \/ PausedMode
                     \/ OffchainPausedMode \/ resumeMarket) => Listed'
<1> SUFFICES ASSUME IInv, Listed, StartMarkets \/ deployMarket \/ pauseMarket \/ configureMarket
                    \/ PausedMode \/ OffchainPausedMode \/ resumeMarket
             PROVE  Listed'
  OBVIOUS
<1> USE DEF Working
<1>1. CASE StartMarkets
  <2>1. CASE proc.todo = {}
    BY <1>1, <2>1 DEF StartMarkets, Goto, Listed, OnMarket, Upgrading, IInv, ProcOK, Fields
  <2>2. CASE proc.todo # {}
    <3>1. Kept /\ UNCHANGED targets /\ proc'.existing = Keys(DOMAIN known)
      BY <1>1, <2>2 DEF StartMarkets, Kept, IInv, ChainOK, ProcOK, Fields
    <3>2. known' = known
      BY <3>1, KeptIsOK DEF IInv
    <3>3. QED
      BY <3>1, <3>2 DEF Listed
  <2>3. QED
    BY <2>1, <2>2
<1>2. CASE resumeMarket
  <2>1. Kept /\ UNCHANGED targets
    BY <1>2 DEF resumeMarket, Kept
  <2>2. /\ proc.step = "resumeMarket" /\ proc'.todo = proc.todo \ {market}
        /\ proc'.step \in {"revoke", "deploy"} /\ proc'.existing = proc.existing
    BY <1>2 DEF resumeMarket, IInv, ProcOK, Fields
  <2>3. known' = known /\ Unlinked' = Unlinked
    BY <2>1, <2>2, KeptIsOK DEF IInv, Unlinked, Linked
  <2>4. QED
    BY <2>2, <2>3 DEF Listed, OnMarket, Upgrading
<1>3. CASE deployMarket
  <2>1. known' = known /\ proc.step = "deploy"
    BY <1>3, DeployKeeps, DeployIs
  <2>2. /\ proc'.step \in {"deploy", "pauseMarket"}
        /\ proc'.todo = proc.todo /\ proc'.existing = proc.existing
    BY <1>3, <2>1, DeployIs DEF DeployNothing, DeployPart, IInv, ProcOK, Fields
  <2>3. Unlinked' = Unlinked
    BY <2>1, <2>2 DEF Unlinked, Linked
  <2>4. QED
    BY <2>1, <2>2, <2>3 DEF Listed, OnMarket, Upgrading
<1>4. CASE pauseMarket
  <2>1. Kept /\ UNCHANGED targets /\ proc.step = "pauseMarket"
    BY <1>4 DEF pauseMarket, Kept
  <2>2. proc'.step = "initialize" /\ proc'.todo = proc.todo /\ proc'.existing = proc.existing
    BY <1>4 DEF pauseMarket, IInv, ProcOK, Fields
  <2>3. known' = known /\ Unlinked' = Unlinked
    BY <2>1, <2>2, KeptIsOK DEF IInv, Unlinked, Linked
  <2>4. QED
    BY <2>1, <2>2, <2>3 DEF Listed, OnMarket, Upgrading
<1>5. CASE configureMarket \/ PausedMode \/ OffchainPausedMode
  <2>1. Kept /\ UNCHANGED targets
    BY <1>5 DEF configureMarket, PausedMode, OffchainPausedMode, setPausedMode, Kept, IInv, ChainOK
  <2>2. /\ proc.step \in Linked
        /\ \E s \in Linked : proc' = [proc EXCEPT !.step = s]
    BY <1>5 DEF configureMarket, PausedMode, OffchainPausedMode, setPausedMode, Goto, Linked
  <2>3. proc'.step \in Linked
    BY <2>2 DEF IInv, ProcOK, Fields, Linked
  <2>4. QED
    BY <2>1, <2>2, <2>3, ListKeeps, KeptIsOK DEF IInv, Linked, OnMarket, Upgrading
<1>6. QED
  BY <1>1, <1>2, <1>3, <1>4, <1>5

(* The other steps are before the list is read, or after its use.          *)
LEMMA OthersList ==
  IInv /\ Listed /\ (PrepareDeploy \/ (\E o \in Options : Start(o)) \/ DeployManager \/ ImportMarkets
                     \/ RevokeAccess \/ CleanupRates \/ CleanupMarkets \/ Finish \/ Crash
                     \/ GuardianPauses \/ GuardianResumes \/ UNCHANGED vars) => Listed'
<1> SUFFICES ASSUME IInv, Listed,
                    PrepareDeploy \/ (\E o \in Options : Start(o)) \/ DeployManager \/ ImportMarkets
                    \/ RevokeAccess \/ CleanupRates \/ CleanupMarkets \/ Finish \/ Crash
                    \/ GuardianPauses \/ GuardianResumes \/ UNCHANGED vars
             PROVE  Listed'
  OBVIOUS
<1>1. CASE PrepareDeploy \/ GuardianPauses \/ GuardianResumes \/ UNCHANGED vars
  BY <1>1 DEF PrepareDeploy, GuardianPauses, GuardianResumes, vars, Listed, Unlinked, known, market
<1>2. CASE (\E o \in Options : Start(o)) \/ DeployManager \/ ImportMarkets \/ RevokeAccess
           \/ CleanupRates \/ CleanupMarkets \/ Finish \/ Crash
  <2>1. proc'.step \notin OnMarket
    <3>1. \/ proc'.step \in {"off", "manager"}
          \/ DOMAIN proc = Fields /\ \E s \in {"import", "markets", "cleanup", "cleanupRates", "cleanupMarkets", "finish"} :
               proc' = [proc EXCEPT !.step = s] \/ proc' = [proc EXCEPT !.step = s, !.before = DOMAIN known]
      BY <1>2 DEF Start, DeployManager, ImportMarkets, RevokeAccess, CleanupRates,
         RemoveRates, AddRates, CleanupMarkets, Finish,
         Crash, Goto, Working, IInv, ProcOK
    <3>2. QED
      BY <3>1 DEF OnMarket, Upgrading, Fields
  <2>2. QED
    BY <2>1 DEF Listed
<1>3. QED
  BY <1>1, <1>2

(* A step that deploys no proxy and takes none away.                       *)
LEMMA DatedKeeps ==
  ASSUME Dated, NEW n, targets' = targets \/ targets' = [targets EXCEPT ![n] = @ + 1],
         DOMAIN chain'.routes \subseteq DOMAIN chain.routes
  PROVE  Dated'
<1>1. targets' \in [Name -> Nat] /\ \A x \in Name : targets'[x] >= targets[x]
  BY DEF Dated
<1>2. ASSUME NEW p \in DOMAIN chain.routes
      PROVE  \E m \in ToSet(Market) : \E k \in Nat : p = <<m, Proxy, k>> /\ k <= targets'[<<m, Proxy>>]
  <2>1. PICK m \in ToSet(Market), k \in Nat : p = <<m, Proxy, k>> /\ k <= targets[<<m, Proxy>>]
    BY DEF Dated
  <2>2. <<m, Proxy>> \in Name
    BY NameOfProxy
  <2>3. targets[<<m, Proxy>>] \in Nat /\ targets'[<<m, Proxy>>] \in Nat
    BY <1>1, <2>2 DEF Dated
  <2>4. QED
    BY <1>1, <2>1, <2>2, <2>3
<1>3. QED
  BY <1>1, <1>2 DEF Dated

(* A proxy that is deployed is later than all before it.                   *)
LEMMA NextDated == RInv /\ [Next]_vars => Dated'
<1> SUFFICES ASSUME RInv, [Next]_vars PROVE Dated'
  OBVIOUS
<1>1. CASE deployMarket
  <2>1. CASE DeployNothing
    BY <2>1 DEF DeployNothing, RInv, Dated
  <2>2. ASSUME NEW part, DeployPart(part) PROVE Dated'
    <3> DEFINE n == <<market, part>>
    <3>1. targets' = [targets EXCEPT ![n] = @ + 1]
      BY <2>2 DEF DeployPart
    <3>2. CASE chain'.routes = chain.routes
      BY <3>1, <3>2, DatedKeeps DEF RInv
    <3>3. CASE part = Proxy /\ chain'.routes = Put(chain.routes, <<market, part, targets[n] + 1>>, {})
      <4>1. market \in ToSet(Market)
        BY <1>1, MarketIsKnown, DeployIs DEF RInv, IInv, OnMarket
      <4>2. n \in Name /\ targets[n] \in Nat
        BY <3>3, <4>1, NameOfProxy DEF RInv, Dated
      <4>3. targets' \in [Name -> Nat] /\ targets'[n] = targets[n] + 1
            /\ \A x \in Name : targets'[x] >= targets[x]
        BY <3>1, <4>2 DEF RInv, Dated
      <4>4. DOMAIN chain'.routes = DOMAIN chain.routes \cup {<<market, Proxy, targets[n] + 1>>}
        BY <3>3 DEF Put
      <4>5. ASSUME NEW p \in DOMAIN chain.routes
            PROVE  \E m \in ToSet(Market) : \E k \in Nat : p = <<m, Proxy, k>> /\ k <= targets'[<<m, Proxy>>]
        <5>1. PICK m \in ToSet(Market), k \in Nat : p = <<m, Proxy, k>> /\ k <= targets[<<m, Proxy>>]
          BY DEF RInv, Dated
        <5>2. <<m, Proxy>> \in Name
          BY NameOfProxy
        <5>3. targets[<<m, Proxy>>] \in Nat /\ targets'[<<m, Proxy>>] \in Nat
          BY <4>3, <5>2 DEF RInv, Dated
        <5>4. QED
          BY <4>3, <5>1, <5>2, <5>3
      <4>6. \E m \in ToSet(Market) : \E k \in Nat :
              <<market, Proxy, targets[n] + 1>> = <<m, Proxy, k>> /\ k <= targets'[<<m, Proxy>>]
        BY <3>3, <4>1, <4>2, <4>3
      <4>7. QED
        BY <4>3, <4>4, <4>5, <4>6 DEF Dated
    <3>4. QED
      BY <2>2, <3>2, <3>3 DEF DeployPart
  <2>3. QED
    BY <1>1, <2>1, <2>2, DeployIs DEF RInv
<1>2. CASE DeployManager
  <2>1. DOMAIN chain'.routes = DOMAIN chain.routes
    BY <1>2 DEF DeployManager, RInv, IInv, ChainOK
  <2>2. QED
    BY <1>2, <2>1, DatedKeeps DEF DeployManager, RInv
<1>3. CASE LinkMarket
  <2>1. DOMAIN chain'.routes = DOMAIN chain.routes /\ UNCHANGED targets
    BY <1>3 DEF LinkMarket, linkOrInitializeState, enableInLegacy, linkToState, linkToPerpsExchangeRate,
       setProxy, removeRoutes, addRoutes, rebuildCaches, linkToMarketManager, addProxiedMarkets,
       updateMarketsImplementations, Known, RInv, IInv, ChainOK
  <2>2. QED
    BY <2>1, DatedKeeps DEF RInv
<1>4. CASE ~(deployMarket \/ DeployManager \/ LinkMarket)
  <2>1. DOMAIN chain'.routes = DOMAIN chain.routes /\ UNCHANGED targets
    BY <1>4 DEF Next, Process, vars, PrepareDeploy, Start, ImportMarkets, StartMarkets, pauseMarket,
       configureMarket, PausedMode, OffchainPausedMode, setPausedMode, resumeMarket, RevokeAccess,
       CleanupRates,
       RemoveRates, AddRates, CleanupMarkets, Finish, Crash, GuardianPauses, GuardianResumes, addProxiedMarkets,
       Known, RInv, IInv, ChainOK
  <2>2. QED
    BY <2>1, DatedKeeps DEF RInv
<1>5. QED
  BY <1>1, <1>2, <1>3, <1>4

(* Every step keeps the stronger invariant.                                *)
LEMMA NextRInv == RInv /\ [Next]_vars => RInv'
<1> SUFFICES ASSUME RInv, [Next]_vars PROVE RInv'
  OBVIOUS
<1>1. IInv'
  BY NextKeeps DEF RInv
<1>2. Listed'
  BY LinkLists, RunLists, OthersList DEF RInv, Next, Process
<1>3. QED
  BY <1>1, <1>2, NextDated DEF RInv

(* What a market of the manager leads to is changed only while trading in  *)
(* it is suspended, whoever suspended it, and however many runs were       *)
(* killed, with whatever contracts deployed and linked.                    *)
THEOREM RoutesFollowPause == Spec => [][RoutedWhilePaused]_vars
<1>1. RInv /\ [Next]_vars => [RoutedWhilePaused]_vars
  <2> SUFFICES ASSUME RInv, Next, NEW p \in DOMAIN known \cap DOMAIN chain.routes,
                      chain'.routes[p] # chain.routes[p]
               PROVE  suspended[p[1]] # "no"
    BY DEF RoutedWhilePaused
  <2>1. CASE deployMarket
    <3>1. PICK part : DeployPart(part) /\ part = Proxy
                      /\ chain'.routes = Put(chain.routes, <<market, part, targets[<<market, part>>] + 1>>, {})
      BY <2>1, DeployIs DEF RInv, DeployNothing, DeployPart
    <3>2. p = <<market, Proxy, targets[<<market, Proxy>>] + 1>>
      BY <3>1 DEF Put
    <3>3. PICK m \in ToSet(Market), n \in Nat : p = <<m, Proxy, n>> /\ n <= targets[<<m, Proxy>>]
      BY DEF RInv, Dated
    <3>4. targets[<<m, Proxy>>] \in Nat
      BY NameOfProxy DEF RInv, Dated
    <3>5. QED
      BY <3>2, <3>3, <3>4
  <2>2. CASE removeRoutes \/ addRoutes
    <3>1. /\ proc.step \in {"removeRoutes", "addRoutes"} /\ p = Here(Proxy)
          /\ UNCHANGED targets
      BY <2>2 DEF removeRoutes, addRoutes, Working, RInv, IInv, ChainOK
    <3>2. market \in proc.todo /\ p[1] = market
      BY <3>1, MarketIsKnown DEF RInv, IInv, OnMarket, Upgrading, Here, At
    <3>3. market \in Keys(DOMAIN known) /\ market \in Unlinked
      BY <3>1, <3>2 DEF Keys, Unlinked, Linked
    <3>4. ~newMarket
      BY <3>1, <3>3 DEF RInv, Listed, OnMarket, Upgrading, newMarket
    <3>5. QED
      BY <3>1, <3>2, <3>4 DEF RInv, IInv, PausedMeanwhile, Upgrading
  <2>3. CASE ~(deployMarket \/ removeRoutes \/ addRoutes)
    <3>1. chain'.routes = chain.routes
      BY <2>3 DEF Next, Process, LinkMarket, PrepareDeploy, Start, DeployManager, ImportMarkets, StartMarkets,
         pauseMarket, linkOrInitializeState, enableInLegacy, linkToState, linkToPerpsExchangeRate, setProxy,
         rebuildCaches, linkToMarketManager, configureMarket, PausedMode, OffchainPausedMode, setPausedMode,
         resumeMarket, RevokeAccess, CleanupRates,
         RemoveRates, AddRates, CleanupMarkets, Finish, Crash, GuardianPauses,
         GuardianResumes, addProxiedMarkets, updateMarketsImplementations, Known, RInv, IInv, ChainOK
    <3>2. QED
      BY <3>1
  <2>4. QED
    BY <2>1, <2>2, <2>3
<1>2. Init => RInv
  BY InitIInv, InitRInv DEF RInv
<1>3. QED
  BY <1>1, <1>2, NextRInv, PTL DEF Spec

(* No run opens a market that was paused when it began and that its manager *)
(* listed then, be it for the upgrade, for a market that is configured      *)
(* open, or because the manager was replaced and the list with it.  (A      *)
(* market that the manager had lost by then, and a pause that comes while   *)
(* the market is upgraded, are not among these: see KeptPaused.)            *)
THEOREM FoundPausedStaysPaused == Spec => [][KeptPaused]_vars
<1>1. IInv /\ [Next]_vars => [KeptPaused]_vars
  <2> SUFFICES ASSUME IInv, Next, NEW k \in history.foundPaused, proc.step # "off", suspended[k] # "no"
               PROVE  suspended'[k] # "no"
    BY DEF KeptPaused
  <2>1. k \in Key
    BY DEF IInv, StatusOK, Key
  <2>2. CASE Process
    <3>1. history'.foundPaused = history.foundPaused
      BY <2>2 DEF Process, LinkMarket, DeployManager, ImportMarkets, StartMarkets, deployMarket, pauseMarket,
         linkOrInitializeState, enableInLegacy, linkToState, linkToPerpsExchangeRate, setProxy, removeRoutes,
         addRoutes, linkToMarketManager, rebuildCaches, configureMarket, PausedMode, OffchainPausedMode,
         setPausedMode, resumeMarket, RevokeAccess, CleanupRates,
         RemoveRates, AddRates, CleanupMarkets, Finish, IInv, StatusOK
    <3>2. CASE proc'.step # "off"
      <4>1. IInv'
        BY NextKeeps
      <4>2. QED
        BY <3>1, <3>2, <4>1 DEF IInv, StillPaused
    <3>3. CASE proc'.step = "off"
      <4>1. linkToMarketManager \/ CleanupRates \/ Finish \/ UNCHANGED suspended
        BY <2>2, <3>3 DEF Process, LinkMarket, DeployManager, ImportMarkets, StartMarkets, deployMarket,
           pauseMarket, linkOrInitializeState, enableInLegacy, linkToState, linkToPerpsExchangeRate, setProxy,
           removeRoutes, addRoutes, rebuildCaches, configureMarket, PausedMode, OffchainPausedMode,
           setPausedMode, resumeMarket, RevokeAccess, CleanupMarkets, Goto, Working, IInv, ProcOK, Fields
      <4>2. QED
        BY <4>1 DEF linkToMarketManager, CleanupRates, RemoveRates, AddRates, Finish
    <3>4. QED
      BY <3>2, <3>3
  <2>3. CASE GuardianPauses
    BY <2>1, <2>3 DEF GuardianPauses, IInv, StatusOK
  <2>4. QED
    BY <2>2, <2>3 DEF Next, PrepareDeploy, Start, Crash, GuardianResumes
<1>2. QED
  BY <1>1, InitIInv, NextKeeps, PTL DEF Spec

(* The two together: the upgrade opens nothing that it found paused, and    *)
(* changes nothing that is not paused.                                      *)
THEOREM PausesAreRespected == Spec => PausesRespected
<1>1. [KeptPaused]_vars /\ [RoutedWhilePaused]_vars => [KeptPaused /\ RoutedWhilePaused]_vars
  OBVIOUS
<1>2. QED
  BY <1>1, FoundPausedStaysPaused, RoutesFollowPause, PTL DEF PausesRespected
-----------------------------------------------------------------------------
(* The names of contracts, their order and their number.                   *)
LEMMA KindApart == Kind \cap {Proxy, State} = {} /\ Mutating \subseteq Kind /\ UsesRate \subseteq Kind
<1>1. ASSUME NEW k \in Kind PROVE k # Proxy /\ k # State
  <2>1. PICK c \in ToSet(implementationConfigurations) : k = c.part
    BY MarketAssumption
  <2>2. \E i \in 1..5 : c = implementationConfigurations[i]
    BY <2>1 DEF ToSet, implementationConfigurations
  <2>3. QED
    BY <2>1, <2>2 DEF implementationConfigurations, Proxy, State
<1>2. QED
  BY <1>1 DEF Mutating, UsesRate, Implementations

LEMMA Names ==
  ASSUME NEW m \in ToSet(Market), NEW part \in Parts
  PROVE  <<m, part>> \in Name /\ <<m, part>> # Manager /\ Manager \in Name
BY MarketIsList DEF Name, Manager

(* What a proxy is to lead to: implementations of its market, by selectors  *)
(* that are each there once, and finitely many.                             *)
LEMMA SelectorsFinite ==
  ASSUME NEW part \in Kind, NEW nr \in Nat, nr # 0
  PROVE  IsFiniteSet(selectors(part, nr))
<1> DEFINE i == IF nr <= Len(Functions[part]) THEN nr ELSE Len(Functions[part])
<1>1. PICK fs : fs = Functions[part]
  OBVIOUS
<1>2. fs \in Seq(ToSet(fs)) /\ fs # <<>> /\ \A functions \in ToSet(fs) : IsFiniteSet(functions)
  BY <1>1, FunctionsAssumption
<1>3. PICK S : fs \in Seq(S)
  BY <1>2
<1>4. Len(fs) \in Nat /\ Len(fs) # 0 /\ DOMAIN fs = 1..Len(fs)
  BY <1>2, <1>3
<1>5. i \in DOMAIN fs
  BY <1>1, <1>4
<1>6. fs[i] \in ToSet(fs)
  BY <1>5 DEF ToSet
<1>7. QED
  BY <1>1, <1>2, <1>6 DEF selectors

LEMMA EachWanted ==
  ASSUME NEW tg, NEW m
  PROVE  /\ \A r \in Wanted(tg, m) : \E part \in Kind :
               r.to = At(tg, m, part) /\ r.selector \in selectors(part, tg[<<m, part>>])
         /\ \A r, q \in Wanted(tg, m) : r.selector = q.selector => r = q
<1> DEFINE at(i) == implementationConfigurations[i].part
           has(i) == IF at(i) \in Kind THEN selectors(at(i), tg[<<m, at(i)>>]) ELSE {}
           filtered(i) == has(i) \ UNION {has(j) : j \in 1..(i - 1)}
           group(i) == {[selector |-> f, to |-> At(tg, m, at(i))] : f \in filtered(i)}
<1>0. DOMAIN implementationConfigurations = 1..5
  BY DEF implementationConfigurations
<1>1. Wanted(tg, m) = UNION {group(i) : i \in 1..5}
  <2> HIDE DEF group
  <2>1. Wanted(tg, m) = UNION {group(i) : i \in DOMAIN implementationConfigurations}
    BY DEF Wanted, group
  <2>2. QED
    BY <2>1, <1>0
<1>2. ASSUME NEW i \in 1..5, NEW r \in group(i)
      PROVE  r.to = At(tg, m, at(i)) /\ r.selector \in filtered(i) /\ r = [selector |-> r.selector, to |-> r.to]
  <2> HIDE DEF filtered, at
  <2>1. QED
    BY <1>2
<1>3. ASSUME NEW i \in 1..5, NEW f \in filtered(i)
      PROVE  at(i) \in Kind /\ f \in selectors(at(i), tg[<<m, at(i)>>])
  BY <1>3
<1>4. ASSUME NEW i \in 1..5, NEW j \in 1..5, NEW f \in filtered(i), f \in filtered(j)
      PROVE  i = j
  <2>1. f \in has(i) /\ f \in has(j)
    BY <1>4
  <2>2. ~(i < j) /\ ~(j < i)
    <3> HIDE DEF has
    <3>1. ASSUME i < j PROVE FALSE
      BY <3>1, <2>1, <1>4
    <3>2. ASSUME j < i PROVE FALSE
      BY <3>2, <2>1, <1>4
    <3>3. QED
      BY <3>1, <3>2
  <2>3. QED
    BY <2>2
<1> HIDE DEF filtered, group, at
<1>5. QED
  BY <1>1, <1>2, <1>3, <1>4

LEMMA WantedFinite ==
  ASSUME NEW tg, NEW m, \A part \in Kind : tg[<<m, part>>] \in Nat \ {0}
  PROVE  IsFiniteSet(Wanted(tg, m))
<1> DEFINE W == Wanted(tg, m)
           all == UNION {selectors(part, tg[<<m, part>>]) : part \in Kind}
           used == {f \in all : \E r \in W : r.selector = f}
           of == [f \in used |-> CHOOSE r \in W : r.selector = f]
<1>1. IsFiniteSet(Kind)
  <2> DEFINE part == [i \in 1..5 |-> implementationConfigurations[i].part]
             named == {part[i] : i \in 1..5}
  <2>1. part \in Surjection(1..5, named)
    BY DEF Surjection
  <2>2. IsFiniteSet(1..5)
    <3>1. 1 \in Int /\ 5 \in Int
      OBVIOUS
    <3>2. QED
      BY ONLY <3>1, FS_Interval
  <2>3. IsFiniteSet(named)
    <3> HIDE DEF part, named
    <3>1. QED
      BY <2>1, <2>2, FS_Surjection
  <2>4. Kind \in SUBSET named
    <3>1. ASSUME NEW k \in Kind PROVE k \in named
      <4>1. PICK c \in ToSet(implementationConfigurations) : k = c.part
        BY MarketAssumption
      <4>2. \E i \in 1..5 : c = implementationConfigurations[i]
        BY <4>1 DEF ToSet, implementationConfigurations
      <4>3. QED
        BY <4>1, <4>2
    <3> HIDE DEF named
    <3>2. QED
      BY <3>1
  <2> HIDE DEF named
  <2>5. QED
    BY <2>3, <2>4, FS_Subset
<1>2. IsFiniteSet(all)
  <2> DEFINE sets == {selectors(part, tg[<<m, part>>]) : part \in Kind}
             to == [part \in Kind |-> selectors(part, tg[<<m, part>>])]
  <2>1. to \in Surjection(Kind, sets)
    BY DEF Surjection
  <2>2. \A T \in sets : IsFiniteSet(T)
    BY SelectorsFinite
  <2>3. IsFiniteSet(sets)
    <3> HIDE DEF to, sets
    <3>1. QED
      BY <1>1, <2>1, FS_Surjection
  <2> HIDE DEF sets
  <2>4. IsFiniteSet(UNION sets)
    BY <2>2, <2>3, FS_UNION
  <2>5. QED
    BY <2>4 DEF sets
<1>3. IsFiniteSet(used)
  <2> HIDE DEF all
  <2>1. used \in SUBSET all
    OBVIOUS
  <2> HIDE DEF used
  <2>2. QED
    BY <1>2, <2>1, FS_Subset
<1>4. \A r \in W : r.selector \in used
  <2> HIDE DEF W
  <2>1. \A r \in W : r.selector \in all
    BY EachWanted DEF W
  <2> HIDE DEF all
  <2>2. QED
    BY <2>1
<1>5. of \in Surjection(used, W)
  <2>1. \A r, q \in W : r.selector = q.selector => r = q
    BY EachWanted
  <2> HIDE DEF W, all
  <2>2. ASSUME NEW f \in used PROVE of[f] \in W /\ of[f].selector = f
    OBVIOUS
  <2>3. of \in [used -> W]
    BY <2>2
  <2>4. ASSUME NEW r \in W PROVE \E f \in used : of[f] = r
    BY <2>1, <2>2, <1>4
  <2> HIDE DEF of, used
  <2>5. QED
    BY <2>3, <2>4 DEF Surjection
<1> HIDE DEF W, used, of
<1>6. QED
  BY <1>3, <1>5, FS_Surjection DEF W

(* The first contract of the market that is still to be deployed.          *)
LEMMA FirstMissing ==
  LET part == deployOrder[CHOOSE i \in Missing : \A j \in Missing : i <= j] IN
  /\ Missing = {} => \A p \in Parts : ~NeedsDeploy(<<market, p>>)
  /\ Missing # {} =>
       /\ part \in Parts /\ NeedsDeploy(<<market, part>>)
       /\ part # Proxy => ~NeedsDeploy(<<market, Proxy>>)
       /\ part \in Kind => ~NeedsDeploy(<<market, State>>)
<1> DEFINE first == CHOOSE i \in Missing : \A j \in Missing : i <= j
<1>0. /\ DOMAIN deployOrder = 1..7 /\ deployOrder[1] = Proxy /\ deployOrder[2] = State
      /\ \A i \in 1..5 : deployOrder[i + 2] = implementationConfigurations[i].part
  BY DEF deployOrder
<1>1. ASSUME NEW p \in Parts PROVE \E i \in 1..7 : deployOrder[i] = p
  <2>1. CASE p \in {Proxy, State}
    BY <2>1, <1>0
  <2>2. CASE p \in Kind
    <3>1. PICK c \in ToSet(implementationConfigurations) : p = c.part
      BY <2>2, MarketAssumption
    <3>2. PICK i \in 1..5 : c = implementationConfigurations[i]
      BY <3>1 DEF ToSet, implementationConfigurations
    <3>3. i + 2 \in 1..7 /\ deployOrder[i + 2] = p
      BY <3>1, <3>2, <1>0
    <3>4. QED
      BY <3>3
  <2>3. QED
    BY <2>1, <2>2 DEF Parts
<1>2. Missing = {i \in 1..7 : deployOrder[i] \in Parts /\ NeedsDeploy(<<market, deployOrder[i]>>)}
  BY <1>0 DEF Missing
<1>3. Missing = {} => \A p \in Parts : ~NeedsDeploy(<<market, p>>)
  BY <1>1, <1>2
<1>4. ASSUME Missing # {}
      PROVE  first \in Missing /\ \A j \in Missing : first <= j
  <2>1. Missing \subseteq Nat
    BY <1>2
  <2>2. \E i \in Missing : \A j \in Missing : ~(<<j, i>> \in OpToRel(<, Nat))
    BY <1>4, <2>1, NatLessThanWellFounded, WFMin
  <2>3. PICK i \in Missing : \A j \in Missing : ~(j < i)
    BY <2>1, <2>2 DEF OpToRel
  <2>4. \A j \in Missing : i <= j
    BY <2>1, <2>3
  <2> HIDE DEF Missing
  <2>5. QED
    BY <2>4
<1>5. ASSUME Missing # {}
      PROVE  /\ deployOrder[first] # Proxy => ~NeedsDeploy(<<market, Proxy>>)
             /\ deployOrder[first] \in Kind => ~NeedsDeploy(<<market, State>>)
  <2> HIDE DEF first
  <2>0. first \in 1..7 /\ \A j \in Missing : first <= j
    <3>1. Missing \subseteq 1..7
      BY <1>2
    <3>2. QED
      BY <3>1, <1>4, <1>5
  <2>1. deployOrder[first] # Proxy => 1 \notin Missing
    BY <2>0, <1>0
  <2>2. deployOrder[first] \in Kind => 2 \notin Missing
    <3>1. deployOrder[first] \in Kind => first # 1 /\ first # 2
      BY <1>0, KindApart
    <3>2. QED
      BY <3>1, <2>0
  <2>3. QED
    BY <2>1, <2>2, <1>0, <1>2 DEF Parts
<1>6. Missing # {} => deployOrder[first] \in Parts /\ NeedsDeploy(<<market, deployOrder[first]>>)
  BY <1>4, <1>2
<1> HIDE DEF first
<1>7. QED
  BY <1>3, <1>5, <1>6 DEF first
-----------------------------------------------------------------------------
(* A release of a state is one of all that writes to it too.               *)
StateWithWriters ==
  \A flagged \in Releases : \A m \in ToSet(Market) :
    <<m, State>> \in flagged => \A part \in Mutating : <<m, part>> \in flagged

(* How often each contract was deployed, and that they are all there.      *)
Numbers(tg, m, part) == 1..tg[<<m, part>>]
Made(tg, parts) == UNION {{<<n[1], n[2], nr>> : nr \in Numbers(tg, n[1], n[2])} : n \in ToSet(Market) \X parts}
Counted ==
  /\ history.releases \in Nat /\ history.releases <= MaxReleases /\ config \subseteq Name
  /\ targets \in [Name -> Nat]
  /\ \A n \in Name : targets[n] + (IF n \in config THEN 1 ELSE 0) <= history.releases + 1
Placed ==
  /\ DOMAIN chain.routes = Made(targets, {Proxy})
  /\ DOMAIN chain.state = Made(targets, {State})
  /\ DOMAIN chain.impl = Made(targets, Kind)
OneAfterAnother ==
  \A m \in ToSet(Market) :
    /\ Deployed(targets, m, State) => Deployed(targets, m, Proxy)
    /\ \A part \in Kind : Deployed(targets, m, part) => Deployed(targets, m, State)

(* What is built belongs together; the last implementations are built on   *)
(* the last state, unless they are still to be deployed.                   *)
Built(ch) ==
  /\ \A s \in DOMAIN ch.state :
       /\ DOMAIN ch.state[s] = {"legacy", "initialized", "associated"}
       /\ ch.state[s].legacy # none => ch.state[s].legacy \in DOMAIN ch.state /\ ch.state[s].legacy[1] = s[1]
  /\ \A i \in DOMAIN ch.impl :
       /\ DOMAIN ch.impl[i] = {"state", "proxy", "manager"}
       /\ ch.impl[i].state \in DOMAIN ch.state /\ ch.impl[i].proxy \in DOMAIN ch.routes
OnLastState ==
  \A m \in ToSet(Market) : \A part \in Mutating :
    /\ <<m, State>> \in config => <<m, part>> \in config
    /\ Deployed(targets, m, part) /\ <<m, part>> \notin config
         => chain.impl[At(targets, m, part)].state = At(targets, m, State)
Routed(ch, p) ==
  /\ IsFiniteSet(ch.routes[p])
  /\ \A r \in ch.routes[p] : r.to \in DOMAIN ch.impl /\ r.to[1] = p[1]
  /\ \A r, q \in ch.routes[p] : r.selector = q.selector => r = q

(* All that a proxy leads to is on one state of its market.                *)
Consistent(ch, p) ==
  \E s \in DOMAIN ch.state :
    /\ s[1] = p[1] /\ ch.state[s].initialized
    /\ \A r \in ch.routes[p] : r.to[2] \in Mutating =>
         /\ ch.impl[r.to].state = s /\ r.to \in ch.state[s].associated
         /\ ch.impl[r.to].proxy = p

(* How far the market at hand is linked.                                   *)
Initialized == {"linkToState", "legacy", "linkToPerpsExchangeRate", "setProxy", "removeRoutes", "addRoutes"}
Associated == {"linkToPerpsExchangeRate", "setProxy", "removeRoutes", "addRoutes"}
Linking == {"pauseMarket", "initialize"} \cup Initialized
HowFar ==
  /\ proc.step \in Linking => \A part \in Parts : ~NeedsDeploy(<<market, part>>)
  /\ proc.step \in Initialized => state.initialized
  /\ proc.step = "legacy" => state.legacy # none
  /\ proc.step \in Associated => state.associated = MutatingAt(targets, market)
  /\ proc.step \in {"removeRoutes", "addRoutes"} =>
       \A i \in MutatingAt(targets, market) : chain.impl[i].proxy = Here(Proxy)
  /\ proc.step = "addRoutes" => \A r \in routes : r.selector \in Selectors(Wanted(targets, market))
  /\ proc.step \in {"linkToMarketManager"} \cup Linked =>
       Deployed(targets, market, Proxy) /\ Consistent(chain, Here(Proxy))
  /\ proc.step \in Linked => Here(Proxy) \in DOMAIN known

(* What the manager knows, or is about to import: one proxy of each key.   *)
Single(proxies) ==
  /\ proxies \subseteq DOMAIN chain.routes
  /\ \A p, q \in proxies : p[1] = q[1] => p = q
Sound(proxies) ==
  \A p \in proxies : p[1] \in history.opened /\ suspended[p[1]] = "no" => Consistent(chain, p)
KnownOK == Single(DOMAIN known) /\ Sound(DOMAIN known)
ImportOK == proc.step = "import" => DOMAIN known = {} /\ Single(proc.before) /\ Sound(proc.before)

(* What a run of all markets has done, and what a complete release is.     *)
DoneOK ==
  /\ proc.step # "off" /\ proc.all =>
       /\ proc.todo \subseteq ToSet(Market)
       /\ \A m \in ToSet(Market) \ proc.todo :
            Deployed(targets, m, Proxy) /\ Consistent(chain, At(targets, m, Proxy))
  /\ proc.step \in {"revoke", "cleanup", "cleanupRates", "cleanupMarkets", "finish"} => proc.todo = {}
CompleteOK ==
  history.complete => proc.step = "off" /\ config = {} /\ \A p \in DOMAIN known : Consistent(chain, p)

Contracted ==
  /\ Counted /\ Placed /\ OneAfterAnother /\ Built(chain) /\ OnLastState
  /\ \A p \in DOMAIN chain.routes : Routed(chain, p)
Statuses == suspended \in [Key -> {"no", "tool", "guardian"}]
MInv == RInv /\ Statuses /\ Contracted /\ HowFar /\ KnownOK /\ ImportOK /\ DoneOK /\ CompleteOK

-----------------------------------------------------------------------------
(* What was deployed.                                                      *)
LEMMA MadeIs ==
  ASSUME NEW tg, NEW parts, NEW c
  PROVE  c \in Made(tg, parts) <=>
           \E m \in ToSet(Market) : \E part \in parts : \E nr \in Numbers(tg, m, part) : c = <<m, part, nr>>
<1>1. c \in Made(tg, parts) <=>
        \E n \in ToSet(Market) \X parts : \E nr \in Numbers(tg, n[1], n[2]) : c = <<n[1], n[2], nr>>
  BY DEF Made
<1>2. ASSUME NEW m \in ToSet(Market), NEW part \in parts, NEW nr \in Numbers(tg, m, part), c = <<m, part, nr>>
      PROVE  \E n \in ToSet(Market) \X parts : \E k \in Numbers(tg, n[1], n[2]) : c = <<n[1], n[2], k>>
  <2>1. PICK n \in ToSet(Market) \X parts : n = <<m, part>>
    OBVIOUS
  <2>2. n[1] = m /\ n[2] = part
    BY <2>1
  <2>3. QED
    BY <2>2, <1>2
<1>3. QED
  BY <1>1, <1>2

LEMMA MadeAt ==
  ASSUME NEW tg \in [Name -> Nat], NEW parts \in SUBSET Parts, NEW m \in ToSet(Market), NEW part \in parts
  PROVE  /\ At(tg, m, part) \in Made(tg, parts) <=> Deployed(tg, m, part)
         /\ tg[<<m, part>>] \in Nat
         /\ <<m, part, tg[<<m, part>>] + 1>> \notin Made(tg, parts)
<1>1. tg[<<m, part>>] \in Nat
  BY Names
<1>2. PICK nr \in Nat : nr = tg[<<m, part>>]
  BY <1>1
<1>3. \A k : k \in Numbers(tg, m, part) <=> k \in Nat /\ k # 0 /\ k <= nr
  BY <1>2 DEF Numbers
<1>4. \A k : <<m, part, k>> \in Made(tg, parts) <=> k \in Numbers(tg, m, part)
  BY MadeIs
<1>5. nr + 1 \notin Numbers(tg, m, part) /\ (nr \in Numbers(tg, m, part) <=> nr # 0)
  BY <1>3
<1>6. QED
  BY <1>2, <1>4, <1>5 DEF Deployed, At

LEMMA MadeSame ==
  ASSUME NEW tg, NEW tg2, NEW parts, \A m \in ToSet(Market) : \A part \in parts : tg2[<<m, part>>] = tg[<<m, part>>]
  PROVE  Made(tg2, parts) = Made(tg, parts)
<1>1. \A m \in ToSet(Market) : \A part \in parts : Numbers(tg2, m, part) = Numbers(tg, m, part)
  BY DEF Numbers
<1>2. \A c : c \in Made(tg2, parts) <=> c \in Made(tg, parts)
  BY <1>1, MadeIs
<1>3. QED
  BY <1>2

(* One more deployment of one contract.                                    *)
OneMore(tg, tg2, m, part) ==
  /\ tg2[<<m, part>>] = tg[<<m, part>>] + 1
  /\ \A k \in ToSet(Market), p \in Parts : <<k, p>> # <<m, part>> => tg2[<<k, p>>] = tg[<<k, p>>]

LEMMA MadeMore ==
  ASSUME NEW tg \in [Name -> Nat], NEW parts \in SUBSET Parts, NEW m \in ToSet(Market), NEW part \in parts,
         NEW tg2, OneMore(tg, tg2, m, part)
  PROVE  Made(tg2, parts) = Made(tg, parts) \cup {<<m, part, tg[<<m, part>>] + 1>>}
<1>1. PICK nr \in Nat : nr = tg[<<m, part>>]
  BY Names
<1>2. Numbers(tg2, m, part) = Numbers(tg, m, part) \cup {nr + 1}
  BY <1>1 DEF Numbers, OneMore
<1>3. \A k \in ToSet(Market), p \in parts : k # m \/ p # part => Numbers(tg2, k, p) = Numbers(tg, k, p)
  BY DEF Numbers, OneMore
<1>4. ASSUME NEW c
      PROVE  c \in Made(tg2, parts) <=> c \in Made(tg, parts) \/ c = <<m, part, nr + 1>>
  <2>1. ASSUME c \in Made(tg2, parts) PROVE c \in Made(tg, parts) \/ c = <<m, part, nr + 1>>
    <3>1. PICK k \in ToSet(Market), p \in parts : \E j \in Numbers(tg2, k, p) : c = <<k, p, j>>
      BY <2>1, MadeIs
    <3>2. QED
      BY <3>1, <1>2, <1>3, MadeIs
  <2>2. ASSUME c \in Made(tg, parts) PROVE c \in Made(tg2, parts)
    <3>1. PICK k \in ToSet(Market), p \in parts : \E j \in Numbers(tg, k, p) : c = <<k, p, j>>
      BY <2>2, MadeIs
    <3>2. QED
      BY <3>1, <1>2, <1>3, MadeIs
  <2>3. <<m, part, nr + 1>> \in Made(tg2, parts)
    BY <1>2, MadeIs
  <2>4. QED
    BY <2>1, <2>2, <2>3
<1>5. QED
  BY <1>1, <1>4

(* A proxy stays on one state where the contracts of its market are left   *)
(* as they are.                                                            *)
Agree(ch, ch2, m) ==
  /\ \A p \in DOMAIN ch.routes : p[1] = m => ch2.routes[p] = ch.routes[p]
  /\ \A s \in DOMAIN ch.state : s[1] = m =>
       /\ s \in DOMAIN ch2.state /\ ch2.state[s].initialized = ch.state[s].initialized
       /\ ch2.state[s].associated = ch.state[s].associated
  /\ \A i \in DOMAIN ch.impl : i[1] = m =>
       ch2.impl[i].state = ch.impl[i].state /\ ch2.impl[i].proxy = ch.impl[i].proxy

LEMMA ConsistentKept ==
  ASSUME NEW ch, NEW ch2, NEW p \in DOMAIN ch.routes, Routed(ch, p), Agree(ch, ch2, p[1]), Consistent(ch, p)
  PROVE  Consistent(ch2, p)
<1>1. PICK s \in DOMAIN ch.state :
        /\ s[1] = p[1] /\ ch.state[s].initialized
        /\ \A r \in ch.routes[p] : r.to[2] \in Mutating =>
             /\ ch.impl[r.to].state = s /\ r.to \in ch.state[s].associated
             /\ ch.impl[r.to].proxy = p
  BY DEF Consistent
<1>2. s \in DOMAIN ch2.state /\ ch2.state[s].initialized /\ ch2.state[s].associated = ch.state[s].associated
  BY <1>1 DEF Agree
<1>3. ch2.routes[p] = ch.routes[p]
  BY DEF Agree
<1>4. ASSUME NEW r \in ch.routes[p]
      PROVE  ch2.impl[r.to].state = ch.impl[r.to].state /\ ch2.impl[r.to].proxy = ch.impl[r.to].proxy
  BY <1>4 DEF Routed, Agree
<1>5. QED
  BY <1>1, <1>2, <1>3, <1>4 DEF Consistent

(* What the manager knows stays sound where nothing is opened.             *)
LEMMA KnownKept ==
  ASSUME Contracted, KnownOK, DOMAIN known' \subseteq DOMAIN known,
         DOMAIN chain.routes \subseteq DOMAIN chain'.routes,
         \A p \in DOMAIN known : p[1] \in history'.opened /\ suspended'[p[1]] = "no" =>
           p[1] \in history.opened /\ suspended[p[1]] = "no" /\ Agree(chain, chain', p[1])
  PROVE  KnownOK'
<1>1. Single(DOMAIN known)'
  BY DEF KnownOK, Single
<1>2. ASSUME NEW p \in DOMAIN known', p[1] \in history'.opened, suspended'[p[1]] = "no"
      PROVE  Consistent(chain', p)
  <2>1. p \in DOMAIN known /\ p \in DOMAIN chain.routes
    BY DEF KnownOK, Single
  <2>2. Agree(chain, chain', p[1]) /\ Consistent(chain, p) /\ Routed(chain, p)
    BY <1>2, <2>1 DEF KnownOK, Sound, Contracted
  <2>3. QED
    BY <2>1, <2>2, ConsistentKept
<1>3. Sound(DOMAIN known)'
  BY <1>2 DEF Sound
<1>4. QED
  BY <1>1, <1>3 DEF KnownOK

(* The markets that a run of all has done stay as they are.                *)
LEMMA DoneKept ==
  ASSUME Contracted, DoneOK, proc.step # "off", proc'.todo = proc.todo, proc'.all = proc.all,
         \A m \in ToSet(Market) \ proc.todo :
           Agree(chain, chain', m) /\ targets'[<<m, Proxy>>] = targets[<<m, Proxy>>],
         proc'.step \in {"revoke", "cleanup", "cleanupRates", "cleanupMarkets", "finish"} => proc.todo = {}
  PROVE  DoneOK'
<1>1. ASSUME proc.all, NEW m \in ToSet(Market) \ proc.todo
      PROVE  Deployed(targets', m, Proxy) /\ Consistent(chain', At(targets', m, Proxy))
  <2>1. PICK p : p = At(targets, m, Proxy)
    OBVIOUS
  <2>2. Deployed(targets, m, Proxy) /\ Consistent(chain, p)
    BY <1>1, <2>1 DEF DoneOK
  <2>3. Deployed(targets', m, Proxy) /\ At(targets', m, Proxy) = p /\ p[1] = m
    BY <2>1, <2>2 DEF Deployed, At
  <2>4. p \in DOMAIN chain.routes
    BY <2>1, <2>2, MadeAt DEF Contracted, Placed, Counted, Parts
  <2>5. Consistent(chain', p)
    BY <2>2, <2>3, <2>4, ConsistentKept DEF Contracted
  <2>6. QED
    BY <2>3, <2>5
<1>2. QED
  BY <1>1 DEF DoneOK

(* Where no contract is deployed or changed.                               *)
SameContracts == chain'.routes = chain.routes /\ chain'.state = chain.state /\ chain'.impl = chain.impl

LEMMA SameAgrees ==
  ASSUME SameContracts
  PROVE  \A m : Agree(chain, chain', m)
BY DEF SameContracts, Agree

LEMMA SameContracted ==
  ASSUME Contracted, SameContracts, UNCHANGED <<config, targets>>, history'.releases = history.releases
  PROVE  Contracted'
<1>1. Counted' /\ Placed' /\ OneAfterAnother' /\ OnLastState'
  BY DEF SameContracts, Contracted, Counted, Placed, OneAfterAnother, OnLastState
<1>2. Built(chain')
  BY DEF SameContracts, Contracted, Built
<1>3. \A p \in DOMAIN chain'.routes : Routed(chain', p)
  BY DEF SameContracts, Contracted, Routed
<1>4. QED
  BY <1>1, <1>2, <1>3 DEF Contracted

LEMMA SameConsistent ==
  ASSUME SameContracts, NEW p
  PROVE  Consistent(chain', p) <=> Consistent(chain, p)
BY DEF SameContracts, Consistent

(* While a run goes on no release is complete.                             *)
LEMMA RunningIsIncomplete ==
  ASSUME CompleteOK, proc.step # "off", history'.complete = history.complete
  PROVE  CompleteOK'
BY DEF CompleteOK

-----------------------------------------------------------------------------
(* The contracts of the market at hand, once they are deployed.            *)
LEMMA AllDeployed ==
  ASSUME Contracted, NEW m \in ToSet(Market), NEW part \in Parts, ~NeedsDeploy(<<m, part>>)
  PROVE  /\ Deployed(targets, m, part) /\ <<m, part>> \notin config
         /\ part = Proxy => At(targets, m, part) \in DOMAIN chain.routes
         /\ part = State => At(targets, m, part) \in DOMAIN chain.state
         /\ part \in Kind => At(targets, m, part) \in DOMAIN chain.impl
<1>1. Deployed(targets, m, part) /\ <<m, part>> \notin config
  BY DEF NeedsDeploy, Deployed
<1>2. targets \in [Name -> Nat]
  BY DEF Contracted, Counted
<1>3. {Proxy} \in SUBSET Parts /\ {State} \in SUBSET Parts /\ Kind \in SUBSET Parts
  BY DEF Parts
<1>4. CASE part = Proxy
  <2>1. At(targets, m, part) \in Made(targets, {Proxy})
    BY <1>1, <1>2, <1>3, <1>4, MadeAt
  <2>2. QED
    BY <1>1, <1>4, <2>1, KindApart DEF Contracted, Placed, Proxy, State
<1>5. CASE part = State
  <2>1. At(targets, m, part) \in Made(targets, {State})
    BY <1>1, <1>2, <1>3, <1>5, MadeAt
  <2>2. QED
    BY <1>1, <1>5, <2>1, KindApart DEF Contracted, Placed, Proxy, State
<1>6. CASE part \in Kind
  <2>1. At(targets, m, part) \in Made(targets, Kind)
    BY <1>1, <1>2, <1>3, <1>6, MadeAt
  <2>2. QED
    BY <1>1, <1>6, <2>1, KindApart DEF Contracted, Placed
<1>7. QED
  BY <1>4, <1>5, <1>6 DEF Parts

(* Where no contract is deployed, and those that there are stay what they  *)
(* are built on.                                                           *)
LEMMA LinkedContracted ==
  ASSUME Contracted, UNCHANGED <<config, targets>>, history'.releases = history.releases,
         DOMAIN chain'.routes = DOMAIN chain.routes, DOMAIN chain'.state = DOMAIN chain.state,
         DOMAIN chain'.impl = DOMAIN chain.impl, Built(chain'),
         \A i \in DOMAIN chain.impl : chain'.impl[i].state = chain.impl[i].state,
         \A p \in DOMAIN chain.routes : Routed(chain', p)
  PROVE  Contracted'
<1>1. Counted' /\ Placed' /\ OneAfterAnother'
  BY DEF Contracted, Counted, Placed, OneAfterAnother
<1>2. ASSUME NEW m \in ToSet(Market), NEW part \in Mutating, Deployed(targets, m, part), <<m, part>> \notin config
      PROVE  chain'.impl[At(targets, m, part)].state = At(targets, m, State)
  <2>1. PICK i : i = At(targets, m, part)
    OBVIOUS
  <2>2. part \in Kind /\ Kind \in SUBSET Parts /\ targets \in [Name -> Nat]
    BY KindApart DEF Parts, Contracted, Counted
  <2>3. i \in Made(targets, Kind)
    BY <1>2, <2>1, <2>2, MadeAt
  <2>4. i \in DOMAIN chain.impl
    BY <2>3 DEF Contracted, Placed
  <2>5. chain.impl[i].state = At(targets, m, State)
    BY <1>2, <2>1 DEF Contracted, OnLastState
  <2>6. QED
    BY <2>1, <2>4, <2>5
<1>3. OnLastState'
  BY <1>2 DEF Contracted, OnLastState, Deployed, At
<1>4. QED
  BY <1>1, <1>3 DEF Contracted

(* A state changes what may write to it, or becomes initialized.           *)
LEMMA StateStep ==
  ASSUME ChainOK, Contracted, UNCHANGED <<config, targets>>, history'.releases = history.releases,
         NEW s \in DOMAIN chain.state, NEW v, NEW field \in {"initialized", "associated"},
         chain' = [chain EXCEPT !.state = [chain.state EXCEPT ![s] = [chain.state[s] EXCEPT ![field] = v]]]
  PROVE  /\ Contracted' /\ chain'.routes = chain.routes /\ chain'.impl = chain.impl
         /\ DOMAIN chain'.state = DOMAIN chain.state
         /\ \A t \in DOMAIN chain.state : t # s => chain'.state[t] = chain.state[t]
         /\ chain'.state[s].legacy = chain.state[s].legacy
         /\ chain'.state[s].initialized = IF field = "initialized" THEN v ELSE chain.state[s].initialized
         /\ chain'.state[s].associated = IF field = "associated" THEN v ELSE chain.state[s].associated
         /\ \A m : m # s[1] => Agree(chain, chain', m)
<1> DEFINE now == [chain.state[s] EXCEPT ![field] = v]
<1>1. DOMAIN chain.state[s] = {"legacy", "initialized", "associated"}
  BY DEF Contracted, Built
<1>2. /\ DOMAIN now = {"legacy", "initialized", "associated"} /\ now.legacy = chain.state[s].legacy
      /\ now.initialized = IF field = "initialized" THEN v ELSE chain.state[s].initialized
      /\ now.associated = IF field = "associated" THEN v ELSE chain.state[s].associated
  BY <1>1
<1>3. chain' = [chain EXCEPT !.state = [chain.state EXCEPT ![s] = now]]
  OBVIOUS
<1> HIDE DEF now
<1>4. PICK states : states = [chain.state EXCEPT ![s] = now]
  OBVIOUS
<1>5. chain'.state = states /\ chain'.routes = chain.routes /\ chain'.impl = chain.impl
  BY <1>3, <1>4 DEF ChainOK
<1>6. DOMAIN states = DOMAIN chain.state /\ states[s] = now
      /\ \A t \in DOMAIN chain.state : t # s => states[t] = chain.state[t]
  BY <1>4
<1>7. Built(chain')
  <2>1. \A t \in DOMAIN states : DOMAIN states[t] = {"legacy", "initialized", "associated"}
                                 /\ states[t].legacy = chain.state[t].legacy
    BY <1>2, <1>6 DEF Contracted, Built
  <2>2. QED
    BY <1>5, <1>6, <2>1 DEF Contracted, Built
<1>8. \A p \in DOMAIN chain.routes : Routed(chain', p)
  BY <1>5 DEF Contracted, Routed
<1>9. Contracted'
  BY <1>5, <1>6, <1>7, <1>8, LinkedContracted
<1>10. ASSUME NEW m, m # s[1] PROVE Agree(chain, chain', m)
  BY <1>5, <1>6, <1>10 DEF Agree
<1>11. QED
  BY <1>2, <1>5, <1>6, <1>9, <1>10

(* An implementation gets the proxy of its market.                         *)
LEMMA ProxyStep ==
  ASSUME ChainOK, Contracted, UNCHANGED <<config, targets>>, history'.releases = history.releases,
         NEW i \in DOMAIN chain.impl, NEW p \in DOMAIN chain.routes,
         chain' = [chain EXCEPT !.impl = [chain.impl EXCEPT ![i] = [chain.impl[i] EXCEPT !.proxy = p]]]
  PROVE  /\ Contracted' /\ chain'.routes = chain.routes /\ chain'.state = chain.state
         /\ \A m : m # i[1] => Agree(chain, chain', m)
<1> DEFINE now == [chain.impl[i] EXCEPT !.proxy = p]
<1>1. DOMAIN chain.impl[i] = {"state", "proxy", "manager"}
  BY DEF Contracted, Built
<1>2. DOMAIN now = {"state", "proxy", "manager"} /\ now.state = chain.impl[i].state /\ now.proxy = p
  BY <1>1
<1>3. chain' = [chain EXCEPT !.impl = [chain.impl EXCEPT ![i] = now]]
  OBVIOUS
<1> HIDE DEF now
<1>4. PICK impls : impls = [chain.impl EXCEPT ![i] = now]
  OBVIOUS
<1>5. chain'.impl = impls /\ chain'.routes = chain.routes /\ chain'.state = chain.state
  BY <1>3, <1>4 DEF ChainOK
<1>6. DOMAIN impls = DOMAIN chain.impl /\ impls[i] = now
      /\ \A t \in DOMAIN chain.impl : t # i => impls[t] = chain.impl[t]
  BY <1>4
<1>7. Built(chain')
  BY <1>2, <1>5, <1>6 DEF Contracted, Built
<1>8. \A q \in DOMAIN chain.routes : Routed(chain', q)
  BY <1>5, <1>6 DEF Contracted, Routed
<1>9. \A t \in DOMAIN chain.impl : chain'.impl[t].state = chain.impl[t].state
  BY <1>2, <1>5, <1>6
<1>10. Contracted'
  BY <1>5, <1>6, <1>7, <1>8, <1>9, LinkedContracted
<1>11. ASSUME NEW m, m # i[1] PROVE Agree(chain, chain', m)
  BY <1>5, <1>6, <1>11 DEF Agree
<1>12. QED
  BY <1>5, <1>10, <1>11

(* A proxy gets other routes.                                              *)
LEMMA RouteStep ==
  ASSUME ChainOK, Contracted, UNCHANGED <<config, targets>>, history'.releases = history.releases,
         NEW p \in DOMAIN chain.routes, NEW rs, IsFiniteSet(rs),
         \A r \in rs : r.to \in DOMAIN chain.impl /\ r.to[1] = p[1],
         \A r, q \in rs : r.selector = q.selector => r = q,
         chain' = [chain EXCEPT !.routes = [chain.routes EXCEPT ![p] = rs]]
  PROVE  /\ Contracted' /\ chain'.state = chain.state /\ chain'.impl = chain.impl
         /\ DOMAIN chain'.routes = DOMAIN chain.routes /\ chain'.routes[p] = rs
         /\ \A m : m # p[1] => Agree(chain, chain', m)
<1>4. PICK routed : routed = [chain.routes EXCEPT ![p] = rs]
  OBVIOUS
<1>5. chain'.routes = routed /\ chain'.impl = chain.impl /\ chain'.state = chain.state
  BY <1>4 DEF ChainOK
<1>6. DOMAIN routed = DOMAIN chain.routes /\ routed[p] = rs
      /\ \A t \in DOMAIN chain.routes : t # p => routed[t] = chain.routes[t]
  BY <1>4
<1>7. Built(chain')
  BY <1>5, <1>6 DEF Contracted, Built
<1>8. \A q \in DOMAIN chain.routes : Routed(chain', q)
  <2>1. ASSUME NEW q \in DOMAIN chain.routes, q # p PROVE Routed(chain', q)
    BY <1>5, <1>6, <2>1 DEF Contracted, Routed
  <2>2. Routed(chain', p)
    BY <1>5, <1>6 DEF Routed
  <2>3. QED
    BY <2>1, <2>2
<1>9. Contracted'
  BY <1>5, <1>6, <1>7, <1>8, LinkedContracted
<1>10. ASSUME NEW m, m # p[1] PROVE Agree(chain, chain', m)
  BY <1>5, <1>6, <1>10 DEF Agree
<1>11. QED
  BY <1>5, <1>6, <1>9, <1>10

-----------------------------------------------------------------------------
(* The contracts of the market that is linked are all there.               *)
LEMMA HereDeployed ==
  ASSUME TodoOK, Contracted, HowFar, proc.step \in Linking
  PROVE  /\ market \in ToSet(Market) /\ market \in proc.todo /\ proc.step \in OnMarket
         /\ Here(Proxy) \in DOMAIN chain.routes /\ Here(State) \in DOMAIN chain.state
         /\ \A part \in Kind : Here(part) \in DOMAIN chain.impl
         /\ \A part \in Parts : Deployed(targets, market, part) /\ <<market, part>> \notin config
         /\ \A part \in Parts : Here(part)[1] = market /\ Here(part)[2] = part
<1>1. proc.step \in OnMarket
  BY DEF Linking, Initialized, OnMarket, Upgrading
<1>2. market \in ToSet(Market) /\ market \in proc.todo
  BY <1>1, MarketIsKnown
<1>3. \A part \in Parts : ~NeedsDeploy(<<market, part>>)
  BY DEF HowFar
<1>4. Proxy \in Parts /\ State \in Parts /\ Kind \subseteq Parts
  BY DEF Parts
<1>5. PICK m \in ToSet(Market) : m = market
  BY <1>2
<1>6. \A part \in Parts : ~NeedsDeploy(<<m, part>>)
  BY <1>3, <1>5
<1>7. \A part \in Parts :
         /\ Deployed(targets, m, part) /\ <<m, part>> \notin config
         /\ part = Proxy => At(targets, m, part) \in DOMAIN chain.routes
         /\ part = State => At(targets, m, part) \in DOMAIN chain.state
         /\ part \in Kind => At(targets, m, part) \in DOMAIN chain.impl
  BY <1>6, AllDeployed
<1>8. \A part \in Parts : At(targets, m, part)[1] = m /\ At(targets, m, part)[2] = part
  BY DEF At
<1>9. QED
  BY <1>1, <1>2, <1>4, <1>5, <1>7, <1>8 DEF Here

(* How far a market that is being linked is after a step.                  *)
LEMMA HowFarThen ==
  ASSUME market' = market, UNCHANGED <<config, targets>>, HowFar, proc.step \in Linking, proc'.step \in Initialized,
         chain'.state[Here(State)].initialized,
         proc'.step = "legacy" => chain'.state[Here(State)].legacy # none,
         proc'.step \in Associated => chain'.state[Here(State)].associated = MutatingAt(targets, market),
         proc'.step \in {"removeRoutes", "addRoutes"} =>
           \A i \in MutatingAt(targets, market) : chain'.impl[i].proxy = Here(Proxy),
         proc'.step = "addRoutes" =>
           \A r \in chain'.routes[Here(Proxy)] : r.selector \in Selectors(Wanted(targets, market))
  PROVE  HowFar'
<1>1. proc'.step \notin {"linkToMarketManager"} \cup Linked
  BY DEF Initialized, Linked
<1>2. (\A part \in Parts : ~NeedsDeploy(<<market, part>>))'
  BY DEF HowFar, NeedsDeploy
<1>3. state' = chain'.state[Here(State)]
  BY DEF state, Here
<1>4. Here(Proxy)' = Here(Proxy) /\ routes' = chain'.routes[Here(Proxy)]
  BY DEF routes, Here
<1>5. (\A i \in MutatingAt(targets, market) : chain.impl[i].proxy = Here(Proxy))'
        <=> \A i \in MutatingAt(targets, market) : chain'.impl[i].proxy = Here(Proxy)
  BY <1>4
<1>6. QED
  BY <1>1, <1>2, <1>3, <1>4, <1>5 DEF HowFar

(* A step that links a market keeps to its contracts, and goes on.         *)
KeepsTo(m) ==
  /\ Contracted' /\ DOMAIN chain.routes \subseteq DOMAIN chain'.routes
  /\ \A k : k # m => Agree(chain, chain', k)

LEMMA GoesOn ==
  ASSUME IInv, proc.step \in Linking, proc' = proc \/ \E s : proc' = [proc EXCEPT !.step = s]
  PROVE  market' = market
<1>1. CASE proc' = proc
  BY <1>1 DEF market
<1>2. CASE \E s : proc' = [proc EXCEPT !.step = s]
  BY <1>2, GotoKeeps DEF IInv, Linking, Initialized
<1>3. QED
  BY <1>1, <1>2

LEMMA InitializeLinks == MInv /\ linkOrInitializeState => KeepsTo(market) /\ HowFar'
<1> SUFFICES ASSUME MInv, linkOrInitializeState PROVE KeepsTo(market) /\ HowFar'
  OBVIOUS
<1>0. IInv /\ TodoOK /\ ChainOK /\ Contracted /\ HowFar /\ proc.step = "initialize" /\ proc.step \in Linking
  BY DEF MInv, RInv, IInv, linkOrInitializeState, Working, Linking
<1>1. PICK s \in DOMAIN chain.state : s = Here(State) /\ s[1] = market
  BY <1>0, HereDeployed DEF Parts
<1>2. PICK to \in {"legacy", "linkToState"} :
        proc' = [proc EXCEPT !.step = to] /\ (to = "legacy" => state.legacy # none)
  BY DEF linkOrInitializeState, Goto
<1>3. proc'.step = to /\ market' = market
  BY <1>0, <1>2, GoesOn DEF IInv, ProcOK, Fields
<1>4. state = chain.state[s]
  BY <1>1 DEF state
<1>5. UNCHANGED <<config, targets>> /\ history'.releases = history.releases
  BY DEF linkOrInitializeState
<1>6. KeepsTo(market) /\ chain'.state[s].initialized /\ chain'.state[s].legacy = chain.state[s].legacy
  <2>1. CASE chain.state[s].initialized
    <3>1. chain' = chain
      BY <2>1, <1>4 DEF linkOrInitializeState
    <3>2. SameContracts
      BY <3>1 DEF SameContracts
    <3>3. QED
      BY <1>0, <1>5, <2>1, <3>1, <3>2, SameAgrees, SameContracted DEF KeepsTo
  <2>2. CASE ~chain.state[s].initialized
    <3>1. chain' = [chain EXCEPT !.state = [chain.state EXCEPT ![s] = [chain.state[s] EXCEPT !["initialized"] = TRUE]]]
      BY <2>2, <1>1, <1>4 DEF linkOrInitializeState
    <3>2. PICK field \in {"initialized", "associated"}, v \in {TRUE} : field = "initialized" /\ v = TRUE
      OBVIOUS
    <3>3. chain' = [chain EXCEPT !.state = [chain.state EXCEPT ![s] = [chain.state[s] EXCEPT ![field] = v]]]
      BY <3>1, <3>2
    <3>4. ChainOK /\ Contracted /\ UNCHANGED <<config, targets>> /\ history'.releases = history.releases
      BY <1>0, <1>5
    <3>5. /\ Contracted' /\ chain'.routes = chain.routes /\ \A m : m # s[1] => Agree(chain, chain', m)
          /\ chain'.state[s].initialized = IF field = "initialized" THEN v ELSE chain.state[s].initialized
          /\ chain'.state[s].legacy = chain.state[s].legacy
      BY <3>3, <3>4, StateStep
    <3>6. chain'.state[s].initialized
      BY <3>2, <3>5
    <3>7. QED
      BY <1>0, <1>1, <1>5, <3>5, <3>6 DEF KeepsTo
  <2>3. QED
    BY <2>1, <2>2
<1>7. HowFar'
  <2>1. proc'.step \in Initialized /\ proc'.step \notin Associated \cup {"removeRoutes", "addRoutes"}
    BY <1>3 DEF Initialized, Associated
  <2>2. proc'.step = "legacy" => chain'.state[Here(State)].legacy # none
    BY <1>1, <1>2, <1>3, <1>4, <1>6
  <2>3. chain'.state[Here(State)].initialized
    BY <1>1, <1>6
  <2>4. QED
    BY <1>0, <1>3, <1>5, <2>1, <2>2, <2>3, HowFarThen
<1>8. QED
  BY <1>6, <1>7

LEMMA EnableLinks == MInv /\ enableInLegacy => KeepsTo(market) /\ HowFar'
<1> SUFFICES ASSUME MInv, enableInLegacy PROVE KeepsTo(market) /\ HowFar'
  OBVIOUS
<1>0. IInv /\ TodoOK /\ ChainOK /\ Contracted /\ HowFar /\ proc.step = "legacy" /\ proc.step \in Linking
  BY DEF MInv, RInv, IInv, enableInLegacy, Working, Linking, Initialized
<1>1. PICK s \in DOMAIN chain.state : s = Here(State) /\ s[1] = market
  BY <1>0, HereDeployed DEF Parts
<1>2. state = chain.state[s] /\ state.initialized /\ state.legacy # none
  BY <1>0, <1>1 DEF state, HowFar, Initialized
<1>3. PICK t \in DOMAIN chain.state : t = state.legacy /\ t[1] = market
  BY <1>0, <1>1, <1>2 DEF Contracted, Built
<1>4. proc'.step = "linkToState" /\ market' = market
  BY <1>0, GoesOn DEF enableInLegacy, Goto, IInv, ProcOK, Fields
<1>5. UNCHANGED <<config, targets>> /\ history'.releases = history.releases
  BY DEF enableInLegacy
<1>6. PICK v : v = chain.state[t].associated \cup {Here(State)}
  OBVIOUS
<1>7. chain' = [chain EXCEPT !.state = [chain.state EXCEPT ![t] = [chain.state[t] EXCEPT !["associated"] = v]]]
  BY <1>3, <1>6 DEF enableInLegacy
<1>8. KeepsTo(market) /\ chain'.state[s].initialized
  <2>1. /\ Contracted' /\ chain'.routes = chain.routes /\ \A m : m # t[1] => Agree(chain, chain', m)
        /\ chain'.state[t].initialized = chain.state[t].initialized
    <3>1. t \in DOMAIN chain.state /\ ChainOK /\ Contracted
      BY <1>0, <1>3
    <3>2. PICK field \in {"initialized", "associated"} : field = "associated"
      OBVIOUS
    <3>3. UNCHANGED <<config, targets>> /\ history'.releases = history.releases
      BY <1>5
    <3>4. chain' = [chain EXCEPT !.state = [chain.state EXCEPT ![t] = [chain.state[t] EXCEPT ![field] = v]]]
      BY <1>7, <3>2
    <3>5. /\ Contracted' /\ chain'.routes = chain.routes /\ \A m : m # t[1] => Agree(chain, chain', m)
          /\ chain'.state[t].initialized = IF field = "initialized" THEN v ELSE chain.state[t].initialized
      BY <3>1, <3>3, <3>4, StateStep
    <3>6. QED
      BY <3>2, <3>5
  <2>2. \A u \in DOMAIN chain.state : u # t => chain'.state[u] = chain.state[u]
    <3>1. chain'.state = [chain.state EXCEPT ![t] = [chain.state[t] EXCEPT !["associated"] = v]]
      BY <1>0, <1>7 DEF ChainOK
    <3>2. QED
      BY <3>1
  <2>3. QED
    BY <1>1, <1>2, <1>3, <2>1, <2>2 DEF KeepsTo
<1>9. HowFar'
  <2>1. proc'.step \in Initialized /\ proc'.step \notin Associated \cup {"legacy", "removeRoutes", "addRoutes"}
    BY <1>4 DEF Initialized, Associated
  <2>2. chain'.state[Here(State)].initialized
    BY <1>1, <1>8
  <2>3. QED
    BY <1>0, <1>4, <1>5, <2>1, <2>2, HowFarThen
<1>10. QED
  BY <1>8, <1>9

LEMMA StateLinks == MInv /\ linkToState => KeepsTo(market) /\ HowFar'
<1> SUFFICES ASSUME MInv, linkToState PROVE KeepsTo(market) /\ HowFar'
  OBVIOUS
<1>0. IInv /\ TodoOK /\ ChainOK /\ Contracted /\ HowFar /\ proc.step = "linkToState" /\ proc.step \in Linking
  BY DEF MInv, RInv, IInv, linkToState, Working, Linking, Initialized
<1>1. PICK s \in DOMAIN chain.state : s = Here(State) /\ s[1] = market
  BY <1>0, HereDeployed DEF Parts
<1>2. state = chain.state[s] /\ state.initialized
  BY <1>0, <1>1 DEF state, HowFar, Initialized
<1>3. UNCHANGED <<config, targets>> /\ history'.releases = history.releases
  BY DEF linkToState
<1>4. market' = market
  BY <1>0, GoesOn DEF linkToState, Goto
<1>5. CASE state.associated = MutatingAt(targets, market)
  <2>1. chain' = chain /\ proc'.step = "linkToPerpsExchangeRate"
    BY <1>0, <1>5 DEF linkToState, Goto, IInv, ProcOK, Fields
  <2>2. SameContracts
    BY <2>1 DEF SameContracts
  <2>3. KeepsTo(market)
    BY <1>0, <1>3, <2>1, <2>2, SameAgrees, SameContracted DEF KeepsTo
  <2>4. proc'.step \in Initialized /\ proc'.step \notin {"legacy", "removeRoutes", "addRoutes"}
    BY <2>1 DEF Initialized
  <2>5. /\ chain'.state[Here(State)].initialized
        /\ chain'.state[Here(State)].associated = MutatingAt(targets, market)
    BY <1>1, <1>2, <1>5, <2>1
  <2>6. HowFar'
    BY <1>0, <1>3, <1>4, <2>4, <2>5, HowFarThen
  <2>7. QED
    BY <2>3, <2>6
<1>6. CASE state.associated # MutatingAt(targets, market)
  <2>1. PICK v : v = Filtered(chain.state[s].associated, MutatingAt(targets, market))
    OBVIOUS
  <2>2. /\ chain' = [chain EXCEPT !.state = [chain.state EXCEPT ![s] = [chain.state[s] EXCEPT !["associated"] = v]]]
        /\ proc' = proc
    BY <1>1, <1>6, <2>1 DEF linkToState
  <2>3. KeepsTo(market) /\ chain'.state[s].initialized
    <3>1. PICK field \in {"initialized", "associated"} : field = "associated"
      OBVIOUS
    <3>2. chain' = [chain EXCEPT !.state = [chain.state EXCEPT ![s] = [chain.state[s] EXCEPT ![field] = v]]]
      BY <2>2, <3>1
    <3>3. ChainOK /\ Contracted /\ UNCHANGED <<config, targets>> /\ history'.releases = history.releases
      BY <1>0, <1>3
    <3>4. /\ Contracted' /\ chain'.routes = chain.routes /\ \A m : m # s[1] => Agree(chain, chain', m)
          /\ chain'.state[s].initialized = IF field = "initialized" THEN v ELSE chain.state[s].initialized
      BY <3>2, <3>3, StateStep
    <3>5. QED
      BY <1>1, <1>2, <1>3, <3>1, <3>4 DEF KeepsTo
  <2>4. proc'.step \in Initialized /\ proc'.step \notin Associated \cup {"legacy", "removeRoutes", "addRoutes"}
    BY <1>0, <2>2 DEF Initialized, Associated
  <2>5. chain'.state[Here(State)].initialized
    BY <1>1, <2>3
  <2>6. HowFar'
    BY <1>0, <1>3, <1>4, <2>4, <2>5, HowFarThen
  <2>7. QED
    BY <2>3, <2>6
<1>7. QED
  BY <1>5, <1>6

LEMMA RatesLink == MInv /\ linkToPerpsExchangeRate => KeepsTo(market) /\ HowFar'
<1> SUFFICES ASSUME MInv, linkToPerpsExchangeRate PROVE KeepsTo(market) /\ HowFar'
  OBVIOUS
<1>0. /\ IInv /\ TodoOK /\ ChainOK /\ Contracted /\ HowFar
      /\ proc.step = "linkToPerpsExchangeRate" /\ proc.step \in Linking
  BY DEF MInv, RInv, IInv, linkToPerpsExchangeRate, Working, Linking, Initialized
<1>1. UNCHANGED <<config, targets>> /\ history'.releases = history.releases
  BY DEF linkToPerpsExchangeRate
<1>2. SameContracts
  BY <1>0 DEF linkToPerpsExchangeRate, SameContracts, ChainOK
<1>3. proc'.step = "setProxy" /\ market' = market
  BY <1>0, GoesOn DEF linkToPerpsExchangeRate, Goto, IInv, ProcOK, Fields
<1>4. KeepsTo(market)
  BY <1>0, <1>1, <1>2, SameAgrees, SameContracted DEF KeepsTo, SameContracts
<1>5. /\ chain'.state[Here(State)].initialized
      /\ chain'.state[Here(State)].associated = MutatingAt(targets, market)
  BY <1>0, <1>2 DEF SameContracts, HowFar, state, Initialized, Associated
<1>6. proc'.step \in Initialized /\ proc'.step \notin {"legacy", "removeRoutes", "addRoutes"}
  BY <1>3 DEF Initialized
<1>7. HowFar'
  BY <1>0, <1>1, <1>3, <1>5, <1>6, HowFarThen
<1>8. QED
  BY <1>4, <1>7

(* The implementations that change positions are of the market.            *)
LEMMA MutatingHere ==
  ASSUME TodoOK, Contracted, HowFar, proc.step \in Linking, NEW i \in MutatingAt(targets, market)
  PROVE  i \in DOMAIN chain.impl /\ i[1] = market /\ i[2] \in Mutating
<1>1. PICK part \in Mutating : i = Here(part)
  BY DEF MutatingAt, Here
<1>2. part \in Kind /\ part \in Parts
  BY KindApart DEF Parts
<1>3. QED
  BY <1>1, <1>2, HereDeployed

LEMMA ProxyLinks == MInv /\ setProxy => KeepsTo(market) /\ HowFar'
<1> SUFFICES ASSUME MInv, setProxy PROVE KeepsTo(market) /\ HowFar'
  OBVIOUS
<1>0. IInv /\ TodoOK /\ ChainOK /\ Contracted /\ HowFar /\ proc.step = "setProxy" /\ proc.step \in Linking
  BY DEF MInv, RInv, IInv, setProxy, Working, Linking, Initialized
<1>1. UNCHANGED <<config, targets>> /\ history'.releases = history.releases
  BY DEF setProxy
<1>2. market' = market
  BY <1>0, GoesOn DEF setProxy, Goto
<1>3. /\ chain.state[Here(State)].initialized
      /\ chain.state[Here(State)].associated = MutatingAt(targets, market)
  BY <1>0 DEF HowFar, state, Initialized, Associated
<1> DEFINE wrong == {i \in MutatingAt(targets, market) : chain.impl[i].proxy # Here(Proxy)}
<1>4. CASE wrong = {}
  <2>1. chain' = chain /\ proc'.step = "removeRoutes"
    BY <1>0, <1>4 DEF setProxy, Goto, IInv, ProcOK, Fields
  <2>2. SameContracts
    BY <2>1 DEF SameContracts
  <2>3. KeepsTo(market)
    BY <1>0, <1>1, <2>1, <2>2, SameAgrees, SameContracted DEF KeepsTo
  <2>4. proc'.step \in Initialized /\ proc'.step \notin {"legacy", "addRoutes"}
    BY <2>1 DEF Initialized
  <2>5. \A i \in MutatingAt(targets, market) : chain'.impl[i].proxy = Here(Proxy)
    BY <1>4, <2>1
  <2>6. HowFar'
    <3> HIDE DEF wrong
    <3>1. /\ chain'.state[Here(State)].initialized
          /\ chain'.state[Here(State)].associated = MutatingAt(targets, market)
      BY <1>3, <2>1
    <3>2. QED
      BY <1>0, <1>1, <1>2, <2>4, <2>5, <3>1, HowFarThen
  <2>7. QED
    BY <2>3, <2>6
<1>5. CASE wrong # {}
  <2>1. PICK i : i = CHOOSE j \in wrong : TRUE
    OBVIOUS
  <2>2. i \in MutatingAt(targets, market)
    BY <1>5, <2>1
  <2>3. i \in DOMAIN chain.impl /\ i[1] = market
    <3> HIDE DEF wrong
    <3>1. QED
      BY <1>0, <2>2, MutatingHere
  <2>4. PICK p \in DOMAIN chain.routes : p = Here(Proxy)
    <3> HIDE DEF wrong
    <3>1. QED
      BY <1>0, HereDeployed
  <2>5. /\ chain' = [chain EXCEPT !.impl = [chain.impl EXCEPT ![i] = [chain.impl[i] EXCEPT !.proxy = p]]]
        /\ proc' = proc
    BY <1>5, <2>1, <2>4 DEF setProxy
  <2> HIDE DEF wrong
  <2>6. /\ Contracted' /\ chain'.routes = chain.routes /\ chain'.state = chain.state
        /\ \A m : m # i[1] => Agree(chain, chain', m)
    BY <1>0, <1>1, <2>3, <2>5, ProxyStep
  <2>7. KeepsTo(market)
    BY <2>3, <2>6 DEF KeepsTo
  <2>8. proc'.step \in Initialized /\ proc'.step \notin {"legacy", "removeRoutes", "addRoutes"}
    BY <1>0, <2>5 DEF Initialized
  <2>9. /\ chain'.state[Here(State)].initialized
        /\ chain'.state[Here(State)].associated = MutatingAt(targets, market)
    BY <1>3, <2>6
  <2>10. HowFar'
    BY <1>0, <1>1, <1>2, <2>8, <2>9, HowFarThen
  <2>11. QED
    BY <2>7, <2>10
<1>6. QED
  BY <1>4, <1>5

(* What the proxy of the market at hand leads to before and after.         *)
LEMMA RoutesHere ==
  ASSUME ChainOK, TodoOK, Contracted, HowFar, proc.step \in Linking,
         UNCHANGED <<config, targets>>, history'.releases = history.releases,
         NEW rs, IsFiniteSet(rs), \A r, q \in rs : r.selector = q.selector => r = q,
         \A r \in rs : r \in routes \/ r \in Wanted(targets, market),
         chain' = [chain EXCEPT !.routes[Here(Proxy)] = rs]
  PROVE  /\ KeepsTo(market) /\ chain'.state = chain.state /\ chain'.impl = chain.impl
         /\ chain'.routes[Here(Proxy)] = rs
<1>1. PICK p \in DOMAIN chain.routes : p = Here(Proxy) /\ p[1] = market
  BY HereDeployed DEF Parts
<1>2. ASSUME NEW r \in rs PROVE r.to \in DOMAIN chain.impl /\ r.to[1] = p[1]
  <2>1. CASE r \in routes
    BY <1>1, <2>1 DEF Contracted, Routed, routes
  <2>2. CASE r \in Wanted(targets, market)
    <3>1. PICK part \in Kind : r.to = Here(part)
      BY <2>2, EachWanted DEF Here
    <3>2. QED
      BY <1>1, <3>1, HereDeployed DEF Parts
  <2>3. QED
    BY <2>1, <2>2
<1>3. chain' = [chain EXCEPT !.routes = [chain.routes EXCEPT ![p] = rs]]
  BY <1>1
<1>4. /\ Contracted' /\ chain'.state = chain.state /\ chain'.impl = chain.impl
      /\ DOMAIN chain'.routes = DOMAIN chain.routes /\ chain'.routes[p] = rs
      /\ \A m : m # p[1] => Agree(chain, chain', m)
  BY <1>2, <1>3, RouteStep
<1>5. QED
  BY <1>1, <1>4 DEF KeepsTo

LEMMA RoutesOK ==
  ASSUME TodoOK, Contracted, HowFar, proc.step \in Linking
  PROVE  IsFiniteSet(routes) /\ \A r, q \in routes : r.selector = q.selector => r = q
BY HereDeployed DEF Contracted, Routed, routes

LEMMA RemoveLinks == MInv /\ removeRoutes => KeepsTo(market) /\ HowFar'
<1> SUFFICES ASSUME MInv, removeRoutes PROVE KeepsTo(market) /\ HowFar'
  OBVIOUS
<1>0. IInv /\ TodoOK /\ ChainOK /\ Contracted /\ HowFar /\ proc.step = "removeRoutes" /\ proc.step \in Linking
  BY DEF MInv, RInv, IInv, removeRoutes, Working, Linking, Initialized
<1>1. UNCHANGED <<config, targets>> /\ history'.releases = history.releases
  BY DEF removeRoutes
<1>2. market' = market
  BY <1>0, GoesOn DEF removeRoutes, Goto
<1>3. /\ chain.state[Here(State)].initialized
      /\ chain.state[Here(State)].associated = MutatingAt(targets, market)
      /\ \A i \in MutatingAt(targets, market) : chain.impl[i].proxy = Here(Proxy)
  BY <1>0 DEF HowFar, state, Initialized, Associated
<1> DEFINE toRemove == {r \in routes : r.selector \notin Selectors(Wanted(targets, market))}
<1>4. CASE toRemove = {}
  <2>1. chain' = chain /\ proc'.step = "addRoutes"
    BY <1>0, <1>4 DEF removeRoutes, Goto, IInv, ProcOK, Fields
  <2>2. SameContracts
    BY <2>1 DEF SameContracts
  <2>3. KeepsTo(market)
    BY <1>0, <1>1, <2>1, <2>2, SameAgrees, SameContracted DEF KeepsTo
  <2>4. proc'.step \in Initialized /\ proc'.step # "legacy"
    BY <2>1 DEF Initialized
  <2>5. \A r \in chain'.routes[Here(Proxy)] : r.selector \in Selectors(Wanted(targets, market))
    BY <1>4, <2>1 DEF routes
  <2> HIDE DEF toRemove
  <2>6. /\ chain'.state[Here(State)].initialized
        /\ chain'.state[Here(State)].associated = MutatingAt(targets, market)
        /\ \A i \in MutatingAt(targets, market) : chain'.impl[i].proxy = Here(Proxy)
    BY <1>3, <2>1
  <2>7. HowFar'
    BY <1>0, <1>1, <1>2, <2>4, <2>5, <2>6, HowFarThen
  <2>8. QED
    BY <2>3, <2>7
<1>5. CASE toRemove # {}
  <2>1. PICK rs : rs = routes \ {CHOOSE r \in toRemove : TRUE}
    OBVIOUS
  <2>2. chain' = [chain EXCEPT !.routes[Here(Proxy)] = rs] /\ proc' = proc
    BY <1>5, <2>1 DEF removeRoutes, routes
  <2> HIDE DEF toRemove
  <2>3. rs \in SUBSET routes
    BY <2>1
  <2>4. IsFiniteSet(rs)
    BY <1>0, <2>3, RoutesOK, FS_Subset
  <2>5. /\ \A r, q \in rs : r.selector = q.selector => r = q
        /\ \A r \in rs : r \in routes \/ r \in Wanted(targets, market)
    BY <1>0, <2>3, RoutesOK
  <2>6. KeepsTo(market) /\ chain'.state = chain.state /\ chain'.impl = chain.impl
    BY <1>0, <1>1, <2>2, <2>4, <2>5, RoutesHere
  <2>7. proc'.step \in Initialized /\ proc'.step \notin {"legacy", "addRoutes"}
    BY <1>0, <2>2 DEF Initialized
  <2>8. /\ chain'.state[Here(State)].initialized
        /\ chain'.state[Here(State)].associated = MutatingAt(targets, market)
        /\ \A i \in MutatingAt(targets, market) : chain'.impl[i].proxy = Here(Proxy)
    BY <1>3, <2>6
  <2>9. HowFar'
    BY <1>0, <1>1, <1>2, <2>7, <2>8, HowFarThen
  <2>10. QED
    BY <2>6, <2>9
<1>6. QED
  BY <1>4, <1>5

(* How far a market is that is linked, whatever is left to do about it.    *)
LEMMA HowFarDone ==
  ASSUME market' = market, UNCHANGED targets, proc'.step \in {"linkToMarketManager"} \cup Linked,
         Deployed(targets, market, Proxy), Consistent(chain', Here(Proxy)),
         proc'.step \in Linked => Here(Proxy) \in DOMAIN known'
  PROVE  HowFar'
<1>1. proc'.step \notin Linking /\ proc'.step \notin Initialized /\ proc'.step \notin Associated
      /\ proc'.step \notin {"legacy", "removeRoutes", "addRoutes"}
  BY DEF Linking, Initialized, Associated, Linked
<1>2. Here(Proxy)' = Here(Proxy)
  BY DEF Here
<1>3. (Deployed(targets, market, Proxy) /\ Consistent(chain, Here(Proxy)))'
  BY <1>2 DEF Deployed
<1>4. QED
  BY <1>1, <1>2, <1>3 DEF HowFar

(* A proxy with the routes that are wanted is on the last state.           *)
LEMMA WantedIsConsistent ==
  ASSUME TodoOK, Contracted, HowFar, proc.step = "addRoutes", Wanted(targets, market) \subseteq routes
  PROVE  Consistent(chain, Here(Proxy))
<1>0. proc.step \in Linking
  BY DEF Linking, Initialized
<1>1. PICK s \in DOMAIN chain.state : s = Here(State) /\ s[1] = market
  BY <1>0, HereDeployed DEF Parts
<1>2. PICK p \in DOMAIN chain.routes : p = Here(Proxy) /\ p[1] = market
  BY <1>0, HereDeployed DEF Parts
<1>3. /\ chain.state[s].initialized /\ chain.state[s].associated = MutatingAt(targets, market)
      /\ \A i \in MutatingAt(targets, market) : chain.impl[i].proxy = p
      /\ \A r \in routes : r.selector \in Selectors(Wanted(targets, market))
  BY <1>1, <1>2 DEF HowFar, state, Initialized, Associated
<1>4. ASSUME NEW r \in chain.routes[p], r.to[2] \in Mutating
      PROVE  chain.impl[r.to].state = s /\ r.to \in chain.state[s].associated /\ chain.impl[r.to].proxy = p
  <2>1. r \in routes
    BY <1>2, <1>4 DEF routes
  <2>2. PICK w \in Wanted(targets, market) : w.selector = r.selector
    BY <1>3, <2>1 DEF Selectors
  <2>3. r = w
    BY <1>0, <2>1, <2>2, RoutesOK
  <2>4. PICK part \in Kind : r.to = At(targets, market, part)
    BY <2>2, <2>3, EachWanted
  <2>5. part \in Mutating /\ part \in Parts
    BY <1>4, <2>4 DEF At, Parts
  <2>6. r.to \in MutatingAt(targets, market)
    BY <2>4, <2>5 DEF MutatingAt
  <2>7. /\ market \in ToSet(Market) /\ Deployed(targets, market, part) /\ <<market, part>> \notin config
    BY <1>0, <2>5, HereDeployed
  <2>8. chain.impl[At(targets, market, part)].state = At(targets, market, State)
    BY <2>5, <2>7 DEF Contracted, OnLastState
  <2>9. QED
    BY <1>1, <1>3, <2>4, <2>6, <2>8 DEF Here
<1>5. Consistent(chain, p)
  BY <1>1, <1>2, <1>3, <1>4 DEF Consistent
<1>6. QED
  BY <1>2, <1>5

LEMMA AddLinks == MInv /\ addRoutes => KeepsTo(market) /\ HowFar'
<1> SUFFICES ASSUME MInv, addRoutes PROVE KeepsTo(market) /\ HowFar'
  OBVIOUS
<1>0. IInv /\ TodoOK /\ ChainOK /\ Contracted /\ HowFar /\ proc.step = "addRoutes" /\ proc.step \in Linking
  BY DEF MInv, RInv, IInv, addRoutes, Working, Linking, Initialized
<1>1. UNCHANGED <<config, targets>> /\ history'.releases = history.releases
  BY DEF addRoutes
<1>2. market' = market
  BY <1>0, GoesOn DEF addRoutes, Goto
<1>3. /\ chain.state[Here(State)].initialized
      /\ chain.state[Here(State)].associated = MutatingAt(targets, market)
      /\ \A i \in MutatingAt(targets, market) : chain.impl[i].proxy = Here(Proxy)
      /\ \A r \in routes : r.selector \in Selectors(Wanted(targets, market))
  BY <1>0 DEF HowFar, state, Initialized, Associated
<1> DEFINE toAdd == Wanted(targets, market) \ routes
<1>4. CASE toAdd = {}
  <2>1. chain' = chain /\ proc'.step = "linkToMarketManager"
    BY <1>0, <1>4 DEF addRoutes, Goto, IInv, ProcOK, Fields
  <2>2. SameContracts
    BY <2>1 DEF SameContracts
  <2>3. KeepsTo(market)
    BY <1>0, <1>1, <2>1, <2>2, SameAgrees, SameContracted DEF KeepsTo
  <2>4. Wanted(targets, market) \subseteq routes
    BY <1>4
  <2>5. Consistent(chain', Here(Proxy))
    BY <1>0, <2>1, <2>4, WantedIsConsistent
  <2>6. Deployed(targets, market, Proxy)
    BY <1>0, HereDeployed DEF Parts
  <2>7. HowFar'
    BY <1>1, <1>2, <2>1, <2>5, <2>6, HowFarDone DEF Linked
  <2>8. QED
    BY <2>3, <2>7
<1>5. CASE toAdd # {}
  <2>1. PICK r : r = CHOOSE q \in toAdd : TRUE
    OBVIOUS
  <2>2. PICK rest : rest = {s \in routes : s.selector # r.selector}
    OBVIOUS
  <2>3. PICK rs : rs = rest \cup {r}
    OBVIOUS
  <2>4. chain' = [chain EXCEPT !.routes[Here(Proxy)] = rs] /\ proc' = proc
    BY <1>5, <2>1, <2>2, <2>3 DEF addRoutes, routes
  <2>5. r \in Wanted(targets, market)
    BY <1>5, <2>1
  <2> HIDE DEF toAdd
  <2>6. rest \in SUBSET routes
    BY <2>2
  <2>7. IsFiniteSet(rs)
    <3>1. IsFiniteSet(rest)
      BY <1>0, <2>6, RoutesOK, FS_Subset
    <3>2. QED
      BY <2>3, <3>1, FS_AddElement
  <2>8. /\ \A x, y \in rs : x.selector = y.selector => x = y
        /\ \A x \in rs : x \in routes \/ x \in Wanted(targets, market)
    BY <1>0, <2>2, <2>3, <2>5, RoutesOK
  <2>9. /\ KeepsTo(market) /\ chain'.state = chain.state /\ chain'.impl = chain.impl
        /\ chain'.routes[Here(Proxy)] = rs
    BY <1>0, <1>1, <2>4, <2>7, <2>8, RoutesHere
  <2>10. proc'.step \in Initialized /\ proc'.step # "legacy"
    BY <1>0, <2>4 DEF Initialized
  <2>11. \A x \in rs : x.selector \in Selectors(Wanted(targets, market))
    BY <1>3, <2>5, <2>8 DEF Selectors
  <2>12. /\ chain'.state[Here(State)].initialized
         /\ chain'.state[Here(State)].associated = MutatingAt(targets, market)
         /\ \A i \in MutatingAt(targets, market) : chain'.impl[i].proxy = Here(Proxy)
         /\ \A x \in chain'.routes[Here(Proxy)] : x.selector \in Selectors(Wanted(targets, market))
    BY <1>3, <2>9, <2>11
  <2>13. HowFar'
    BY <1>0, <1>1, <1>2, <2>10, <2>12, HowFarThen
  <2>14. QED
    BY <2>9, <2>13
<1>6. QED
  BY <1>4, <1>5

(* The market at hand once it is linked.                                   *)
LEMMA LinkedHere ==
  ASSUME IInv, HowFar, Contracted, proc.step \in {"linkToMarketManager"} \cup Linked
  PROVE  /\ market \in ToSet(Market) /\ market \in proc.todo /\ market \in Key
         /\ Deployed(targets, market, Proxy) /\ Consistent(chain, Here(Proxy))
         /\ Here(Proxy) \in DOMAIN chain.routes /\ Here(Proxy)[1] = market
<1>1. proc.step \in OnMarket
  BY DEF Linked, OnMarket, Upgrading
<1>2. Deployed(targets, market, Proxy) /\ Consistent(chain, Here(Proxy))
  BY DEF HowFar
<1>3. PICK m \in ToSet(Market) : m = market
  BY <1>1, MarketIsKnown DEF IInv
<1>4. Here(Proxy) \in DOMAIN chain.routes /\ Here(Proxy)[1] = market
  <2>1. targets \in [Name -> Nat] /\ {Proxy} \in SUBSET Parts
    BY DEF Contracted, Counted, Parts
  <2>2. Deployed(targets, m, Proxy)
    BY <1>2, <1>3
  <2>3. At(targets, m, Proxy) \in Made(targets, {Proxy})
    BY <2>1, <2>2, MadeAt
  <2>4. QED
    BY <1>3, <2>3 DEF Contracted, Placed, Here, At
<1>5. QED
  BY <1>1, <1>2, <1>4, MarketIsKnown DEF IInv

(* The manager gets to know the proxy that is linked.                      *)
LEMMA ManagerLinks ==
  MInv /\ linkToMarketManager =>
    /\ KeepsTo(market) /\ HowFar' /\ SameContracts
    /\ \/ DOMAIN known' = DOMAIN known
       \/ DOMAIN known' = DOMAIN known \cup {Here(Proxy)} /\ CanAdd({Here(Proxy)})
<1> SUFFICES ASSUME MInv, linkToMarketManager
             PROVE  /\ KeepsTo(market) /\ HowFar' /\ SameContracts
                    /\ \/ DOMAIN known' = DOMAIN known
                       \/ DOMAIN known' = DOMAIN known \cup {Here(Proxy)} /\ CanAdd({Here(Proxy)})
  OBVIOUS
<1>0. IInv /\ ChainOK /\ Contracted /\ HowFar /\ proc.step = "linkToMarketManager"
  BY DEF MInv, RInv, IInv, linkToMarketManager, Working
<1>1. UNCHANGED <<config, targets>> /\ history'.releases = history.releases
  BY DEF linkToMarketManager
<1>2. SameContracts
  BY <1>0 DEF linkToMarketManager, SameContracts, ChainOK, addProxiedMarkets, updateMarketsImplementations, Known
<1>3. KeepsTo(market)
  BY <1>0, <1>1, <1>2, SameAgrees, SameContracted DEF KeepsTo, SameContracts
<1>4. Deployed(targets, market, Proxy) /\ Consistent(chain', Here(Proxy))
  BY <1>0, <1>2, LinkedHere, SameConsistent
<1>5. \/ DOMAIN known' = DOMAIN known /\ (Here(Proxy) \in DOMAIN known \/ proc'.step = "off")
      \/ DOMAIN known' = DOMAIN known \cup {Here(Proxy)} /\ CanAdd({Here(Proxy)})
  <2>1. CASE Here(Proxy) \in DOMAIN known
    <3>1. CASE chain' = chain
      BY <1>1, <2>1, <3>1 DEF known
    <3>2. CASE updateMarketsImplementations({Here(Proxy)})
      <4>1. PICK ms : ms = [p \in DOMAIN known |-> IF p \in {Here(Proxy)} THEN Targets(chain.routes[p]) ELSE known[p]]
        OBVIOUS
      <4>2. known' = ms
        BY <1>0, <1>1, <3>2, <4>1, SetKeeps DEF updateMarketsImplementations
      <4>3. QED
        BY <2>1, <4>1, <4>2
    <3>3. QED
      BY <2>1, <3>1, <3>2 DEF linkToMarketManager
  <2>2. CASE Here(Proxy) \notin DOMAIN known /\ CanAdd({Here(Proxy)})
    <3>1. PICK ms : ms = [p \in DOMAIN known \cup {Here(Proxy)} |->
                            IF p \in {Here(Proxy)} THEN Targets(chain.routes[p]) ELSE known[p]]
      OBVIOUS
    <3>2. known' = ms
      BY <1>0, <1>1, <2>2, <3>1, SetKeeps DEF linkToMarketManager, addProxiedMarkets
    <3>3. QED
      BY <2>2, <3>1, <3>2
  <2>3. CASE Here(Proxy) \notin DOMAIN known /\ ~CanAdd({Here(Proxy)})
    <3>1. chain' = chain /\ proc'.step = "off"
      BY <2>3 DEF linkToMarketManager
    <3>2. QED
      BY <1>1, <3>1 DEF known
  <2>4. QED
    BY <2>1, <2>2, <2>3
<1>6. HowFar'
  <2>1. CASE proc'.step = "off"
    BY <2>1 DEF HowFar, Linking, Initialized, Associated, Linked
  <2>2. CASE proc'.step # "off"
    <3>1. proc' = [proc EXCEPT !.step = "rebuildCaches"]
      BY <2>2 DEF linkToMarketManager, Goto
    <3>2. proc'.step = "rebuildCaches" /\ market' = market
      BY <1>0, <3>1, GotoKeeps DEF IInv
    <3>3. Here(Proxy) \in DOMAIN known'
      BY <1>5, <2>2
    <3>4. QED
      BY <1>1, <1>4, <3>2, <3>3, HowFarDone DEF Linked
  <2>3. QED
    BY <2>1, <2>2
<1>7. QED
  BY <1>2, <1>3, <1>5, <1>6

(* The caches are no part of what a market is built on.                    *)
LEMMA CachesLink == MInv /\ rebuildCaches => KeepsTo(market) /\ HowFar' /\ \A m : Agree(chain, chain', m)
<1> SUFFICES ASSUME MInv, rebuildCaches PROVE KeepsTo(market) /\ HowFar' /\ \A m : Agree(chain, chain', m)
  OBVIOUS
<1>0. IInv /\ ChainOK /\ Contracted /\ HowFar /\ proc.step = "rebuildCaches"
  BY DEF MInv, RInv, IInv, rebuildCaches, Working
<1>1. UNCHANGED <<config, targets>> /\ history'.releases = history.releases
  BY DEF rebuildCaches
<1>2. PICK impls : impls = [i \in DOMAIN chain.impl |->
                              IF i \in Contracts(targets, market)
                              THEN [chain.impl[i] EXCEPT !.manager = targets[Manager]] ELSE chain.impl[i]]
  OBVIOUS
<1>3. chain'.impl = impls /\ chain'.routes = chain.routes /\ chain'.state = chain.state /\ Kept
  BY <1>0, <1>2 DEF rebuildCaches, ChainOK, Kept
<1>4. DOMAIN impls = DOMAIN chain.impl
      /\ \A i \in DOMAIN chain.impl : /\ DOMAIN impls[i] = {"state", "proxy", "manager"}
                                      /\ impls[i].state = chain.impl[i].state /\ impls[i].proxy = chain.impl[i].proxy
  BY <1>0, <1>2 DEF Contracted, Built
<1>5. Built(chain')
  BY <1>0, <1>3, <1>4 DEF Contracted, Built
<1>6. \A p \in DOMAIN chain.routes : Routed(chain', p)
  BY <1>0, <1>3, <1>4 DEF Contracted, Routed
<1>7. Contracted'
  BY <1>0, <1>1, <1>3, <1>4, <1>5, <1>6, LinkedContracted
<1>8. \A m : Agree(chain, chain', m)
  BY <1>3, <1>4 DEF Agree
<1>9. PICK p \in DOMAIN chain.routes : p = Here(Proxy) /\ p[1] = market
  BY <1>0, LinkedHere DEF Linked
<1>10. Consistent(chain', Here(Proxy)) /\ Deployed(targets, market, Proxy)
  <2>1. Consistent(chain, p) /\ Routed(chain, p) /\ Agree(chain, chain', p[1]) /\ Deployed(targets, market, Proxy)
    BY <1>0, <1>8, <1>9, LinkedHere DEF Linked, Contracted
  <2>2. QED
    BY <1>9, <2>1, ConsistentKept
<1>11. proc'.step = "configureMarket" /\ market' = market
  BY <1>0, GotoKeeps DEF rebuildCaches, Goto, IInv
<1>12. Here(Proxy) \in DOMAIN known /\ known' = known
  BY <1>0, <1>1, <1>3, KeptIsOK DEF HowFar, Linked
<1>13. HowFar'
  BY <1>1, <1>10, <1>11, <1>12, HowFarDone DEF Linked
<1>14. QED
  BY <1>3, <1>7, <1>8, <1>13 DEF KeepsTo

-----------------------------------------------------------------------------
(* One contract of a market is deployed: those that there are stay.        *)
NextOf(m, part) == <<m, part, targets[<<m, part>>] + 1>>
NewState(m) == [legacy |-> IF targets[<<m, State>>] = 0 THEN none ELSE At(targets, m, State),
                initialized |-> FALSE, associated |-> {<<"owner">>}]
NewImplementation(m) == [state |-> At(targets, m, State), proxy |-> At(targets, m, Proxy), manager |-> 0]
Makes(m, part) ==
  /\ m \in ToSet(Market) /\ part \in Parts /\ NeedsDeploy(<<m, part>>)
  /\ part # Proxy => ~NeedsDeploy(<<m, Proxy>>)
  /\ part \in Kind => ~NeedsDeploy(<<m, State>>)
  /\ targets' = [targets EXCEPT ![<<m, part>>] = @ + 1] /\ config' = config \ {<<m, part>>}
  /\ chain'.routes = IF part = Proxy THEN Put(chain.routes, NextOf(m, part), {}) ELSE chain.routes
  /\ chain'.state = IF part = State THEN Put(chain.state, NextOf(m, part), NewState(m)) ELSE chain.state
  /\ chain'.impl = IF part \in Kind THEN Put(chain.impl, NextOf(m, part), NewImplementation(m)) ELSE chain.impl

LEMMA MakesOneMore ==
  ASSUME Contracted, NEW m, NEW part, Makes(m, part)
  PROVE  /\ OneMore(targets, targets', m, part) /\ targets' \in [Name -> Nat]
         /\ <<m, part>> \in Name /\ targets[<<m, part>>] \in Nat
         /\ \A n \in Name : n # <<m, part>> => targets'[n] = targets[n]
<1>1. targets \in [Name -> Nat] /\ targets' = [targets EXCEPT ![<<m, part>>] = @ + 1]
  BY DEF Contracted, Counted, Makes
<1>2. <<m, part>> \in Name
  BY Names DEF Makes
<1>3. /\ targets' \in [Name -> Nat] /\ targets[<<m, part>>] \in Nat
      /\ targets'[<<m, part>>] = targets[<<m, part>>] + 1
      /\ \A n \in Name : n # <<m, part>> => targets'[n] = targets[n]
  BY <1>1, <1>2
<1>4. \A k \in ToSet(Market), p \in Parts : <<k, p>> \in Name
  BY Names
<1>5. QED
  BY <1>2, <1>3, <1>4 DEF OneMore

LEMMA MakesPlaced ==
  ASSUME Contracted, NEW m, NEW part, Makes(m, part)
  PROVE  /\ Placed'
         /\ part = Proxy => NextOf(m, part) \notin DOMAIN chain.routes
         /\ part = State => NextOf(m, part) \notin DOMAIN chain.state
         /\ part \in Kind => NextOf(m, part) \notin DOMAIN chain.impl
<1>0. /\ {Proxy} \in SUBSET Parts /\ {State} \in SUBSET Parts /\ Kind \in SUBSET Parts
      /\ m \in ToSet(Market) /\ part \in Parts /\ targets \in [Name -> Nat]
      /\ DOMAIN chain.routes = Made(targets, {Proxy}) /\ DOMAIN chain.state = Made(targets, {State})
      /\ DOMAIN chain.impl = Made(targets, Kind)
  BY DEF Parts, Makes, Contracted, Counted, Placed
<1>1. ASSUME NEW parts \in SUBSET Parts
      PROVE  /\ part \in parts => /\ Made(targets', parts) = Made(targets, parts) \cup {NextOf(m, part)}
                                  /\ NextOf(m, part) \notin Made(targets, parts)
             /\ part \notin parts => Made(targets', parts) = Made(targets, parts)
  <2>1. PICK tg2 : tg2 = targets'
    OBVIOUS
  <2>2. OneMore(targets, tg2, m, part)
    BY <2>1, MakesOneMore
  <2>3. CASE part \in parts
    BY <1>0, <2>1, <2>2, <2>3, MadeMore, MadeAt DEF NextOf
  <2>4. CASE part \notin parts
    <3>1. \A k \in ToSet(Market) : \A p \in parts : tg2[<<k, p>>] = targets[<<k, p>>]
      BY <2>2, <2>4 DEF OneMore
    <3>2. Made(tg2, parts) = Made(targets, parts)
      BY <3>1, MadeSame
    <3>3. QED
      BY <2>1, <2>4, <3>2
  <2>5. QED
    BY <2>3, <2>4
<1>2. Proxy # State /\ Proxy \notin Kind /\ State \notin Kind
  BY KindApart DEF Proxy, State
<1>3. DOMAIN chain'.routes = Made(targets', {Proxy}) /\ (part = Proxy => NextOf(m, part) \notin DOMAIN chain.routes)
  <2>1. DOMAIN chain'.routes = IF part = Proxy THEN DOMAIN chain.routes \cup {NextOf(m, part)} ELSE DOMAIN chain.routes
    BY DEF Makes, Put
  <2>2. QED
    BY <1>0, <1>1, <2>1
<1>4. DOMAIN chain'.state = Made(targets', {State}) /\ (part = State => NextOf(m, part) \notin DOMAIN chain.state)
  <2>1. DOMAIN chain'.state = IF part = State THEN DOMAIN chain.state \cup {NextOf(m, part)} ELSE DOMAIN chain.state
    BY DEF Makes, Put
  <2>2. QED
    BY <1>0, <1>1, <2>1
<1>5. DOMAIN chain'.impl = Made(targets', Kind) /\ (part \in Kind => NextOf(m, part) \notin DOMAIN chain.impl)
  <2>1. DOMAIN chain'.impl = IF part \in Kind THEN DOMAIN chain.impl \cup {NextOf(m, part)} ELSE DOMAIN chain.impl
    BY DEF Makes, Put
  <2>2. QED
    BY <1>0, <1>1, <2>1
<1>6. QED
  BY <1>3, <1>4, <1>5 DEF Placed

(* What there is stays as it is, and what is new is as it is made.         *)
LEMMA MakesOnly ==
  ASSUME Contracted, NEW m, NEW part, Makes(m, part)
  PROVE  /\ DOMAIN chain.routes \subseteq DOMAIN chain'.routes /\ DOMAIN chain.state \subseteq DOMAIN chain'.state
         /\ DOMAIN chain.impl \subseteq DOMAIN chain'.impl
         /\ \A p \in DOMAIN chain.routes : chain'.routes[p] = chain.routes[p]
         /\ \A s \in DOMAIN chain.state : chain'.state[s] = chain.state[s]
         /\ \A i \in DOMAIN chain.impl : chain'.impl[i] = chain.impl[i]
         /\ \A p \in DOMAIN chain'.routes \ DOMAIN chain.routes : chain'.routes[p] = {}
         /\ \A s \in DOMAIN chain'.state \ DOMAIN chain.state :
              part = State /\ s = NextOf(m, State) /\ chain'.state[s] = NewState(m)
         /\ \A i \in DOMAIN chain'.impl \ DOMAIN chain.impl :
              part \in Kind /\ i = NextOf(m, part) /\ chain'.impl[i] = NewImplementation(m)
<1>1. /\ part = Proxy => NextOf(m, part) \notin DOMAIN chain.routes
      /\ part = State => NextOf(m, part) \notin DOMAIN chain.state
      /\ part \in Kind => NextOf(m, part) \notin DOMAIN chain.impl
  BY MakesPlaced
<1>2. /\ DOMAIN chain.routes \subseteq DOMAIN chain'.routes
      /\ \A p \in DOMAIN chain.routes : chain'.routes[p] = chain.routes[p]
      /\ \A p \in DOMAIN chain'.routes \ DOMAIN chain.routes : chain'.routes[p] = {}
  BY <1>1 DEF Makes, Put
<1>3. /\ DOMAIN chain.state \subseteq DOMAIN chain'.state
      /\ \A s \in DOMAIN chain.state : chain'.state[s] = chain.state[s]
      /\ \A s \in DOMAIN chain'.state \ DOMAIN chain.state :
           part = State /\ s = NextOf(m, State) /\ chain'.state[s] = NewState(m)
  BY <1>1 DEF Makes, Put
<1>4. /\ DOMAIN chain.impl \subseteq DOMAIN chain'.impl
      /\ \A i \in DOMAIN chain.impl : chain'.impl[i] = chain.impl[i]
      /\ \A i \in DOMAIN chain'.impl \ DOMAIN chain.impl :
           part \in Kind /\ i = NextOf(m, part) /\ chain'.impl[i] = NewImplementation(m)
  BY <1>1 DEF Makes, Put
<1>5. QED
  BY <1>2, <1>3, <1>4

LEMMA MakesContracted ==
  ASSUME Contracted, NEW m, NEW part, Makes(m, part), history'.releases = history.releases
  PROVE  Contracted' /\ \A k : Agree(chain, chain', k)
<1>0. /\ OneMore(targets, targets', m, part) /\ targets' \in [Name -> Nat]
      /\ <<m, part>> \in Name /\ targets[<<m, part>>] \in Nat
      /\ \A n \in Name : n # <<m, part>> => targets'[n] = targets[n]
      /\ targets'[<<m, part>>] = targets[<<m, part>>] + 1
  BY MakesOneMore DEF OneMore
<1>1. /\ DOMAIN chain.routes \subseteq DOMAIN chain'.routes /\ DOMAIN chain.state \subseteq DOMAIN chain'.state
      /\ DOMAIN chain.impl \subseteq DOMAIN chain'.impl
      /\ \A p \in DOMAIN chain.routes : chain'.routes[p] = chain.routes[p]
      /\ \A s \in DOMAIN chain.state : chain'.state[s] = chain.state[s]
      /\ \A i \in DOMAIN chain.impl : chain'.impl[i] = chain.impl[i]
  BY MakesOnly
<1>2. Counted'
  <2>1. config' = config \ {<<m, part>>} /\ (<<m, part>> \in config \/ targets[<<m, part>>] = 0)
    BY DEF Makes, NeedsDeploy
  <2>2. ASSUME NEW n \in Name PROVE targets'[n] + (IF n \in config' THEN 1 ELSE 0) <= history.releases + 1
    <3>1. targets[n] \in Nat /\ history.releases \in Nat
          /\ targets[n] + (IF n \in config THEN 1 ELSE 0) <= history.releases + 1
      BY DEF Contracted, Counted
    <3>2. CASE n = <<m, part>>
      BY <1>0, <2>1, <3>1, <3>2
    <3>3. CASE n # <<m, part>>
      <4>1. targets'[n] = targets[n] /\ (n \in config' <=> n \in config)
        BY <1>0, <2>1, <3>3
      <4>2. QED
        BY <3>1, <4>1
    <3>4. QED
      BY <3>2, <3>3
  <2>3. QED
    BY <1>0, <2>1, <2>2 DEF Contracted, Counted
<1>3. OneAfterAnother'
  <2>1. \A k \in ToSet(Market), p \in Parts : Deployed(targets, k, p) => Deployed(targets', k, p)
    <3>1. ASSUME NEW k \in ToSet(Market), NEW p \in Parts, Deployed(targets, k, p) PROVE Deployed(targets', k, p)
      <4>1. PICK n \in Name : n = <<k, p>>
        BY Names
      <4>2. targets[n] # 0
        BY <3>1, <4>1 DEF Deployed
      <4>3. targets'[n] # 0
        BY <1>0, <4>2
      <4>4. QED
        BY <4>1, <4>3 DEF Deployed
    <3>2. QED
      BY <3>1
  <2>2. \A k \in ToSet(Market), p \in Parts : Deployed(targets', k, p) => Deployed(targets, k, p) \/ (k = m /\ p = part)
    BY <1>0 DEF Deployed, OneMore
  <2>3. /\ part # Proxy => Deployed(targets, m, Proxy)
        /\ part \in Kind => Deployed(targets, m, State)
    BY DEF Makes, NeedsDeploy, Deployed
  <2>4. Proxy \in Parts /\ State \in Parts /\ Kind \subseteq Parts /\ State # Proxy
    BY DEF Parts, State, Proxy
  <2>5. m \in ToSet(Market)
    BY DEF Makes
  <2>6. ASSUME NEW k \in ToSet(Market)
        PROVE  /\ Deployed(targets', k, State) => Deployed(targets', k, Proxy)
               /\ \A p \in Kind : Deployed(targets', k, p) => Deployed(targets', k, State)
    <3>1. /\ Deployed(targets, k, State) => Deployed(targets, k, Proxy)
          /\ \A p \in Kind : Deployed(targets, k, p) => Deployed(targets, k, State)
      BY DEF Contracted, OneAfterAnother
    <3>2. QED
      BY <2>1, <2>2, <2>3, <2>4, <3>1
  <2>7. QED
    BY <2>6 DEF OneAfterAnother
<1>4. part \in Kind => At(targets, m, State) \in DOMAIN chain.state /\ At(targets, m, Proxy) \in DOMAIN chain.routes
  <2>1. State \in Parts /\ Proxy \in Parts /\ (part \in Kind => part # Proxy)
    BY KindApart DEF Parts
  <2>2. m \in ToSet(Market) /\ (part \in Kind => ~NeedsDeploy(<<m, State>>) /\ ~NeedsDeploy(<<m, Proxy>>))
    BY <2>1 DEF Makes
  <2>3. QED
    BY <2>1, <2>2, AllDeployed
<1>5. Built(chain')
  <2>1. ASSUME NEW s \in DOMAIN chain'.state
        PROVE  /\ DOMAIN chain'.state[s] = {"legacy", "initialized", "associated"}
               /\ chain'.state[s].legacy # none =>
                    chain'.state[s].legacy \in DOMAIN chain'.state /\ chain'.state[s].legacy[1] = s[1]
    <3>1. CASE s \in DOMAIN chain.state
      BY <1>1, <3>1 DEF Contracted, Built
    <3>2. CASE s \notin DOMAIN chain.state
      <4>1. part = State /\ s = NextOf(m, State) /\ chain'.state[s] = NewState(m)
        BY <3>2, MakesOnly
      <4>2. s[1] = m /\ At(targets, m, State)[1] = m
        BY <4>1 DEF NextOf, At
      <4>3. targets[<<m, State>>] # 0 => At(targets, m, State) \in DOMAIN chain.state
        <5>1. m \in ToSet(Market) /\ {State} \in SUBSET Parts /\ targets \in [Name -> Nat]
          BY DEF Makes, Parts, Contracted, Counted
        <5>2. At(targets, m, State) \in Made(targets, {State}) <=> Deployed(targets, m, State)
          BY <5>1, MadeAt
        <5>3. QED
          BY <5>2 DEF Deployed, Contracted, Placed
      <4>4. QED
        BY <1>1, <4>1, <4>2, <4>3 DEF NewState
    <3>3. QED
      BY <3>1, <3>2
  <2>2. ASSUME NEW i \in DOMAIN chain'.impl
        PROVE  /\ DOMAIN chain'.impl[i] = {"state", "proxy", "manager"}
               /\ chain'.impl[i].state \in DOMAIN chain'.state /\ chain'.impl[i].proxy \in DOMAIN chain'.routes
    <3>1. CASE i \in DOMAIN chain.impl
      BY <1>1, <3>1 DEF Contracted, Built
    <3>2. CASE i \notin DOMAIN chain.impl
      <4>1. part \in Kind /\ chain'.impl[i] = NewImplementation(m)
        BY <3>2, MakesOnly
      <4>2. QED
        BY <1>1, <1>4, <4>1 DEF NewImplementation
    <3>3. QED
      BY <3>1, <3>2
  <2>3. QED
    BY <2>1, <2>2 DEF Built
<1>6. ASSUME NEW k \in ToSet(Market), NEW p \in Mutating, <<k, State>> \in config' PROVE <<k, p>> \in config'
  <2>1. <<k, State>> \in config /\ <<k, State>> # <<m, part>>
    BY <1>6 DEF Makes
  <2>2. <<k, p>> \in config
    BY <2>1 DEF Contracted, OnLastState
  <2>3. <<k, p>> # <<m, part>>
    <3>1. ASSUME <<k, p>> = <<m, part>> PROVE FALSE
      <4>1. k = m /\ part \in Kind
        BY <3>1, KindApart
      <4>2. <<k, State>> \notin config
        BY <4>1 DEF Makes, NeedsDeploy
      <4>3. QED
        BY <2>1, <4>2
    <3>2. QED
      BY <3>1
  <2>4. QED
    BY <2>2, <2>3 DEF Makes
<1>7. ASSUME NEW k \in ToSet(Market), NEW p \in Mutating, Deployed(targets', k, p), <<k, p>> \notin config'
      PROVE  chain'.impl[At(targets', k, p)].state = At(targets', k, State)
  <2>0. p \in Kind /\ p \in Parts /\ State \in Parts /\ p # State /\ Kind \in SUBSET Parts
    BY KindApart DEF Parts
  <2>1. CASE k = m /\ p = part
    <3>1. targets'[<<m, State>>] = targets[<<m, State>>] /\ At(targets', m, part) = NextOf(m, part)
      <4>1. <<m, State>> # <<m, part>> /\ <<m, State>> \in Name
        BY <2>0, <2>1, Names
      <4>2. QED
        BY <1>0, <4>1 DEF At, NextOf
    <3>2. chain'.impl[NextOf(m, part)] = NewImplementation(m)
      BY <2>0, <2>1 DEF Makes, Put
    <3>3. QED
      BY <2>1, <3>1, <3>2 DEF NewImplementation, At
  <2>2. CASE k # m \/ p # part
    <3>1. PICK n \in Name : n = <<k, p>> /\ n # <<m, part>>
      BY <2>0, <2>2, Names
    <3>2. targets'[<<k, p>>] = targets[<<k, p>>]
      BY <1>0, <3>1
    <3>3. <<k, p>> \notin config
      BY <1>7, <2>2 DEF Makes
    <3>4. Deployed(targets, k, p)
      BY <1>7, <3>2 DEF Deployed
    <3>5. chain.impl[At(targets, k, p)].state = At(targets, k, State)
      BY <3>3, <3>4 DEF Contracted, OnLastState
    <3>6. At(targets, k, p) \in DOMAIN chain.impl
      <4>1. targets \in [Name -> Nat]
        BY DEF Contracted, Counted
      <4>2. At(targets, k, p) \in Made(targets, Kind)
        BY <2>0, <3>4, <4>1, MadeAt
      <4>3. QED
        BY <4>2 DEF Contracted, Placed
    <3>7. targets'[<<k, State>>] = targets[<<k, State>>]
      <4>1. <<k, State>> # <<m, part>>
        <5>1. ASSUME <<k, State>> = <<m, part>> PROVE FALSE
          <6>1. <<k, State>> \in config \/ ~Deployed(targets, k, State)
            BY <5>1 DEF Makes, NeedsDeploy, Deployed
          <6>2. Deployed(targets, k, State)
            BY <2>0, <3>4 DEF Contracted, OneAfterAnother
          <6>3. <<k, p>> \in config
            BY <6>1, <6>2 DEF Contracted, OnLastState
          <6>4. QED
            BY <3>3, <6>3
        <5>2. QED
          BY <5>1
      <4>2. <<k, State>> \in Name
        BY <2>0, Names
      <4>3. QED
        BY <1>0, <4>1, <4>2
    <3>8. At(targets', k, p) = At(targets, k, p) /\ At(targets', k, State) = At(targets, k, State)
      BY <3>2, <3>7 DEF At
    <3>9. QED
      BY <1>1, <3>5, <3>6, <3>8
  <2>3. QED
    BY <2>1, <2>2
<1>8. OnLastState'
  BY <1>6, <1>7 DEF OnLastState
<1>9. ASSUME NEW p \in DOMAIN chain'.routes PROVE Routed(chain', p)
  <2>1. CASE p \in DOMAIN chain.routes
    BY <1>1, <2>1 DEF Contracted, Routed
  <2>2. CASE p \notin DOMAIN chain.routes
    <3>1. chain'.routes[p] = {}
      BY <2>2, MakesOnly
    <3>2. QED
      BY <3>1, FS_EmptySet DEF Routed
  <2>3. QED
    BY <2>1, <2>2
<1>10. \A k : Agree(chain, chain', k)
  BY <1>1 DEF Agree
<1>11. QED
  BY <1>2, <1>3, <1>5, <1>8, <1>9, <1>10, MakesPlaced DEF Contracted

(* What the step that deploys the contracts of a market does.              *)
LEMMA DeployMakes ==
  ASSUME MInv, deployMarket
  PROVE  \/ /\ UNCHANGED <<config, targets, chain>> /\ proc' = [proc EXCEPT !.step = "pauseMarket"]
            /\ \A part \in Parts : ~NeedsDeploy(<<market, part>>)
         \/ \E part : Makes(market, part) /\ proc' = [proc EXCEPT !.updated = @ \cup {part}]
<1>0. ChainOK /\ TodoOK /\ proc.step = "deploy" /\ market \in ToSet(Market)
  <2>1. TodoOK /\ ChainOK /\ proc.step = "deploy"
    BY DEF MInv, RInv, IInv, deployMarket, Working
  <2>2. QED
    BY <2>1, MarketIsKnown DEF OnMarket
<1>1. CASE Missing = {}
  BY <1>1, FirstMissing DEF deployMarket, Goto
<1>2. CASE Missing # {}
  <2> DEFINE part == deployOrder[CHOOSE i \in Missing : \A j \in Missing : i <= j]
             n == <<market, part>>
             at == <<market, part, targets[n] + 1>>
             proxies == Put(chain.routes, at, {})
             states == Put(chain.state, at,
                           [legacy |-> IF targets[n] = 0 THEN none ELSE Here(State),
                            initialized |-> FALSE, associated |-> {<<"owner">>}])
             impls == Put(chain.impl, at, [state |-> Here(State), proxy |-> Here(Proxy), manager |-> 0])
  <2>1. /\ targets' = [targets EXCEPT ![n] = @ + 1]
        /\ config' = config \ {n}
        /\ proc' = [proc EXCEPT !.updated = @ \cup {part}]
        /\ chain' = CASE part = Proxy -> [chain EXCEPT !.routes = proxies]
                      [] part = State -> [chain EXCEPT !.state = states]
                      [] OTHER -> [chain EXCEPT !.impl = impls]
    BY <1>2 DEF deployMarket
  <2>2. /\ part \in Parts /\ NeedsDeploy(<<market, part>>)
        /\ part # Proxy => ~NeedsDeploy(<<market, Proxy>>)
        /\ part \in Kind => ~NeedsDeploy(<<market, State>>)
    BY <1>2, FirstMissing
  <2> HIDE DEF part
  <2>3. part \in {Proxy, State} \/ part \in Kind
    BY <2>2 DEF Parts
  <2>4. Proxy # State /\ Proxy \notin Kind /\ State \notin Kind
    BY KindApart DEF Proxy, State
  <2>5. /\ proxies = Put(chain.routes, NextOf(market, part), {})
        /\ part = State => states = Put(chain.state, NextOf(market, part), NewState(market))
        /\ impls = Put(chain.impl, NextOf(market, part), NewImplementation(market))
    BY DEF NextOf, NewState, NewImplementation, Here
  <2> HIDE DEF proxies, states, impls
  <2>6. /\ part = Proxy => chain' = [chain EXCEPT !.routes = proxies]
        /\ part = State => chain' = [chain EXCEPT !.state = states]
        /\ part \in Kind => chain' = [chain EXCEPT !.impl = impls]
    BY <2>1, <2>4
  <2>7. /\ chain'.routes = IF part = Proxy THEN proxies ELSE chain.routes
        /\ chain'.state = IF part = State THEN states ELSE chain.state
        /\ chain'.impl = IF part \in Kind THEN impls ELSE chain.impl
    <3>1. CASE part = Proxy
      BY <1>0, <2>4, <2>6, <3>1 DEF ChainOK
    <3>2. CASE part = State
      BY <1>0, <2>4, <2>6, <3>2 DEF ChainOK
    <3>3. CASE part \in Kind
      BY <1>0, <2>4, <2>6, <3>3 DEF ChainOK
    <3>4. QED
      BY <2>3, <3>1, <3>2, <3>3
  <2>8. Makes(market, part)
    BY <1>0, <2>1, <2>2, <2>5, <2>7 DEF Makes
  <2>9. QED
    BY <2>1, <2>8
<1>3. QED
  BY <1>1, <1>2

LEMMA DeployKept ==
  ASSUME MInv, deployMarket
  PROVE  /\ Contracted' /\ HowFar' /\ DOMAIN chain.routes \subseteq DOMAIN chain'.routes
         /\ \A m : Agree(chain, chain', m)
         /\ \A m \in ToSet(Market) : m # market => targets'[<<m, Proxy>>] = targets[<<m, Proxy>>]
<1>0. IInv /\ Contracted /\ history'.releases = history.releases /\ proc.step = "deploy"
  BY DEF MInv, RInv, deployMarket, Working
<1>1. CASE /\ UNCHANGED <<config, targets, chain>> /\ proc' = [proc EXCEPT !.step = "pauseMarket"]
           /\ \A part \in Parts : ~NeedsDeploy(<<market, part>>)
  <2>1. SameContracts
    BY <1>1 DEF SameContracts
  <2>2. proc'.step = "pauseMarket" /\ market' = market
    BY <1>0, <1>1, GotoKeeps DEF IInv
  <2>3. (\A part \in Parts : ~NeedsDeploy(<<market, part>>))'
    BY <1>1, <2>2 DEF NeedsDeploy
  <2>4. HowFar'
    BY <2>2, <2>3 DEF HowFar, Linking, Initialized, Associated, Linked
  <2>5. QED
    BY <1>0, <1>1, <2>1, <2>4, SameAgrees, SameContracted
<1>2. ASSUME NEW part, Makes(market, part), proc' = [proc EXCEPT !.updated = @ \cup {part}]
      PROVE  /\ Contracted' /\ HowFar' /\ DOMAIN chain.routes \subseteq DOMAIN chain'.routes
             /\ \A m : Agree(chain, chain', m)
             /\ \A m \in ToSet(Market) : m # market => targets'[<<m, Proxy>>] = targets[<<m, Proxy>>]
  <2>1. PICK m : m = market
    OBVIOUS
  <2>2. Makes(m, part)
    BY <1>2, <2>1
  <2>3. Contracted' /\ (\A k : Agree(chain, chain', k)) /\ DOMAIN chain.routes \subseteq DOMAIN chain'.routes
    BY <1>0, <2>2, MakesContracted, MakesOnly
  <2>4. \A k \in ToSet(Market) : k # m => targets'[<<k, Proxy>>] = targets[<<k, Proxy>>]
    BY <1>0, <2>2, MakesOneMore DEF OneMore, Parts
  <2>5. proc'.step = "deploy"
    BY <1>0, <1>2 DEF IInv, ProcOK, Fields
  <2>6. HowFar'
    BY <2>5 DEF HowFar, Linking, Initialized, Associated, Linked
  <2>7. QED
    BY <2>1, <2>3, <2>4, <2>6
<1>3. QED
  BY <1>1, <1>2, DeployMakes

-----------------------------------------------------------------------------
(* The steps that deploy nothing and link nothing.                         *)
Quiet ==
  \/ (\E o \in Options : Start(o)) \/ ImportMarkets \/ StartMarkets \/ pauseMarket \/ configureMarket
  \/ PausedMode \/ OffchainPausedMode \/ resumeMarket \/ RevokeAccess \/ CleanupRates \/ CleanupMarkets
  \/ Finish \/ Crash \/ GuardianPauses \/ GuardianResumes \/ UNCHANGED vars

LEMMA QuietIsSame ==
  ASSUME MInv, Quiet
  PROVE  SameContracts /\ UNCHANGED <<config, targets>> /\ history'.releases = history.releases
<1>0. ChainOK /\ StatusOK
  BY DEF MInv, RInv, IInv
<1>1. UNCHANGED <<config, targets>>
  BY DEF Quiet, Start, ImportMarkets, StartMarkets, pauseMarket, configureMarket, PausedMode, OffchainPausedMode,
     setPausedMode, resumeMarket, RevokeAccess, CleanupRates,
     RemoveRates, AddRates, CleanupMarkets, Finish, Crash, GuardianPauses,
     GuardianResumes, vars
<1>2. history'.releases = history.releases
  BY <1>0 DEF Quiet, Start, ImportMarkets, StartMarkets, pauseMarket, configureMarket, PausedMode, OffchainPausedMode,
     setPausedMode, resumeMarket, RevokeAccess, CleanupRates,
     RemoveRates, AddRates, CleanupMarkets, Finish, Crash, GuardianPauses,
     GuardianResumes, vars, StatusOK
<1>3. SameContracts
  BY <1>0 DEF Quiet, Start, ImportMarkets, StartMarkets, pauseMarket, configureMarket, PausedMode, OffchainPausedMode,
     setPausedMode, resumeMarket, RevokeAccess, CleanupRates,
     RemoveRates, AddRates, CleanupMarkets, Finish, Crash, GuardianPauses,
     GuardianResumes, vars, SameContracts, ChainOK, addProxiedMarkets, Known
<1>4. QED
  BY <1>1, <1>2, <1>3

(* A release flags contracts that are deployed once more.                  *)
LEMMA ReleaseKeeps ==
  ASSUME StateWithWriters, MInv, PrepareDeploy
  PROVE  Contracted' /\ SameContracts /\ UNCHANGED targets
<1>1. PICK flagged \in Releases : config' = flagged
  BY DEF PrepareDeploy
<1>2. /\ UNCHANGED <<targets, chain>> /\ history.complete /\ history.releases < MaxReleases
      /\ history'.releases = history.releases + 1 /\ config = {} /\ Contracted
  BY DEF PrepareDeploy, MInv, RInv, IInv, StatusOK, CompleteOK
<1>3. SameContracts
  BY <1>2 DEF SameContracts
<1>4. flagged \subseteq Name /\ MaxReleases \in Nat
  BY MarketAssumption
<1>5. Counted'
  <2>1. ASSUME NEW n \in Name PROVE targets[n] + (IF n \in flagged THEN 1 ELSE 0) <= history'.releases + 1
    <3>1. targets[n] \in Nat /\ history.releases \in Nat
          /\ targets[n] + (IF n \in config THEN 1 ELSE 0) <= history.releases + 1
      BY <1>2 DEF Contracted, Counted
    <3>2. QED
      BY <1>2, <3>1
  <2>2. history.releases \in Nat /\ targets \in [Name -> Nat]
    BY <1>2 DEF Contracted, Counted
  <2>3. history'.releases \in Nat /\ history'.releases <= MaxReleases
    BY <1>2, <1>4, <2>2
  <2>4. QED
    BY <1>1, <1>2, <1>4, <2>1, <2>2, <2>3 DEF Counted
<1>6. Placed' /\ OneAfterAnother' /\ Built(chain') /\ \A p \in DOMAIN chain'.routes : Routed(chain', p)
  BY <1>2 DEF Contracted, Placed, OneAfterAnother
<1>7. OnLastState'
  <2>1. \A m \in ToSet(Market) : \A part \in Mutating : <<m, State>> \in flagged => <<m, part>> \in flagged
    BY DEF StateWithWriters
  <2>2. \A m \in ToSet(Market) : \A part \in Mutating :
          Deployed(targets, m, part) => chain.impl[At(targets, m, part)].state = At(targets, m, State)
    BY <1>2 DEF Contracted, OnLastState
  <2>3. QED
    BY <1>1, <1>2, <2>1, <2>2 DEF OnLastState
<1>8. QED
  BY <1>2, <1>3, <1>5, <1>6, <1>7 DEF Contracted

(* A manager is no part of a market.                                       *)
LEMMA ManagerKeeps ==
  ASSUME MInv, DeployManager
  PROVE  /\ Contracted' /\ SameContracts
         /\ \A m \in ToSet(Market), part \in Parts : targets'[<<m, part>>] = targets[<<m, part>>]
<1>0. ChainOK /\ Contracted /\ history'.releases = history.releases
  BY DEF MInv, RInv, IInv, DeployManager
<1>1. SameContracts
  BY <1>0 DEF DeployManager, SameContracts, ChainOK
<1>2. CASE ~NeedsDeploy(Manager)
  <2>1. UNCHANGED <<config, targets>>
    BY <1>2 DEF DeployManager
  <2>2. QED
    BY <1>0, <1>1, <2>1, SameContracted
<1>3. CASE NeedsDeploy(Manager)
  <2>1. targets' = [targets EXCEPT ![Manager] = @ + 1] /\ config' = config \ {Manager}
        /\ (Manager \in config \/ targets[Manager] = 0)
    BY <1>3 DEF DeployManager, NeedsDeploy
  <2>2. targets \in [Name -> Nat] /\ Manager \in Name
    BY <1>0 DEF Contracted, Counted, Name
  <2>3. /\ targets' \in [Name -> Nat] /\ targets'[Manager] = targets[Manager] + 1
        /\ \A n \in Name : n # Manager => targets'[n] = targets[n]
    BY <2>1, <2>2
  <2>4. \A m \in ToSet(Market), part \in Parts :
          targets'[<<m, part>>] = targets[<<m, part>>] /\ (<<m, part>> \in config' <=> <<m, part>> \in config)
    BY <2>1, <2>3, Names
  <2>5. Counted'
    <3>1. ASSUME NEW n \in Name PROVE targets'[n] + (IF n \in config' THEN 1 ELSE 0) <= history.releases + 1
      <4>1. targets[n] \in Nat /\ history.releases \in Nat
            /\ targets[n] + (IF n \in config THEN 1 ELSE 0) <= history.releases + 1
        BY <1>0 DEF Contracted, Counted
      <4>2. CASE n = Manager
        BY <2>1, <2>3, <4>1, <4>2
      <4>3. CASE n # Manager
        <5>1. targets'[n] = targets[n] /\ (n \in config' <=> n \in config)
          BY <2>1, <2>3, <4>3
        <5>2. QED
          BY <4>1, <5>1
      <4>4. QED
        BY <4>2, <4>3
    <3>2. QED
      BY <1>0, <2>1, <2>3, <3>1 DEF Contracted, Counted
  <2>6. Placed'
    <3>1. Proxy \in Parts /\ State \in Parts /\ Kind \subseteq Parts
      BY DEF Parts
    <3>2. PICK tg2 : tg2 = targets'
      OBVIOUS
    <3>3. \A m \in ToSet(Market), part \in Parts : tg2[<<m, part>>] = targets[<<m, part>>]
      BY <2>4, <3>2
    <3>4. Made(tg2, {Proxy}) = Made(targets, {Proxy})
      BY <3>1, <3>3, MadeSame
    <3>5. Made(tg2, {State}) = Made(targets, {State})
      BY <3>1, <3>3, MadeSame
    <3>6. Made(tg2, Kind) = Made(targets, Kind)
      BY <3>1, <3>3, MadeSame
    <3>7. QED
      BY <1>0, <1>1, <3>2, <3>4, <3>5, <3>6 DEF Contracted, Placed, SameContracts
  <2>7. OneAfterAnother'
    BY <1>0, <2>4 DEF Contracted, OneAfterAnother, Deployed, Parts
  <2>8. OnLastState'
    <3>1. Mutating \subseteq Parts /\ State \in Parts
      BY KindApart DEF Parts
    <3>2. QED
      BY <1>0, <1>1, <2>4, <3>1 DEF Contracted, OnLastState, Deployed, At, SameContracts
  <2>9. Built(chain') /\ \A p \in DOMAIN chain'.routes : Routed(chain', p)
    BY <1>0, <1>1 DEF Contracted, SameContracts, Built, Routed
  <2>10. QED
    BY <1>1, <2>4, <2>5, <2>6, <2>7, <2>8, <2>9 DEF Contracted
<1>4. QED
  BY <1>2, <1>3

(* What a step does to the contracts of the markets: only those of the     *)
(* market that is linked change, but the caches.                           *)
LEMMA NextAgrees ==
  ASSUME StateWithWriters, MInv, [Next]_vars
  PROVE  /\ Contracted' /\ DOMAIN chain.routes \subseteq DOMAIN chain'.routes
         /\ \A m : m # market \/ proc.step \notin Linking => Agree(chain, chain', m)
         /\ \A m \in ToSet(Market) :
              m # market \/ proc.step # "deploy" => targets'[<<m, Proxy>>] = targets[<<m, Proxy>>]
<1>1. CASE LinkMarket
  <2>1. UNCHANGED targets
    BY <1>1 DEF LinkMarket, linkOrInitializeState, enableInLegacy, linkToState, linkToPerpsExchangeRate,
       setProxy, removeRoutes, addRoutes, rebuildCaches, linkToMarketManager
  <2>2. KeepsTo(market)
    BY <1>1, InitializeLinks, EnableLinks, StateLinks, RatesLink, ProxyLinks, RemoveLinks, AddLinks,
       ManagerLinks, CachesLink DEF LinkMarket
  <2>3. CASE proc.step \in Linking
    BY <2>1, <2>2, <2>3 DEF KeepsTo
  <2>4. CASE proc.step \notin Linking
    <3>1. linkToMarketManager \/ rebuildCaches
      BY <1>1, <2>4 DEF LinkMarket, linkOrInitializeState, enableInLegacy, linkToState, linkToPerpsExchangeRate,
         setProxy, removeRoutes, addRoutes, Working, Linking, Initialized
    <3>2. \A m : Agree(chain, chain', m)
      BY <3>1, ManagerLinks, CachesLink, SameAgrees
    <3>3. QED
      BY <2>1, <2>2, <3>2 DEF KeepsTo
  <2>5. QED
    BY <2>3, <2>4
<1>2. CASE deployMarket
  BY <1>2, DeployKept DEF deployMarket, Working
<1>3. CASE PrepareDeploy
  BY <1>3, ReleaseKeeps, SameAgrees DEF SameContracts
<1>4. CASE DeployManager
  BY <1>4, ManagerKeeps, SameAgrees DEF SameContracts, Parts
<1>5. CASE Quiet
  <2>1. SameContracts /\ UNCHANGED <<config, targets>> /\ history'.releases = history.releases /\ Contracted
    BY <1>5, QuietIsSame DEF MInv
  <2>2. QED
    BY <2>1, SameAgrees, SameContracted DEF SameContracts
<1>6. QED
  BY <1>1, <1>2, <1>3, <1>4, <1>5 DEF Next, Process, Quiet

After == {"revoke", "cleanup", "cleanupRates", "cleanupMarkets", "finish"}

(* How far the market at hand is after a step.                             *)
LEMMA NextHowFar == StateWithWriters /\ MInv /\ [Next]_vars => HowFar'
<1> SUFFICES ASSUME StateWithWriters, MInv, [Next]_vars PROVE HowFar'
  OBVIOUS
<1>0. IInv /\ ProcOK /\ ChainOK /\ HowFar /\ Contracted
  BY DEF MInv, RInv, IInv
<1>1. CASE LinkMarket
  BY <1>1, InitializeLinks, EnableLinks, StateLinks, RatesLink, ProxyLinks, RemoveLinks, AddLinks,
     ManagerLinks, CachesLink DEF LinkMarket
<1>2. CASE deployMarket
  BY <1>2, DeployKept
<1>3. CASE pauseMarket
  <2>1. proc'.step = "initialize" /\ market' = market /\ proc.step = "pauseMarket" /\ UNCHANGED <<config, targets>>
    BY <1>0, <1>3 DEF pauseMarket, Working, ProcOK, Fields, market
  <2>2. (\A part \in Parts : ~NeedsDeploy(<<market, part>>))'
    BY <1>0, <2>1 DEF HowFar, Linking, NeedsDeploy
  <2>3. QED
    BY <2>1, <2>2 DEF HowFar, Initialized, Associated, Linked
<1>4. CASE configureMarket \/ PausedMode \/ OffchainPausedMode
  <2>1. Quiet
    BY <1>4 DEF Quiet
  <2>2. SameContracts /\ UNCHANGED <<config, targets>>
    BY <2>1, QuietIsSame
  <2>3. proc.step \in Linked /\ \E s \in Linked : proc' = [proc EXCEPT !.step = s]
    BY <1>4 DEF configureMarket, PausedMode, OffchainPausedMode, setPausedMode, Goto, Working, Linked
  <2>4. proc'.step \in Linked /\ market' = market
    BY <1>0, <2>3, GotoKeeps DEF Linked
  <2>5. Deployed(targets, market, Proxy) /\ Consistent(chain', Here(Proxy))
    BY <1>0, <2>2, <2>3, LinkedHere, SameConsistent
  <2>6. Here(Proxy) \in DOMAIN known'
    <3>1. Kept
      BY <1>0, <1>4 DEF configureMarket, PausedMode, OffchainPausedMode, setPausedMode, Kept, ChainOK
    <3>2. QED
      BY <1>0, <2>2, <2>3, <3>1, KeptIsOK DEF HowFar
  <2>7. QED
    BY <2>2, <2>4, <2>5, <2>6, HowFarDone
<1>5. CASE GuardianPauses \/ GuardianResumes \/ UNCHANGED vars
  <2>1. UNCHANGED <<config, targets, chain, proc>>
    BY <1>5 DEF GuardianPauses, GuardianResumes, vars
  <2>2. market' = market /\ known' = known /\ state' = state /\ routes' = routes /\ Here(Proxy)' = Here(Proxy)
    BY <2>1 DEF market, known, state, routes, Here
  <2>3. QED
    BY <1>0, <2>1, <2>2 DEF HowFar, NeedsDeploy, Deployed
<1>6. CASE \/ PrepareDeploy \/ (\E o \in Options : Start(o)) \/ Crash \/ Finish \/ DeployManager \/ ImportMarkets
           \/ StartMarkets \/ resumeMarket \/ RevokeAccess \/ CleanupRates \/ CleanupMarkets
  <2> DEFINE others == {"off", "manager", "import", "markets", "deploy"} \cup After
  <2>1. CASE PrepareDeploy \/ (\E o \in Options : Start(o)) \/ Crash \/ Finish
    <3>1. proc'.step \in others
      BY <2>1 DEF PrepareDeploy, Start, Crash, Finish
    <3>2. QED
      BY <3>1 DEF HowFar, Linking, Initialized, Associated, Linked, After
  <2>2. CASE DeployManager \/ ImportMarkets \/ StartMarkets \/ resumeMarket
    <3>1. DOMAIN proc = Fields
      BY <1>0, <2>2 DEF DeployManager, ImportMarkets, StartMarkets, resumeMarket, Working, ProcOK
    <3>2. proc'.step \in others
      BY <2>2, <3>1 DEF DeployManager, ImportMarkets, StartMarkets, resumeMarket, Goto, Fields, After
    <3>3. QED
      BY <3>2 DEF HowFar, Linking, Initialized, Associated, Linked, After
  <2>3. CASE RevokeAccess \/ CleanupRates \/ CleanupMarkets
    <3>1. DOMAIN proc = Fields
      BY <1>0, <2>3 DEF RevokeAccess, CleanupRates, RemoveRates, AddRates, CleanupMarkets, Working, ProcOK
    <3>2. proc'.step \in others
      BY <2>3, <3>1 DEF RevokeAccess, CleanupRates, RemoveRates, AddRates, CleanupMarkets, Goto, Fields, After
    <3>3. QED
      BY <3>2 DEF HowFar, Linking, Initialized, Associated, Linked, After
  <2>4. QED
    BY <1>6, <2>1, <2>2, <2>3
<1>7. QED
  BY <1>1, <1>2, <1>3, <1>4, <1>5, <1>6 DEF Next, Process

(* What a run has to do changes with the end of a market only.             *)
LEMMA RunSteps ==
  ASSUME MInv, Next, proc.step # "off", proc'.step # "off", ~resumeMarket
  PROVE  /\ proc'.todo = proc.todo /\ proc'.all = proc.all
         /\ proc'.step \in After => proc.step \in After \/ proc.todo = {}
<1>0. IInv /\ DOMAIN proc = Fields
  BY DEF MInv, RInv, IInv, ProcOK
<1>1. ASSUME NEW s, proc' = [proc EXCEPT !.step = s]
      PROVE  proc'.todo = proc.todo /\ proc'.all = proc.all /\ proc'.step = s
  BY <1>0, <1>1 DEF Fields
<1>2. Upgrading \cap After = {}
  BY DEF Upgrading, After
<1>3. CASE proc' = proc \/ \E s \in Upgrading : proc' = [proc EXCEPT !.step = s]
  BY <1>1, <1>2, <1>3
<1>4. CASE LinkMarket
  <2>1. proc' = proc \/ \E s \in Upgrading : proc' = [proc EXCEPT !.step = s]
    BY <1>4 DEF LinkMarket, linkOrInitializeState, enableInLegacy, linkToState, linkToPerpsExchangeRate, setProxy,
       removeRoutes, addRoutes, rebuildCaches, linkToMarketManager, Goto, Upgrading
  <2>2. QED
    BY <1>3, <2>1
<1>5. CASE configureMarket \/ PausedMode \/ OffchainPausedMode
  <2>1. \E s \in Upgrading : proc' = [proc EXCEPT !.step = s]
    BY <1>5 DEF configureMarket, PausedMode, OffchainPausedMode, setPausedMode, Goto, Upgrading
  <2>2. QED
    BY <1>3, <2>1
<1>6. CASE pauseMarket
  BY <1>0, <1>6 DEF pauseMarket, Fields, After
<1>7. CASE deployMarket
  <2>1. proc.step = "deploy"
    BY <1>7 DEF deployMarket, Working
  <2>2. QED
    BY <1>0, <1>7, <2>1, DeployMakes DEF Fields, After
<1>8. CASE DeployManager \/ ImportMarkets
  <2>1. CASE proc' = [proc EXCEPT !.step = "import", !.before = DOMAIN known]
    BY <1>0, <2>1 DEF Fields, After
  <2>2. CASE proc' = [proc EXCEPT !.step = "markets"]
    BY <1>1, <2>2 DEF After
  <2>3. QED
    BY <1>8, <2>1, <2>2 DEF DeployManager, ImportMarkets, Goto
<1>9. CASE StartMarkets
  <2>1. CASE proc.todo = {}
    BY <1>1, <1>9, <2>1 DEF StartMarkets, Goto
  <2>2. CASE proc.todo # {}
    BY <1>0, <1>9, <2>2 DEF StartMarkets, Fields, After
  <2>3. QED
    BY <2>1, <2>2
<1>10. CASE RevokeAccess \/ CleanupRates \/ CleanupMarkets \/ Finish
  <2>1. proc.step \in After /\ \E s : proc' = [proc EXCEPT !.step = s]
    BY <1>10 DEF RevokeAccess, CleanupRates, RemoveRates, AddRates, CleanupMarkets, Finish, Goto, Working, After
  <2>2. QED
    BY <1>1, <2>1
<1>11. CASE PrepareDeploy \/ (\E o \in Options : Start(o)) \/ Crash \/ GuardianPauses \/ GuardianResumes
  BY <1>3, <1>11 DEF PrepareDeploy, Start, Crash, GuardianPauses, GuardianResumes
<1>12. QED
  BY <1>4, <1>5, <1>6, <1>7, <1>8, <1>9, <1>10, <1>11 DEF Next, Process

(* A run of all markets leaves those that it has done as they are.         *)
LEMMA NextDone == StateWithWriters /\ MInv /\ [Next]_vars => DoneOK'
<1> SUFFICES ASSUME StateWithWriters, MInv, [Next]_vars PROVE DoneOK'
  OBVIOUS
<1>0. IInv /\ ProcOK /\ TodoOK /\ ChainOK /\ HowFar /\ Contracted /\ DoneOK
  BY DEF MInv, RInv, IInv
<1>1. CASE proc'.step = "off"
  BY <1>1 DEF DoneOK
<1>2. CASE \E o \in Options : Start(o)
  <2>1. PICK o \in Options : Start(o)
    BY <1>2
  <2>2. proc'.step = "manager" /\ proc'.todo = o.markets /\ (proc'.all <=> o.markets = ToSet(Market))
    BY <2>1 DEF Start
  <2>3. QED
    BY <2>2 DEF DoneOK
<1>3. CASE resumeMarket
  <2>1. /\ proc.step = "resumeMarket" /\ proc'.todo = proc.todo \ {market}
        /\ proc'.step = (IF proc'.todo = {} THEN "revoke" ELSE "deploy") /\ proc'.all = proc.all
    BY <1>0, <1>3 DEF resumeMarket, Working, ProcOK, Fields
  <2>2. SameContracts /\ UNCHANGED targets
    BY <1>3, QuietIsSame DEF Quiet
  <2>3. ASSUME proc.all, NEW m \in ToSet(Market) \ proc'.todo
        PROVE  Deployed(targets, m, Proxy) /\ Consistent(chain', At(targets, m, Proxy))
    <3>1. Deployed(targets, m, Proxy) /\ Consistent(chain, At(targets, m, Proxy))
      <4>1. CASE m = market
        BY <1>0, <2>1, <4>1, LinkedHere DEF Linked, Here
      <4>2. CASE m # market
        BY <1>0, <2>1, <2>3, <4>2 DEF DoneOK
      <4>3. QED
        BY <4>1, <4>2
    <3>2. PICK p : p = At(targets, m, Proxy)
      OBVIOUS
    <3>3. Consistent(chain', p)
      BY <2>2, <3>1, <3>2, SameConsistent
    <3>4. QED
      BY <3>1, <3>2, <3>3
  <2>4. proc'.step # "off" /\ proc'.all => proc'.todo \subseteq ToSet(Market)
    BY <1>0, <2>1 DEF DoneOK
  <2>5. proc'.step \in After => proc'.todo = {}
    BY <2>1 DEF After
  <2>6. QED
    BY <2>1, <2>2, <2>3, <2>4, <2>5 DEF DoneOK, After
<1>4. CASE proc.step # "off" /\ proc'.step # "off" /\ ~resumeMarket /\ Next
  <2>1. proc'.todo = proc.todo /\ proc'.all = proc.all
    BY <1>4, RunSteps
  <2>2. proc'.step \in After => proc.todo = {}
    BY <1>0, <1>4, RunSteps DEF DoneOK, After
  <2>3. ASSUME NEW m \in ToSet(Market) \ proc.todo
        PROVE  Agree(chain, chain', m) /\ targets'[<<m, Proxy>>] = targets[<<m, Proxy>>]
    <3>1. proc.step \in {"deploy"} \cup Linking => m # market
      <4>1. {"deploy"} \cup Linking \subseteq OnMarket
        BY DEF Linking, Initialized, OnMarket, Upgrading
      <4>2. QED
        BY <1>0, <4>1, MarketIsKnown
    <3>2. QED
      BY <3>1, NextAgrees
  <2>4. QED
    BY <1>0, <1>4, <2>1, <2>2, <2>3, DoneKept DEF After
<1>5. CASE UNCHANGED vars
  BY <1>0, <1>5 DEF vars, DoneOK, Deployed
<1>6. CASE proc.step = "off" /\ proc'.step # "off" /\ Next
  BY <1>2, <1>6 DEF Next, Process, LinkMarket, PrepareDeploy, DeployManager, ImportMarkets, StartMarkets, deployMarket,
     pauseMarket, linkOrInitializeState, enableInLegacy, linkToState, linkToPerpsExchangeRate, setProxy,
     removeRoutes, addRoutes, rebuildCaches, linkToMarketManager, configureMarket, PausedMode,
     OffchainPausedMode, setPausedMode, resumeMarket, RevokeAccess, CleanupRates,
     RemoveRates, AddRates, CleanupMarkets, Finish, Crash,
     GuardianPauses, GuardianResumes, Working
<1>7. QED
  BY <1>1, <1>3, <1>4, <1>5, <1>6

-----------------------------------------------------------------------------
(* A proxy is of a market.                                                 *)
LEMMA ProxyOfMarket ==
  ASSUME Contracted, NEW p \in DOMAIN chain.routes
  PROVE  p[1] \in ToSet(Market)
<1>1. p \in Made(targets, {Proxy})
  BY DEF Contracted, Placed
<1>2. PICK m \in ToSet(Market), part \in {Proxy} : \E nr \in Numbers(targets, m, part) : p = <<m, part, nr>>
  BY <1>1, MadeIs
<1>3. QED
  BY <1>2

(* A market that the manager knows is paused while it is linked.           *)
LEMMA LinkedWhilePaused ==
  ASSUME RInv, proc.step \in Linking, proc.step # "pauseMarket", market \in Keys(DOMAIN known)
  PROVE  suspended[market] # "no"
<1>1. proc.step \in Upgrading /\ proc.step \in OnMarket /\ proc.step \notin Linked
  BY DEF Linking, Initialized, Upgrading, OnMarket, Linked
<1>2. market \in proc.todo
  BY <1>1, MarketIsKnown DEF RInv, IInv
<1>3. market \in Unlinked
  BY <1>1, <1>2 DEF Unlinked
<1>4. ~newMarket
  BY <1>1, <1>3 DEF RInv, Listed, newMarket
<1>5. QED
  BY <1>1, <1>4 DEF RInv, IInv, PausedMeanwhile

(* The manager knows no other proxy of the market at hand.                 *)
LEMMA KnownHere ==
  ASSUME KnownOK, Here(Proxy) \in DOMAIN known, NEW p \in DOMAIN known, p[1] = market
  PROVE  p = Here(Proxy)
BY DEF KnownOK, Single, Here, At

(* What was paused stays paused in most steps.                             *)
PausesOnly ==
  /\ history'.opened = history.opened
  /\ \A k \in ToSet(Market) : suspended'[k] = "no" => suspended[k] = "no"

LEMMA QuietKnown ==
  ASSUME MInv, DOMAIN known' \subseteq DOMAIN known, DOMAIN chain.routes \subseteq DOMAIN chain'.routes,
         PausesOnly, \A m : Agree(chain, chain', m)
  PROVE  KnownOK'
<1>1. Contracted /\ KnownOK
  BY DEF MInv
<1>2. ASSUME NEW p \in DOMAIN known, p[1] \in history'.opened, suspended'[p[1]] = "no"
      PROVE  p[1] \in history.opened /\ suspended[p[1]] = "no" /\ Agree(chain, chain', p[1])
  BY <1>1, <1>2, ProxyOfMarket DEF PausesOnly, KnownOK, Single
<1>3. QED
  BY <1>1, <1>2, KnownKept

LEMMA NextKnown == StateWithWriters /\ MInv /\ [Next]_vars => KnownOK'
<1> SUFFICES ASSUME StateWithWriters, MInv, [Next]_vars PROVE KnownOK'
  OBVIOUS
<1>0. /\ RInv /\ IInv /\ ChainOK /\ StatusOK /\ TodoOK /\ Contracted /\ HowFar /\ KnownOK
      /\ DOMAIN chain.routes \subseteq DOMAIN chain'.routes
  BY NextAgrees DEF MInv, RInv, IInv
<1>1. CASE LinkMarket /\ ~linkToMarketManager /\ ~rebuildCaches
  <2>1. /\ Kept /\ UNCHANGED <<targets, suspended, history>> /\ proc.step \in Linking /\ proc.step # "pauseMarket"
    <3>1. Kept
      BY <1>0, <1>1 DEF LinkMarket, linkOrInitializeState, enableInLegacy, linkToState, linkToPerpsExchangeRate,
         setProxy, removeRoutes, addRoutes, Kept, ChainOK
    <3>2. UNCHANGED <<targets, suspended, history>> /\ proc.step \in Linking /\ proc.step # "pauseMarket"
      BY <1>1 DEF LinkMarket, linkOrInitializeState, enableInLegacy, linkToState, linkToPerpsExchangeRate,
         setProxy, removeRoutes, addRoutes, Working, Linking, Initialized
    <3>3. QED
      BY <3>1, <3>2
  <2>2. known' = known
    BY <1>0, <2>1, KeptIsOK
  <2>3. ASSUME NEW p \in DOMAIN known, p[1] \in history'.opened, suspended'[p[1]] = "no"
        PROVE  p[1] \in history.opened /\ suspended[p[1]] = "no" /\ Agree(chain, chain', p[1])
    <3>1. p[1] # market
      BY <1>0, <2>1, <2>3, LinkedWhilePaused DEF Keys
    <3>2. QED
      BY <2>1, <2>3, <3>1, NextAgrees
  <2>4. QED
    BY <1>0, <2>2, <2>3, KnownKept
<1>2. CASE rebuildCaches
  <2>1. Kept /\ UNCHANGED <<targets, suspended, history>>
    BY <1>0, <1>2 DEF rebuildCaches, Kept, ChainOK
  <2>2. known' = known
    BY <1>0, <2>1, KeptIsOK
  <2>3. QED
    BY <1>0, <1>2, <2>1, <2>2, CachesLink, QuietKnown DEF PausesOnly
<1>3. CASE linkToMarketManager
  <2>1. /\ SameContracts /\ UNCHANGED <<suspended, history>> /\ proc.step = "linkToMarketManager"
        /\ \/ DOMAIN known' = DOMAIN known
           \/ DOMAIN known' = DOMAIN known \cup {Here(Proxy)} /\ CanAdd({Here(Proxy)})
    BY <1>3, ManagerLinks DEF linkToMarketManager, Working
  <2>2. CASE DOMAIN known' = DOMAIN known
    BY <1>0, <2>1, <2>2, SameAgrees, QuietKnown DEF PausesOnly
  <2>3. CASE DOMAIN known' = DOMAIN known \cup {Here(Proxy)} /\ CanAdd({Here(Proxy)})
    <3>1. PICK q : q = Here(Proxy)
      OBVIOUS
    <3>2. q \in DOMAIN chain.routes /\ q[1] = market /\ Consistent(chain, q)
      BY <1>0, <2>1, <3>1, LinkedHere
    <3>3. \A p \in DOMAIN known : p[1] # market
      BY <2>3, <3>1, <3>2 DEF CanAdd, Keys
    <3>4. Single(DOMAIN known)'
      BY <1>0, <2>3, <3>1, <3>2, <3>3 DEF Single, KnownOK
    <3>5. ASSUME NEW p \in DOMAIN known', p[1] \in history'.opened, suspended'[p[1]] = "no"
          PROVE  Consistent(chain', p)
      <4>1. Consistent(chain, p)
        BY <1>0, <2>1, <2>3, <3>1, <3>2, <3>5 DEF KnownOK, Sound
      <4>2. QED
        BY <2>1, <4>1, SameConsistent
    <3>6. QED
      BY <3>4, <3>5 DEF KnownOK, Sound
  <2>4. QED
    BY <2>1, <2>2, <2>3
<1>4. CASE deployMarket
  BY <1>0, <1>4, DeployKept, DeployKeeps, QuietKnown DEF deployMarket, PausesOnly
<1>5. CASE PrepareDeploy
  <2>1. known' = known /\ history'.opened = history.opened /\ suspended' = suspended
    BY <1>0, <1>5 DEF PrepareDeploy, known, StatusOK
  <2>2. QED
    BY <1>0, <1>5, <2>1, ReleaseKeeps, SameAgrees, QuietKnown DEF PausesOnly
<1>6. CASE DeployManager
  <2>1. DOMAIN known' \subseteq DOMAIN known
    <3>1. CASE NeedsDeploy(Manager)
      <4>1. PICK S : chain.managers \in Seq(S)
        BY <1>0 DEF ChainOK
      <4>2. chain'.managers = Append(chain.managers, <<>>) /\ targets'[Manager] = targets[Manager] + 1
            /\ targets[Manager] = Len(chain.managers)
        BY <1>0, <1>6, <3>1 DEF DeployManager, ChainOK, Name
      <4>3. chain.managers \in Seq(S \cup {<<>>})
        BY <4>1
      <4>4. known' = <<>>
        BY <4>2, <4>3 DEF known
      <4>5. QED
        BY <4>4
    <3>2. CASE ~NeedsDeploy(Manager)
      BY <1>6, <3>2 DEF DeployManager, known
    <3>3. QED
      BY <3>1, <3>2
  <2>2. QED
    BY <1>0, <1>6, <2>1, ManagerKeeps, SameAgrees, QuietKnown DEF DeployManager, PausesOnly
<1>7. CASE ImportMarkets
  <2>1. SameContracts /\ UNCHANGED <<targets, suspended, history>> /\ proc.step = "import"
    BY <1>7, QuietIsSame DEF Quiet, ImportMarkets
  <2>2. DOMAIN known = {} /\ Single(proc.before) /\ Sound(proc.before)
    BY <2>1 DEF MInv, ImportOK
  <2>3. PICK ms : ms = [p \in DOMAIN known \cup proc.before |->
                          IF p \in proc.before THEN Targets(chain.routes[p]) ELSE known[p]]
    OBVIOUS
  <2>4. known' = ms
    BY <1>0, <1>7, <2>1, <2>3, SetKeeps DEF ImportMarkets, addProxiedMarkets
  <2>5. DOMAIN known' = proc.before
    BY <2>2, <2>3, <2>4
  <2>6. Single(DOMAIN known)'
    BY <2>1, <2>2, <2>5 DEF Single, SameContracts
  <2>7. ASSUME NEW p \in DOMAIN known', p[1] \in history'.opened, suspended'[p[1]] = "no"
        PROVE  Consistent(chain', p)
    <3>1. Consistent(chain, p)
      BY <2>1, <2>2, <2>5, <2>7 DEF Sound
    <3>2. QED
      BY <2>1, <3>1, SameConsistent
  <2>8. QED
    BY <2>6, <2>7 DEF KnownOK, Sound
<1>8. CASE PausedMode \/ resumeMarket
  <2>1. SameContracts /\ UNCHANGED <<targets, chain>> /\ proc.step \in Linked
    BY <1>8, QuietIsSame DEF Quiet, PausedMode, resumeMarket, setPausedMode, Working, Linked
  <2>2. known' = known
    BY <2>1 DEF known
  <2>3. market \in Key /\ Here(Proxy) \in DOMAIN known /\ Consistent(chain, Here(Proxy))
    BY <1>0, <2>1, LinkedHere DEF HowFar
  <2>4. \A k \in Key : k # market =>
          (suspended'[k] = "no" => suspended[k] = "no") /\ (k \in history'.opened => k \in history.opened)
    BY <1>0, <1>8 DEF PausedMode, resumeMarket, setPausedMode, Confirmed, StatusOK
  <2>5. Single(DOMAIN known)'
    BY <1>0, <2>1, <2>2 DEF KnownOK, Single
  <2>6. ASSUME NEW p \in DOMAIN known, p[1] \in history'.opened, suspended'[p[1]] = "no"
        PROVE  Consistent(chain, p)
    <3>1. CASE p[1] = market
      BY <1>0, <2>3, <3>1, KnownHere
    <3>2. CASE p[1] # market
      <4>1. p \in DOMAIN chain.routes /\ p[1] \in ToSet(Market) /\ p[1] \in Key
        BY <1>0, ProxyOfMarket DEF KnownOK, Single, Key
      <4>2. QED
        BY <1>0, <2>4, <2>6, <3>2, <4>1 DEF KnownOK, Sound
    <3>3. QED
      BY <3>1, <3>2
  <2>7. QED
    BY <2>1, <2>2, <2>5, <2>6 DEF KnownOK, Sound
<1>9. CASE GuardianResumes
  <2>1. UNCHANGED <<targets, chain, history>> /\ \A p \in DOMAIN known : Consistent(chain, p)
    BY <1>9 DEF GuardianResumes, MInv, CompleteOK
  <2>2. known' = known
    BY <2>1 DEF known
  <2>3. QED
    BY <1>0, <2>1, <2>2 DEF KnownOK, Single, Sound
<1>10. CASE OffchainPausedMode
  <2>1. SameContracts /\ UNCHANGED <<targets, chain, history>> /\ market \in ToSet(Market)
    BY <1>0, <1>10, QuietIsSame, LinkedHere DEF Quiet, OffchainPausedMode, setPausedMode, Working, Linked
  <2>2. known' = known
    BY <2>1 DEF known
  <2>3. Offchain[market] \notin ToSet(Market)
    BY <2>1, MarketAssumption
  <2>4. PausesOnly
    BY <1>0, <1>10, <2>1, <2>3 DEF OffchainPausedMode, setPausedMode, Confirmed, StatusOK, PausesOnly, Key
  <2>5. QED
    BY <1>0, <2>1, <2>2, <2>4, SameAgrees, QuietKnown
<1>11. CASE \/ (\E o \in Options : Start(o)) \/ StartMarkets \/ pauseMarket \/ configureMarket \/ RevokeAccess
            \/ CleanupRates \/ CleanupMarkets \/ Finish \/ Crash \/ GuardianPauses \/ UNCHANGED vars
  <2>1. SameContracts /\ UNCHANGED targets
    BY <1>11, QuietIsSame DEF Quiet
  <2>2. DOMAIN known' \subseteq DOMAIN known
    <3>1. CASE CleanupMarkets
      <4>1. PICK ms : ms = [p \in DOMAIN known \cap Current(Proxy) |-> known[p]]
        OBVIOUS
      <4>2. known' = ms
        BY <1>0, <2>1, <3>1, <4>1, SetKeeps DEF CleanupMarkets
      <4>3. QED
        BY <4>1, <4>2
    <3>2. CASE ~CleanupMarkets
      <4>1. Kept
        BY <1>0, <1>11, <3>2 DEF Start, StartMarkets, pauseMarket, configureMarket, RevokeAccess, CleanupRates, RemoveRates, AddRates,
           Finish, Crash, GuardianPauses, vars, Kept, ChainOK
      <4>2. QED
        BY <1>0, <2>1, <4>1, KeptIsOK
    <3>3. QED
      BY <3>1, <3>2
  <2>3. PausesOnly
    <3>1. history'.opened = history.opened
      BY <1>0, <1>11 DEF Start, StartMarkets, pauseMarket, configureMarket, RevokeAccess, CleanupRates, RemoveRates, AddRates,
         CleanupMarkets, Finish, Crash, GuardianPauses, vars, StatusOK
    <3>2. \A k \in ToSet(Market) : suspended'[k] = "no" => suspended[k] = "no"
      <4>1. ToSet(Market) \subseteq Key
        BY DEF Key
      <4>2. CASE pauseMarket
        BY <1>0, <4>1, <4>2 DEF pauseMarket, StatusOK
      <4>3. CASE GuardianPauses
        BY <1>0, <4>1, <4>3 DEF GuardianPauses, StatusOK
      <4>4. CASE ~pauseMarket /\ ~GuardianPauses
        <5>1. UNCHANGED suspended
          BY <1>11, <4>4 DEF Start, StartMarkets, configureMarket, RevokeAccess, CleanupRates, RemoveRates, AddRates,
             CleanupMarkets, Finish, Crash, vars
        <5>2. QED
          BY <5>1
      <4>5. QED
        BY <4>2, <4>3, <4>4
    <3>3. QED
      BY <3>1, <3>2 DEF PausesOnly
  <2>4. QED
    BY <1>0, <2>1, <2>2, <2>3, SameAgrees, QuietKnown
<1>12. QED
  BY <1>1, <1>2, <1>3, <1>4, <1>5, <1>6, <1>7, <1>8, <1>9, <1>10, <1>11 DEF Next, Process

(* What is to be imported into a new manager.                              *)
LEMMA NextImport == StateWithWriters /\ MInv /\ [Next]_vars => ImportOK'
<1> SUFFICES ASSUME StateWithWriters, MInv, [Next]_vars, proc'.step = "import", NEW imported, imported = proc'.before
             PROVE  DOMAIN known' = {} /\ Single(imported)' /\ Sound(imported)'
  BY DEF ImportOK, Single, Sound
<1>0. IInv /\ ProcOK /\ ChainOK /\ KnownOK /\ Contracted
  BY DEF MInv, RInv, IInv
<1>1. CASE DeployManager
  <2>1. NeedsDeploy(Manager)
    BY <1>0, <1>1 DEF DeployManager, Goto, ProcOK, Fields
  <2>2. proc'.before = DOMAIN known /\ UNCHANGED <<suspended, history>> /\ SameContracts
    BY <1>0, <1>1, <2>1, ManagerKeeps DEF DeployManager, ProcOK, Fields
  <2>3. DOMAIN known' = {}
    <3>1. PICK S : chain.managers \in Seq(S)
      BY <1>0 DEF ChainOK
    <3>2. chain'.managers = Append(chain.managers, <<>>) /\ targets'[Manager] = targets[Manager] + 1
          /\ targets[Manager] = Len(chain.managers)
      BY <1>0, <1>1, <2>1 DEF DeployManager, ChainOK, Name
    <3>3. chain.managers \in Seq(S \cup {<<>>})
      BY <3>1
    <3>4. known' = <<>>
      BY <3>2, <3>3 DEF known
    <3>5. QED
      BY <3>4
  <2>4. Single(DOMAIN known) /\ Sound(DOMAIN known)
    BY <1>0 DEF KnownOK
  <2>5. Single(imported)'
    BY <2>2, <2>4 DEF Single, SameContracts
  <2>6. \A p \in DOMAIN known : Consistent(chain, p) => Consistent(chain', p)
    BY <2>2, SameConsistent
  <2>7. Sound(imported)'
    BY <2>2, <2>4, <2>6 DEF Sound
  <2>8. QED
    BY <2>3, <2>5, <2>7
<1>2. CASE GuardianPauses \/ UNCHANGED vars
  <2>1. UNCHANGED <<targets, chain, proc>> /\ history'.opened = history.opened
        /\ \A k \in Key : suspended'[k] = "no" => suspended[k] = "no"
    BY <1>0, <1>2 DEF GuardianPauses, vars, IInv, StatusOK
  <2>2. DOMAIN known = {} /\ Single(proc.before) /\ Sound(proc.before)
    BY <2>1 DEF MInv, ImportOK
  <2>3. \A p \in proc.before : p[1] \in Key
    BY <1>0, <2>2, ProxyOfMarket DEF Single, Key
  <2>4. Single(imported)' /\ Sound(imported)'
    BY <2>1, <2>2, <2>3 DEF Single, Sound
  <2>5. QED
    BY <2>1, <2>2, <2>4 DEF known
<1>3. CASE ~DeployManager /\ ~GuardianPauses /\ Next
  <2>1. CASE proc.step = "off"
    BY <1>3, <2>1 DEF Next, Process, LinkMarket, PrepareDeploy, Start, ImportMarkets, StartMarkets, deployMarket,
       pauseMarket, linkOrInitializeState, enableInLegacy, linkToState, linkToPerpsExchangeRate, setProxy,
       removeRoutes, addRoutes, rebuildCaches, linkToMarketManager, configureMarket, PausedMode,
       OffchainPausedMode, setPausedMode, resumeMarket, RevokeAccess, CleanupRates,
       RemoveRates, AddRates, CleanupMarkets, Finish, Crash,
       GuardianResumes, Working
  <2>2. CASE proc.step # "off"
    <3>1. DOMAIN proc = Fields
      BY <1>0, <2>2 DEF ProcOK
    <3>2. CASE deployMarket
      <4>1. proc.step = "deploy" /\ proc'.step \in {"deploy", "pauseMarket"}
        BY <3>1, <3>2, DeployMakes DEF deployMarket, Working, Fields
      <4>2. QED
        BY <4>1
    <3>3. CASE LinkMarket
      <4>1. CASE linkOrInitializeState \/ enableInLegacy \/ linkToState
        BY <3>1, <4>1 DEF linkOrInitializeState, enableInLegacy, linkToState, Working, Goto, Fields
      <4>2. CASE linkToPerpsExchangeRate \/ setProxy \/ removeRoutes
        BY <3>1, <4>2 DEF linkToPerpsExchangeRate, setProxy, removeRoutes, Working, Goto, Fields
      <4>3. CASE addRoutes \/ linkToMarketManager \/ rebuildCaches
        BY <3>1, <4>3 DEF addRoutes, linkToMarketManager, rebuildCaches, Working, Goto, Fields
      <4>4. QED
        BY <3>3, <4>1, <4>2, <4>3 DEF LinkMarket
    <3>4. CASE ImportMarkets \/ StartMarkets \/ configureMarket \/ PausedMode \/ OffchainPausedMode
      BY <3>1, <3>4 DEF ImportMarkets, StartMarkets, configureMarket, PausedMode, OffchainPausedMode, setPausedMode,
         Goto, Fields
    <3>5. CASE RevokeAccess \/ CleanupRates \/ CleanupMarkets \/ Finish \/ Crash
      BY <3>1, <3>5 DEF RevokeAccess, CleanupRates,
         RemoveRates, AddRates, CleanupMarkets, Finish, Crash, Goto, Fields
    <3>6. CASE pauseMarket
      BY <3>1, <3>6 DEF pauseMarket, Fields
    <3>7. CASE resumeMarket
      BY <3>1, <3>7 DEF resumeMarket, Fields
    <3>8. QED
      BY <1>3, <2>2, <3>2, <3>3, <3>4, <3>5, <3>6, <3>7 DEF Next, Process, PrepareDeploy, Start, GuardianResumes
  <2>3. QED
    BY <2>1, <2>2
<1>4. QED
  BY <1>1, <1>2, <1>3

(* A release is complete when all markets are done.                        *)
LEMMA NextComplete == StateWithWriters /\ MInv /\ [Next]_vars => CompleteOK'
<1> SUFFICES ASSUME StateWithWriters, MInv, [Next]_vars PROVE CompleteOK'
  OBVIOUS
<1>0. IInv /\ StatusOK /\ KnownOK /\ Contracted /\ DoneOK /\ CompleteOK
  BY DEF MInv, RInv, IInv
<1>1. CASE Finish
  <2>1. /\ proc.step = "finish" /\ proc'.step = "off" /\ UNCHANGED <<config, targets, chain>>
        /\ history'.complete = (proc.all /\ config = {} /\ \A m \in ToSet(Market) : At(targets, m, Proxy) \in DOMAIN known)
    BY <1>0, <1>1 DEF Finish, Working, StatusOK
  <2>2. ASSUME history'.complete, NEW p \in DOMAIN known PROVE Consistent(chain, p)
    <3>1. p[1] \in ToSet(Market)
      BY <1>0, ProxyOfMarket DEF KnownOK, Single
    <3>2. PICK q : q = At(targets, p[1], Proxy)
      OBVIOUS
    <3>3. q \in DOMAIN known /\ q[1] = p[1]
      BY <2>1, <2>2, <3>1, <3>2 DEF At
    <3>4. q = p
      BY <1>0, <3>3 DEF KnownOK, Single
    <3>5. Consistent(chain, q)
      BY <1>0, <2>1, <2>2, <3>1, <3>2 DEF DoneOK
    <3>6. QED
      BY <3>4, <3>5
  <2>3. known' = known
    BY <2>1 DEF known
  <2>4. QED
    BY <2>1, <2>2, <2>3 DEF CompleteOK
<1>2. CASE GuardianPauses \/ GuardianResumes \/ UNCHANGED vars
  <2>1. UNCHANGED <<config, targets, chain, proc>> /\ history'.complete = history.complete
    BY <1>0, <1>2 DEF GuardianPauses, GuardianResumes, vars, StatusOK
  <2>2. known' = known
    BY <2>1 DEF known
  <2>3. QED
    BY <1>0, <2>1, <2>2 DEF CompleteOK
<1>3. CASE PrepareDeploy \/ (\E o \in Options : Start(o))
  BY <1>0, <1>3 DEF PrepareDeploy, Start, StatusOK, CompleteOK
<1>4. CASE (Process /\ ~Finish) \/ Crash
  <2>1. history'.complete = history.complete
    BY <1>0, <1>4 DEF Process, LinkMarket, DeployManager, ImportMarkets, StartMarkets, deployMarket, pauseMarket,
       linkOrInitializeState, enableInLegacy, linkToState, linkToPerpsExchangeRate, setProxy, removeRoutes, addRoutes,
       rebuildCaches, linkToMarketManager, configureMarket, PausedMode, OffchainPausedMode, setPausedMode,
       resumeMarket, RevokeAccess, CleanupRates, RemoveRates, AddRates, CleanupMarkets, Crash, StatusOK
  <2>2. proc.step # "off"
    BY <1>4 DEF Process, LinkMarket, DeployManager, ImportMarkets, StartMarkets, deployMarket, pauseMarket,
       linkOrInitializeState, enableInLegacy, linkToState, linkToPerpsExchangeRate, setProxy, removeRoutes, addRoutes,
       rebuildCaches, linkToMarketManager, configureMarket, PausedMode, OffchainPausedMode, setPausedMode,
       resumeMarket, RevokeAccess, CleanupRates, RemoveRates, AddRates, CleanupMarkets, Crash, Working
  <2>3. QED
    BY <1>0, <2>1, <2>2, RunningIsIncomplete
<1>5. QED
  BY <1>1, <1>2, <1>3, <1>4 DEF Next

(* A key is paused by a guardian or by the tool, or open.                  *)
LEMMA NextStatuses == MInv /\ [Next]_vars => Statuses'
<1> SUFFICES ASSUME MInv, [Next]_vars PROVE Statuses'
  OBVIOUS
<1>0. Statuses /\ IInv
  BY DEF MInv, RInv
<1>1. CASE pauseMarket
  BY <1>0, <1>1 DEF pauseMarket, Statuses
<1>2. CASE PausedMode
  BY <1>0, <1>2 DEF PausedMode, setPausedMode, Confirmed, Statuses
<1>3. CASE OffchainPausedMode
  BY <1>0, <1>3 DEF OffchainPausedMode, setPausedMode, Confirmed, Statuses
<1>4. CASE resumeMarket
  BY <1>0, <1>4 DEF resumeMarket, Confirmed, Statuses
<1>5. CASE GuardianPauses \/ GuardianResumes
  BY <1>0, <1>5 DEF GuardianPauses, GuardianResumes, Statuses
<1>6. CASE ~(pauseMarket \/ PausedMode \/ OffchainPausedMode \/ resumeMarket \/ GuardianPauses \/ GuardianResumes)
  <2>1. UNCHANGED suspended
    BY <1>6 DEF Next, vars, Process, LinkMarket, DeployManager, ImportMarkets, StartMarkets, deployMarket,
       linkOrInitializeState, enableInLegacy, linkToState, linkToPerpsExchangeRate, setProxy, removeRoutes, addRoutes,
       rebuildCaches, linkToMarketManager, configureMarket, RevokeAccess, CleanupRates,
       RemoveRates, AddRates, CleanupMarkets, Finish, Crash,
       PrepareDeploy, Start
  <2>2. QED
    BY <1>0, <2>1 DEF Statuses
<1>7. QED
  BY <1>1, <1>2, <1>3, <1>4, <1>5, <1>6

LEMMA NextMInv == StateWithWriters /\ MInv /\ [Next]_vars => MInv'
<1> SUFFICES ASSUME StateWithWriters, MInv, [Next]_vars PROVE MInv'
  OBVIOUS
<1>1. RInv'
  BY NextRInv DEF MInv
<1>2. Contracted'
  BY NextAgrees
<1>3. QED
  BY <1>1, <1>2, NextStatuses, NextHowFar, NextKnown, NextImport, NextDone, NextComplete DEF MInv

-----------------------------------------------------------------------------
(* The markets that are there in the beginning.                            *)
LEMMA InitNames ==
  /\ InitialTargets \in [Name -> Nat] /\ InitialTargets[Manager] = 1
  /\ \A n \in Name : InitialTargets[n] \in {0, 1}
  /\ \A m \in ToSet(Market), part \in Parts :
       InitialTargets[<<m, part>>] = IF m \in Existing THEN 1 ELSE 0
<1>1. \A n \in Name : InitialTargets[n] = IF n = Manager \/ n[1] \in Existing THEN 1 ELSE 0
  BY DEF InitialTargets
<1>2. \A m \in ToSet(Market), part \in Parts :
        <<m, part>> \in Name /\ <<m, part>> # Manager /\ <<m, part>>[1] = m
  BY Names
<1>3. Manager \in Name
  BY DEF Name
<1>4. InitialTargets \in [Name -> Nat]
  BY DEF InitialTargets
<1>5. QED
  BY <1>1, <1>2, <1>3, <1>4

LEMMA InitMade ==
  ASSUME NEW parts \in SUBSET Parts, NEW c
  PROVE  c \in Made(InitialTargets, parts) <=>
           \E m \in Existing : \E part \in parts : c = At(InitialTargets, m, part)
<1>1. ASSUME NEW m \in ToSet(Market), NEW part \in parts
      PROVE  Numbers(InitialTargets, m, part) = IF m \in Existing THEN {1} ELSE {}
  <2>1. PICK nr \in Nat : nr = InitialTargets[<<m, part>>] /\ nr = IF m \in Existing THEN 1 ELSE 0
    BY InitNames
  <2>2. Numbers(InitialTargets, m, part) = 1..nr
    BY <2>1 DEF Numbers
  <2>3. nr = 1 => 1..nr = {1}
    OBVIOUS
  <2>5. nr = 0 => 1..nr = {}
    OBVIOUS
  <2>6. QED
    BY <2>1, <2>2, <2>3, <2>5
<1>2. \A m \in Existing, part \in parts : At(InitialTargets, m, part) = <<m, part, 1>> /\ m \in ToSet(Market)
  BY InitNames, MarketAssumption DEF At
<1>3. QED
  BY <1>1, <1>2, MadeIs

LEMMA InitMInv == Init => MInv
<1> SUFFICES ASSUME Init PROVE MInv
  OBVIOUS
<1> DEFINE tg == InitialTargets
<1>0. RInv /\ ChainOK
  BY InitIInv, InitRInv DEF RInv, IInv
<1>1. targets = tg /\ config = {} /\ proc.step = "off" /\ history.opened = Existing
      /\ history.releases = 0 /\ history.complete
  BY DEF Init
<1>2. \A k \in Existing : k \in ToSet(Market)
  BY MarketAssumption
<1>3. Proxy \in Parts /\ State \in Parts /\ Kind \subseteq Parts /\ Mutating \subseteq Kind
  BY KindApart DEF Parts
<1>4. DOMAIN chain.routes = {At(tg, m, Proxy) : m \in Existing}
      /\ \A p \in DOMAIN chain.routes : chain.routes[p] = Wanted(tg, p[1])
  BY DEF Init
<1>5. DOMAIN chain.state = {At(tg, m, State) : m \in Existing}
      /\ \A s \in DOMAIN chain.state :
           chain.state[s] = [legacy |-> none, initialized |-> TRUE, associated |-> MutatingAt(tg, s[1])]
  BY DEF Init
<1>6. DOMAIN chain.impl = UNION {{At(tg, m, part) : m \in Existing} : part \in Kind}
      /\ \A i \in DOMAIN chain.impl :
           chain.impl[i] = [state |-> At(tg, i[1], State), proxy |-> At(tg, i[1], Proxy), manager |-> 1]
  BY DEF Init
<1>7. DOMAIN known = DOMAIN chain.routes
  <2>1. targets[Manager] = 1
    BY <1>1, InitNames
  <2>2. DOMAIN chain.managers[1] = {At(tg, m, Proxy) : m \in Existing}
    BY DEF Init
  <2>3. QED
    BY <1>4, <2>1, <2>2 DEF known
<1>8. \A m, part : At(tg, m, part)[1] = m /\ At(tg, m, part)[2] = part
  BY DEF At
<1>9. \A m \in Existing, part \in Kind : At(tg, m, part) \in DOMAIN chain.impl
  BY <1>6
<1>10. Statuses
  BY DEF Init, Statuses
<1>22. ASSUME NEW m \in ToSet(Market), NEW part \in Parts PROVE tg[<<m, part>>] # 0 <=> m \in Existing
  <2>1. tg[<<m, part>>] = IF m \in Existing THEN 1 ELSE 0
    BY InitNames
  <2> HIDE DEF tg
  <2>2. QED
    BY <2>1
<1> HIDE DEF tg
<1>23. PICK tt : tt = tg
  OBVIOUS
<1>24. ASSUME NEW s \in DOMAIN chain.state
      PROVE  /\ DOMAIN chain.state[s] = {"legacy", "initialized", "associated"}
             /\ chain.state[s].legacy = none /\ chain.state[s].initialized
             /\ chain.state[s].associated = MutatingAt(tg, s[1])
  <2>1. PICK a : a = MutatingAt(tg, s[1])
    OBVIOUS
  <2>2. PICK record : record = chain.state[s]
    OBVIOUS
  <2>3. record = [legacy |-> none, initialized |-> TRUE, associated |-> a]
    BY <1>5, <2>1, <2>2
  <2>4. DOMAIN record = {"legacy", "initialized", "associated"}
        /\ record.legacy = none /\ record.initialized /\ record.associated = a
    BY <2>3
  <2>5. QED
    BY <2>1, <2>2, <2>4
<1>11. Counted
  <2>1. tg \in [Name -> Nat] /\ \A n \in Name : tg[n] <= 1
    BY InitNames DEF tg
  <2>2. MaxReleases \in Nat
    BY MarketAssumption
  <2>3. \A n \in Name : targets[n] + (IF n \in config THEN 1 ELSE 0) <= history.releases + 1
    BY <1>1, <2>1
  <2>4. history.releases \in Nat /\ history.releases <= MaxReleases
    BY <1>1, <2>2
  <2>5. QED
    BY <1>1, <2>1, <2>3, <2>4 DEF Counted
<1>12. Placed
  <2>1. \A parts \in SUBSET Parts : \A c : c \in Made(tg, parts) <=>
          \E m \in Existing : \E part \in parts : c = At(tg, m, part)
    BY InitMade DEF tg
  <2>2. \A c : c \in Made(tg, {Proxy}) <=> \E m \in Existing : c = At(tg, m, Proxy)
    BY <1>3, <2>1
  <2>3. \A c : c \in Made(tg, {State}) <=> \E m \in Existing : c = At(tg, m, State)
    BY <1>3, <2>1
  <2>4. \A c : c \in Made(tg, Kind) <=> \E m \in Existing : \E part \in Kind : c = At(tg, m, part)
    BY <1>3, <2>1
  <2>5. DOMAIN chain.routes = Made(tg, {Proxy})
    BY <1>4, <2>2
  <2>6. DOMAIN chain.state = Made(tg, {State})
    BY <1>5, <2>3
  <2>7. DOMAIN chain.impl = Made(tg, Kind)
    BY <1>6, <2>4
  <2>8. QED
    BY <1>1, <2>5, <2>6, <2>7 DEF Placed
<1>13. \A m \in ToSet(Market), part \in Parts : Deployed(targets, m, part) <=> m \in Existing
  BY <1>1, <1>22 DEF Deployed
<1>14. OneAfterAnother
  BY <1>3, <1>13 DEF OneAfterAnother
<1>15. Built(chain)
  <2>1. \A s \in DOMAIN chain.state :
          DOMAIN chain.state[s] = {"legacy", "initialized", "associated"} /\ chain.state[s].legacy = none
    BY <1>24
  <2>2. ASSUME NEW i \in DOMAIN chain.impl
        PROVE  /\ DOMAIN chain.impl[i] = {"state", "proxy", "manager"}
               /\ chain.impl[i].state \in DOMAIN chain.state /\ chain.impl[i].proxy \in DOMAIN chain.routes
    <3>1. PICK m \in Existing, part \in Kind : i = At(tg, m, part)
      BY <1>6
    <3>2. i[1] = m
      BY <1>8, <3>1
    <3>3. chain.impl[i] = [state |-> At(tg, m, State), proxy |-> At(tg, m, Proxy), manager |-> 1]
      BY <1>6, <3>2
    <3>4. QED
      BY <1>4, <1>5, <3>3
  <2>3. QED
    BY <2>1, <2>2 DEF Built
<1>16. OnLastState
  <2>1. ASSUME NEW m \in ToSet(Market), NEW part \in Mutating, Deployed(targets, m, part)
        PROVE  chain.impl[At(targets, m, part)].state = At(targets, m, State)
    <3>1. PICK i : i = At(tg, m, part)
      OBVIOUS
    <3>2. m \in Existing
      BY <1>3, <1>13, <2>1
    <3>3. i \in DOMAIN chain.impl /\ i[1] = m
      BY <1>3, <1>8, <1>9, <3>1, <3>2
    <3>4. chain.impl[i] = [state |-> At(tg, m, State), proxy |-> At(tg, m, Proxy), manager |-> 1]
      BY <1>6, <3>3
    <3>5. chain.impl[i].state = At(tg, m, State)
      BY <3>4
    <3>6. QED
      BY <1>1, <3>1, <3>5
  <2>2. QED
    BY <1>1, <2>1 DEF OnLastState
<1>17. ASSUME NEW p \in DOMAIN chain.routes PROVE Routed(chain, p) /\ Consistent(chain, p)
  <2>1. PICK m \in Existing : p = At(tg, m, Proxy)
    BY <1>4
  <2>2. p[1] = m /\ chain.routes[p] = Wanted(tg, m)
    BY <1>4, <1>8, <2>1
  <2>3. IsFiniteSet(chain.routes[p])
    <3>1. \A part \in Kind : tg[<<m, part>>] \in Nat \ {0}
      BY <1>2, <1>3, InitNames DEF tg
    <3>2. QED
      BY <2>2, <3>1, WantedFinite
  <2>4. /\ \A r \in chain.routes[p] : \E part \in Kind : r.to = At(tg, m, part)
        /\ \A r, q \in chain.routes[p] : r.selector = q.selector => r = q
    <3>1. PICK W : W = Wanted(tt, m)
      OBVIOUS
    <3>2. /\ \A r \in Wanted(tt, m) : \E part \in Kind :
                r.to = At(tt, m, part) /\ r.selector \in selectors(part, tt[<<m, part>>])
          /\ \A r, q \in Wanted(tt, m) : r.selector = q.selector => r = q
      BY EachWanted
    <3>3. chain.routes[p] = W /\ \A part : At(tt, m, part) = At(tg, m, part)
      BY <1>23, <2>2, <3>1
    <3>4. QED
      BY <3>1, <3>2, <3>3
  <2>5. Routed(chain, p)
    BY <1>8, <1>9, <2>2, <2>3, <2>4 DEF Routed
  <2>6. PICK s \in DOMAIN chain.state : s = At(tg, m, State)
    BY <1>5
  <2>7. s[1] = m /\ chain.state[s].initialized /\ chain.state[s].associated = MutatingAt(tg, m)
    BY <1>8, <1>24, <2>6
  <2>8. ASSUME NEW r \in chain.routes[p], r.to[2] \in Mutating
        PROVE  chain.impl[r.to].state = s /\ r.to \in chain.state[s].associated /\ chain.impl[r.to].proxy = p
    <3>1. PICK part \in Kind : r.to = At(tg, m, part)
      BY <2>4
    <3>2. part \in Mutating /\ r.to[1] = m /\ r.to \in DOMAIN chain.impl
      BY <1>8, <1>9, <2>8, <3>1
    <3>3. r.to \in MutatingAt(tg, m)
      BY <3>1, <3>2 DEF MutatingAt
    <3>4. chain.impl[r.to] = [state |-> At(tg, m, State), proxy |-> At(tg, m, Proxy), manager |-> 1]
      BY <1>6, <3>2
    <3>5. QED
      BY <2>1, <2>6, <2>7, <3>3, <3>4
  <2>9. Consistent(chain, p)
    BY <2>2, <2>6, <2>7, <2>8 DEF Consistent
  <2>10. QED
    BY <2>5, <2>9
<1>18. KnownOK
  <2>1. Single(DOMAIN known)
    BY <1>4, <1>7, <1>8 DEF Single
  <2>2. QED
    BY <1>7, <1>17, <2>1 DEF KnownOK, Sound
<1>19. HowFar /\ ImportOK /\ DoneOK
  BY <1>1 DEF HowFar, ImportOK, DoneOK, Linking, Initialized, Associated, Linked
<1>20. CompleteOK
  BY <1>1, <1>7, <1>17 DEF CompleteOK
<1>21. QED
  BY <1>0, <1>10, <1>11, <1>12, <1>14, <1>15, <1>16, <1>17, <1>18, <1>19, <1>20 DEF MInv, Contracted

(* As many selectors as routes.                                            *)
LEMMA SelectorsOnce ==
  ASSUME NEW rs, IsFiniteSet(rs), \A r, q \in rs : r.selector = q.selector => r = q
  PROVE  Cardinality(Selectors(rs)) = Cardinality(rs)
<1> DEFINE f == [r \in rs |-> r.selector]
           T == Selectors(rs)
<1>1. f \in [rs -> T] /\ \A r \in rs : f[r] = r.selector
  BY DEF Selectors
<1>2. \A t \in T : \E r \in rs : f[r] = t
  BY DEF Selectors
<1> HIDE DEF f, T
<1>3. f \in Surjection(rs, T)
  BY <1>1, <1>2 DEF Surjection
<1>4. f \in Injection(rs, T)
  BY <1>1 DEF Injection, IsInjective
<1>5. Cardinality(T) = Cardinality(rs)
  BY <1>3, <1>4, FS_Surjection
<1>6. QED
  BY <1>5 DEF T

LEMMA MInvIsConsistent == MInv => MarketsConsistent
<1> SUFFICES ASSUME MInv PROVE MarketsConsistent
  OBVIOUS
<1>0. Contracted /\ KnownOK /\ Statuses /\ ChainOK
  BY DEF MInv, RInv, IInv
<1>1. config \subseteq Name /\ targets \in [Name -> 0..(MaxReleases + 1)]
  <2>1. config \subseteq Name /\ targets \in [Name -> Nat]
    BY <1>0 DEF Contracted, Counted
  <2>2. ASSUME NEW n \in Name PROVE targets[n] \in 0..(MaxReleases + 1)
    <3>1. targets[n] \in Nat /\ history.releases \in Nat /\ history.releases <= MaxReleases /\ MaxReleases \in Nat
          /\ targets[n] + (IF n \in config THEN 1 ELSE 0) <= history.releases + 1
      BY <1>0, MarketAssumption DEF Contracted, Counted
    <3>2. QED
      BY <3>1
  <2>3. QED
    BY <2>1, <2>2
<1>2. \A i \in DOMAIN chain.impl :
        chain.impl[i].state \in DOMAIN chain.state /\ chain.impl[i].proxy \in DOMAIN chain.routes
  BY <1>0 DEF Contracted, Built
<1>3. ASSUME NEW p \in DOMAIN chain.routes
      PROVE  /\ Targets(chain.routes[p]) \subseteq DOMAIN chain.impl
             /\ Cardinality(Selectors(chain.routes[p])) = Cardinality(chain.routes[p])
  <2>1. Routed(chain, p)
    BY <1>0 DEF Contracted
  <2>2. PICK rs : rs = chain.routes[p]
    OBVIOUS
  <2>3. IsFiniteSet(rs) /\ \A r, q \in rs : r.selector = q.selector => r = q
    BY <2>1, <2>2 DEF Routed
  <2>4. Cardinality(Selectors(rs)) = Cardinality(rs)
    BY <2>3, SelectorsOnce
  <2>5. QED
    BY <2>1, <2>2, <2>4 DEF Routed, Targets
<1>4. TypeOK
  BY <1>0, <1>1, <1>2, <1>3 DEF TypeOK, Statuses, ChainOK
<1>5. OpenMeansOneState
  <2>1. ASSUME NEW p \in DOMAIN known, p[1] \in history.opened, suspended[p[1]] = "no"
        PROVE  \E s \in DOMAIN chain.state :
                 /\ chain.state[s].initialized
                 /\ \A i \in {i \in Targets(chain.routes[p]) : i[2] \in Mutating} :
                      /\ chain.impl[i].state = s /\ i \in chain.state[s].associated
                      /\ chain.impl[i].proxy = p
    <3>1. Consistent(chain, p)
      BY <1>0, <2>1 DEF KnownOK, Sound
    <3>2. QED
      BY <3>1 DEF Consistent, Targets
  <2>2. QED
    BY <2>1 DEF OpenMeansOneState
<1>6. QED
  BY <1>4, <1>5 DEF MarketsConsistent

(* Every market that is open and was completed once trades on one state,   *)
(* wherever runs of the upgrade stopped, whatever guardians paused and     *)
(* opened meanwhile, and however many releases went before, if no release  *)
(* replaces the state of a market without what writes to it.               *)
THEOREM MarketsStayConsistent == ASSUME StateWithWriters PROVE Spec => []MarketsConsistent
<1>1. MInv /\ [Next]_vars => MInv'
  BY NextMInv
<1>2. QED
  BY <1>1, InitMInv, MInvIsConsistent, PTL DEF Spec

-----------------------------------------------------------------------------
(* A release of a state is none of the proxy before it, nor of the manager. *)
StateApart ==
  \A flagged \in Releases : \A m \in ToSet(Market) :
    <<m, State>> \in flagged => <<m, Proxy>> \notin flagged /\ Manager \notin flagged

(* A state that has still to take over from the one before it, and a        *)
(* market of which there is one, or will be in this release.                *)
Fresh(s) == ~chain.state[s].initialized /\ chain.state[s].legacy # none
TakesOver(m) ==
  \/ <<m, State>> \in config /\ Deployed(targets, m, State)
  \/ \E s \in DOMAIN chain.state : s[1] = m /\ Fresh(s)

(* Until then the manager stays, and it knows the market.                   *)
InPlace(m) ==
  /\ ~history.complete /\ Manager \notin config /\ proc.step # "import"
  /\ <<m, Proxy>> \notin config /\ Deployed(targets, m, Proxy)
  /\ At(targets, m, Proxy) \in DOMAIN known
  /\ proc.step \in OnMarket => m \in proc.existing
TakenInPlace == \A m \in ToSet(Market) : TakesOver(m) => InPlace(m)

(* It is the last one of its market.                                        *)
LastIsFresh ==
  \A s \in DOMAIN chain.state : Fresh(s) => s = At(targets, s[1], State) /\ <<s[1], State>> \notin config

(* A complete release leaves no market that the manager does not know, and  *)
(* a run of all markets no state that has not taken over.                   *)
CompleteKnows ==
  history.complete =>
    \A m \in ToSet(Market) : Deployed(targets, m, State) => At(targets, m, Proxy) \in DOMAIN known
TakenOver == Initialized \cup {"linkToMarketManager"} \cup Linked
Ahead == IF proc.step \in TakenOver THEN proc.todo \ {market} ELSE proc.todo
FreshAhead ==
  proc.step # "off" /\ proc.all => \A s \in DOMAIN chain.state : Fresh(s) => s[1] \in Ahead

TInv == MInv /\ TakenInPlace /\ LastIsFresh /\ CompleteKnows /\ FreshAhead

(* States are of markets, numbered from one.                                *)
LEMMA StateOfMarket ==
  ASSUME Contracted, NEW s \in DOMAIN chain.state
  PROVE  /\ s[1] \in ToSet(Market)
         /\ s = At(targets, s[1], State) => Deployed(targets, s[1], State)
<1>1. s \in Made(targets, {State})
  BY DEF Contracted, Placed
<1>2. PICK m \in ToSet(Market), part \in {State} : \E nr \in Numbers(targets, m, part) : s = <<m, part, nr>>
  BY <1>1, MadeIs
<1>3. PICK nr \in Numbers(targets, m, State) : s = <<m, State, nr>>
  BY <1>2
<1>4. targets \in [Name -> Nat] /\ {State} \in SUBSET Parts
  BY DEF Contracted, Counted, Parts
<1>5. s[1] = m
  BY <1>3
<1>6. At(targets, m, State) \in Made(targets, {State}) <=> Deployed(targets, m, State)
  BY <1>4, MadeAt
<1>7. QED
  BY <1>1, <1>2, <1>5, <1>6

(* Which states are there and are fresh changes in two steps only.          *)
SameFresh ==
  /\ DOMAIN chain'.state = DOMAIN chain.state
  /\ \A s \in DOMAIN chain.state : Fresh(s)' <=> Fresh(s)

LEMMA SameStates == ASSUME chain'.state = chain.state PROVE SameFresh
BY DEF SameFresh, Fresh

LEMMA AssociatedIsSame ==
  ASSUME ChainOK, Contracted, NEW s \in DOMAIN chain.state, NEW v,
         chain' = [chain EXCEPT !.state[s].associated = v]
  PROVE  SameFresh
<1>1. DOMAIN chain.state[s] = {"legacy", "initialized", "associated"}
  BY DEF Contracted, Built
<1>2. PICK now : now = [chain.state[s] EXCEPT !.associated = v]
  OBVIOUS
<1>3. now.legacy = chain.state[s].legacy /\ now.initialized = chain.state[s].initialized
  BY <1>1, <1>2
<1>4. chain'.state = [chain.state EXCEPT ![s] = now]
  BY <1>2 DEF ChainOK
<1>5. DOMAIN chain'.state = DOMAIN chain.state
      /\ \A t \in DOMAIN chain.state : chain'.state[t] = IF t = s THEN now ELSE chain.state[t]
  BY <1>4
<1>6. QED
  BY <1>3, <1>5 DEF SameFresh, Fresh

LEMMA NextSame ==
  ASSUME MInv, [Next]_vars, ~deployMarket, ~linkOrInitializeState
  PROVE  SameFresh
<1>0. ChainOK /\ Contracted /\ HowFar /\ TodoOK
  BY DEF MInv, RInv, IInv
<1>1. CASE enableInLegacy
  <2>1. proc.step = "legacy" /\ proc.step \in Linking
    BY <1>1 DEF enableInLegacy, Working, Linking, Initialized
  <2>2. PICK s \in DOMAIN chain.state : s = Here(State) /\ s[1] = market
    BY <1>0, <2>1, HereDeployed DEF Parts
  <2>3. state = chain.state[s] /\ state.legacy # none
    BY <1>0, <2>1, <2>2 DEF state, HowFar
  <2>4. PICK t \in DOMAIN chain.state : t = state.legacy
    BY <1>0, <2>2, <2>3 DEF Contracted, Built
  <2>5. chain' = [chain EXCEPT !.state[t].associated = @ \cup {Here(State)}]
    BY <1>1, <2>4 DEF enableInLegacy
  <2>6. chain' = [chain EXCEPT !.state[t].associated = chain.state[t].associated \cup {Here(State)}]
    BY <2>5
  <2>7. QED
    BY <1>0, <2>4, <2>6, AssociatedIsSame
<1>2. CASE linkToState
  <2>1. proc.step = "linkToState" /\ proc.step \in Linking
    BY <1>2 DEF linkToState, Working, Linking, Initialized
  <2>2. PICK s \in DOMAIN chain.state : s = Here(State) /\ s[1] = market
    BY <1>0, <2>1, HereDeployed DEF Parts
  <2>3. CASE chain' = chain
    BY <2>3, SameStates
  <2>4. CASE \E v : chain' = [chain EXCEPT !.state[s].associated = v]
    BY <1>0, <2>2, <2>4, AssociatedIsSame
  <2>5. chain' = chain
        \/ chain' = [chain EXCEPT !.state[s].associated = Filtered(chain.state[s].associated, MutatingAt(targets, market))]
    BY <1>2, <2>2 DEF linkToState
  <2>6. QED
    BY <2>3, <2>4, <2>5
<1>3. CASE ~enableInLegacy /\ ~linkToState
  <2>1. chain'.state = chain.state
    BY <1>0, <1>3 DEF Next, vars, Process, LinkMarket, PrepareDeploy, Start, DeployManager, ImportMarkets, StartMarkets,
       pauseMarket, linkToPerpsExchangeRate, setProxy, removeRoutes, addRoutes,
       rebuildCaches, linkToMarketManager, configureMarket, PausedMode, OffchainPausedMode, setPausedMode,
       resumeMarket, RevokeAccess, CleanupRates,
       RemoveRates, AddRates, CleanupMarkets, Finish, Crash, GuardianPauses,
       GuardianResumes, addProxiedMarkets, updateMarketsImplementations, Known, ChainOK
  <2>2. QED
    BY <2>1, SameStates
<1>4. QED
  BY <1>1, <1>2, <1>3

LEMMA InitializeFresh ==
  ASSUME MInv, linkOrInitializeState
  PROVE  /\ DOMAIN chain'.state = DOMAIN chain.state
         /\ \A s \in DOMAIN chain.state : Fresh(s)' <=> Fresh(s) /\ s # Here(State)
<1>0. ChainOK /\ Contracted /\ HowFar /\ TodoOK /\ proc.step \in Linking
  BY DEF MInv, RInv, IInv, linkOrInitializeState, Working, Linking
<1>1. PICK s \in DOMAIN chain.state : s = Here(State)
  BY <1>0, HereDeployed DEF Parts
<1>2. state = chain.state[s]
  BY <1>1 DEF state
<1>3. CASE state.initialized
  BY <1>1, <1>2, <1>3 DEF linkOrInitializeState, Fresh
<1>4. CASE ~state.initialized
  <2>1. chain' = [chain EXCEPT !.state[s].initialized = TRUE]
    BY <1>1, <1>2, <1>4 DEF linkOrInitializeState
  <2>2. DOMAIN chain.state[s] = {"legacy", "initialized", "associated"}
    BY <1>0 DEF Contracted, Built
  <2>3. PICK now : now = [chain.state[s] EXCEPT !.initialized = TRUE]
    OBVIOUS
  <2>4. now.initialized
    BY <2>2, <2>3
  <2>5. chain'.state = [chain.state EXCEPT ![s] = now]
    BY <1>0, <2>1, <2>3 DEF ChainOK
  <2>6. DOMAIN chain'.state = DOMAIN chain.state
        /\ \A t \in DOMAIN chain.state : chain'.state[t] = IF t = s THEN now ELSE chain.state[t]
    BY <2>5
  <2>7. QED
    BY <1>1, <2>4, <2>6 DEF Fresh
<1>5. QED
  BY <1>3, <1>4

(* A state that is deployed takes over if there is one before it.           *)
LEMMA MakesFresh ==
  ASSUME NEW m, NEW part, Makes(m, part), NEW s \in DOMAIN chain'.state, Fresh(s)'
  PROVE  \/ s \in DOMAIN chain.state /\ Fresh(s)
         \/ part = State /\ s = NextOf(m, State) /\ targets[<<m, State>>] # 0
<1>1. CASE part # State
  BY <1>1 DEF Makes, Fresh
<1>2. CASE part = State
  <2>1. chain'.state = Put(chain.state, NextOf(m, State), NewState(m))
    BY <1>2 DEF Makes
  <2>2. /\ DOMAIN chain'.state = DOMAIN chain.state \cup {NextOf(m, State)}
        /\ chain'.state[s] = IF s = NextOf(m, State) THEN NewState(m) ELSE chain.state[s]
    BY <2>1 DEF Put
  <2>3. CASE s = NextOf(m, State)
    <3>1. NewState(m).legacy # none
      BY <2>2, <2>3 DEF Fresh
    <3>2. targets[<<m, State>>] # 0
      BY <3>1 DEF NewState
    <3>3. QED
      BY <1>2, <2>3, <3>2
  <2>4. CASE s # NextOf(m, State)
    BY <2>2, <2>4 DEF Fresh
  <2>5. QED
    BY <2>3, <2>4
<1>3. QED
  BY <1>1, <1>2

(* The manager drops the current proxy of no market, unless it is replaced. *)
LEMMA KnownStays ==
  ASSUME MInv, [Next]_vars, ~(DeployManager /\ NeedsDeploy(Manager)),
         NEW m \in ToSet(Market), NEW p \in DOMAIN known, p = At(targets, m, Proxy), Deployed(targets, m, Proxy)
  PROVE  p \in DOMAIN known'
<1>0. IInv /\ ChainOK /\ StatusOK
  BY DEF MInv, RInv, IInv
<1>1. CASE linkToMarketManager
  BY <1>1, ManagerLinks
<1>2. CASE ImportMarkets
  <2>1. PICK markets : markets = [q \in DOMAIN known \cup proc.before |->
                                    IF q \in proc.before THEN Targets(chain.routes[q]) ELSE known[q]]
    OBVIOUS
  <2>2. chain' = Known(markets) /\ UNCHANGED targets /\ DOMAIN markets = DOMAIN known \cup proc.before
    BY <1>2, <2>1 DEF ImportMarkets, addProxiedMarkets
  <2>3. known' = markets
    BY <1>0, <2>2, SetKeeps
  <2>4. QED
    BY <2>2, <2>3
<1>3. CASE CleanupMarkets
  <2>1. PICK markets : markets = [q \in DOMAIN known \cap Current(Proxy) |-> known[q]]
    OBVIOUS
  <2>2. chain' = Known(markets) /\ UNCHANGED targets /\ DOMAIN markets = DOMAIN known \cap Current(Proxy)
    BY <1>3, <2>1 DEF CleanupMarkets
  <2>3. known' = markets
    BY <1>0, <2>2, SetKeeps
  <2>4. p \in Current(Proxy)
    BY DEF Current
  <2>5. QED
    BY <2>2, <2>3, <2>4
<1>4. CASE deployMarket
  BY <1>0, <1>4, DeployKeeps
<1>5. CASE ~(linkToMarketManager \/ ImportMarkets \/ CleanupMarkets \/ deployMarket)
  <2>1. Kept /\ UNCHANGED targets
    BY <1>0, <1>5 DEF Next, vars, Process, LinkMarket, PrepareDeploy, Start, DeployManager, StartMarkets,
       pauseMarket, linkOrInitializeState, enableInLegacy, linkToState, linkToPerpsExchangeRate, setProxy,
       removeRoutes, addRoutes, rebuildCaches, configureMarket, PausedMode, OffchainPausedMode, setPausedMode,
       resumeMarket, RevokeAccess, CleanupRates,
       RemoveRates, AddRates, Finish, Crash, GuardianPauses, GuardianResumes, ChainOK, Kept
  <2>2. QED
    BY <1>0, <2>1, KeptIsOK
<1>6. QED
  BY <1>1, <1>2, <1>3, <1>4, <1>5

(* The list of markets that is read once stays what it is.                  *)
LEMMA ListStays ==
  ASSUME MInv, [Next]_vars, ~StartMarkets, proc'.step \in OnMarket
  PROVE  proc.step \in OnMarket /\ proc'.existing = proc.existing
<1>0. IInv /\ ProcOK
  BY DEF MInv, RInv, IInv
<1>1. CASE deployMarket
  <2>1. proc.step = "deploy"
    BY <1>1 DEF deployMarket, Working
  <2>2. DOMAIN proc = Fields
    BY <1>0, <2>1 DEF ProcOK
  <2>3. QED
    BY <1>1, <2>1, <2>2, DeployMakes DEF Fields, OnMarket
<1>2. CASE pauseMarket \/ resumeMarket
  <2>1. proc.step \in OnMarket /\ DOMAIN proc = Fields
    BY <1>0, <1>2 DEF pauseMarket, resumeMarket, Working, OnMarket, Upgrading, ProcOK
  <2>2. proc'.existing = proc.existing
    BY <1>2, <2>1 DEF pauseMarket, resumeMarket, Fields
  <2>3. QED
    BY <2>1, <2>2
<1>3. CASE LinkMarket \/ configureMarket \/ PausedMode \/ OffchainPausedMode
  <2>1. proc.step \in OnMarket
    BY <1>3 DEF LinkMarket, linkOrInitializeState, enableInLegacy, linkToState, linkToPerpsExchangeRate, setProxy,
       removeRoutes, addRoutes, rebuildCaches, linkToMarketManager, configureMarket, PausedMode, OffchainPausedMode,
       setPausedMode, Working, OnMarket, Upgrading
  <2>2. proc' = proc \/ proc'.step = "off" \/ \E s : proc' = [proc EXCEPT !.step = s]
    BY <1>3 DEF LinkMarket, linkOrInitializeState, enableInLegacy, linkToState, linkToPerpsExchangeRate, setProxy,
       removeRoutes, addRoutes, rebuildCaches, linkToMarketManager, configureMarket, PausedMode, OffchainPausedMode,
       setPausedMode, Goto
  <2>3. proc.step # "off" /\ "off" \notin OnMarket
    BY <2>1 DEF OnMarket, Upgrading
  <2>4. CASE \E s : proc' = [proc EXCEPT !.step = s]
    BY <1>0, <2>1, <2>3, <2>4, GotoKeeps
  <2>5. QED
    BY <2>1, <2>2, <2>3, <2>4
<1>4. CASE GuardianPauses \/ GuardianResumes \/ PrepareDeploy \/ UNCHANGED vars
  BY <1>4 DEF GuardianPauses, GuardianResumes, PrepareDeploy, vars
<1>5. CASE (\E o \in Options : Start(o)) \/ Crash \/ Finish
  BY <1>5 DEF Start, Crash, Finish, OnMarket, Upgrading
<1>6. CASE DeployManager \/ ImportMarkets \/ RevokeAccess \/ CleanupRates \/ CleanupMarkets
  <2>1. DOMAIN proc = Fields
    BY <1>0, <1>6 DEF DeployManager, ImportMarkets, RevokeAccess, CleanupRates,
       RemoveRates, AddRates, CleanupMarkets, Working, ProcOK
  <2>2. /\ DeployManager => proc'.step \in {"import", "markets"}
        /\ ImportMarkets => proc'.step = "markets"
    BY <2>1 DEF DeployManager, ImportMarkets, Goto, Fields
  <2>3. /\ RevokeAccess => proc'.step = "cleanup"
        /\ CleanupRates => proc'.step \in {"finish", "off", "cleanupRates", "cleanupMarkets"}
        /\ CleanupMarkets => proc'.step = "finish"
    BY <2>1 DEF RevokeAccess, CleanupRates, RemoveRates, AddRates, CleanupMarkets, Goto, Fields
  <2>4. QED
    BY <1>6, <2>2, <2>3 DEF OnMarket, Upgrading
<1>7. QED
  BY <1>1, <1>2, <1>3, <1>4, <1>5, <1>6 DEF Next, Process

(* A new manager is deployed only when no state takes over.                 *)
LEMMA ManagerAlone ==
  ASSUME TInv, DeployManager, NeedsDeploy(Manager), NEW m \in ToSet(Market)
  PROVE  ~TakesOver(m)
<1>1. Manager \in config
  BY DEF TInv, MInv, RInv, IInv, ChainOK, NeedsDeploy
<1>2. QED
  BY <1>1 DEF TInv, TakenInPlace, InPlace

(* A release is complete with the step that finishes it, until the next.    *)
LEMMA CompleteThen ==
  ASSUME MInv, [Next]_vars, history'.complete
  PROVE  \/ /\ Finish /\ proc.all /\ config = {}
            /\ \A m \in ToSet(Market) : At(targets, m, Proxy) \in DOMAIN known
         \/ history.complete /\ ~deployMarket /\ ~linkOrInitializeState /\ UNCHANGED <<config, targets, chain>>
<1>0. StatusOK /\ CompleteOK
  BY DEF MInv, RInv, IInv
<1>1. CASE Finish
  BY <1>0, <1>1 DEF Finish, StatusOK
<1>2. CASE ~Finish
  <2>1. history.complete
    BY <1>0, <1>2 DEF Next, vars, Process, LinkMarket, DeployManager, ImportMarkets, StartMarkets, deployMarket, pauseMarket,
       linkOrInitializeState, enableInLegacy, linkToState, linkToPerpsExchangeRate, setProxy, removeRoutes, addRoutes,
       rebuildCaches, linkToMarketManager, configureMarket, PausedMode, OffchainPausedMode, setPausedMode,
       resumeMarket, RevokeAccess, CleanupRates,
       RemoveRates, AddRates, CleanupMarkets, Crash, StatusOK, PrepareDeploy, Start,
       GuardianPauses, GuardianResumes
  <2>2. proc.step = "off"
    BY <1>0, <2>1 DEF CompleteOK
  <2>3. \/ GuardianPauses \/ GuardianResumes \/ PrepareDeploy \/ (\E o \in Options : Start(o)) \/ UNCHANGED vars
    BY <2>2 DEF Next, Process, LinkMarket, DeployManager, ImportMarkets, StartMarkets, deployMarket, pauseMarket,
       linkOrInitializeState, enableInLegacy, linkToState, linkToPerpsExchangeRate, setProxy, removeRoutes, addRoutes,
       rebuildCaches, linkToMarketManager, configureMarket, PausedMode, OffchainPausedMode, setPausedMode,
       resumeMarket, RevokeAccess, CleanupRates, RemoveRates, AddRates, CleanupMarkets, Finish, Crash, Working
  <2>4. ~PrepareDeploy
    BY <1>0 DEF PrepareDeploy, StatusOK
  <2>5. UNCHANGED <<config, targets, chain>>
    BY <2>3, <2>4 DEF GuardianPauses, GuardianResumes, Start, vars
  <2>6. ~deployMarket /\ ~linkOrInitializeState
    BY <2>2 DEF deployMarket, linkOrInitializeState, Working
  <2>7. QED
    BY <2>1, <2>5, <2>6
<1>3. QED
  BY <1>1, <1>2

(* A run of all markets that comes to its end leaves no fresh state.        *)
LEMMA NoneAtEnd ==
  ASSUME TInv, Finish, proc.all, NEW s \in DOMAIN chain.state
  PROVE  ~Fresh(s)
<1>1. proc.step = "finish"
  BY DEF Finish, Working
<1>2. proc.todo = {} /\ Ahead = proc.todo
  BY <1>1 DEF TInv, MInv, DoneOK, Ahead, TakenOver, Initialized, Linked
<1>3. QED
  BY <1>1, <1>2 DEF TInv, FreshAhead

LEMMA NextCompleteKnows == TInv /\ [Next]_vars => CompleteKnows'
<1> SUFFICES ASSUME TInv, [Next]_vars, history'.complete,
                    NEW m \in ToSet(Market), Deployed(targets', m, State)
             PROVE  At(targets', m, Proxy) \in DOMAIN known'
  BY DEF CompleteKnows
<1>0. MInv
  BY DEF TInv
<1>1. CASE /\ Finish /\ proc.all /\ config = {}
           /\ \A k \in ToSet(Market) : At(targets, k, Proxy) \in DOMAIN known
  <2>1. UNCHANGED <<targets, chain>>
    BY <1>1 DEF Finish
  <2>2. QED
    BY <1>1, <2>1 DEF known
<1>2. CASE history.complete /\ UNCHANGED <<config, targets, chain>>
  <2>1. known' = known
    BY <1>2 DEF known
  <2>2. QED
    BY <1>2, <2>1 DEF TInv, CompleteKnows
<1>3. QED
  BY <1>0, <1>1, <1>2, CompleteThen

(* Fresh states stay the last of their markets.                             *)
LEMMA NextLastIsFresh == StateApart /\ TInv /\ [Next]_vars => LastIsFresh'
<1> SUFFICES ASSUME StateApart, TInv, [Next]_vars, NEW s \in DOMAIN chain'.state, Fresh(s)'
             PROVE  s = At(targets', s[1], State) /\ <<s[1], State>> \notin config'
  BY DEF LastIsFresh
<1>0. MInv /\ ChainOK /\ Contracted
  BY DEF TInv, MInv, RInv, IInv
<1>1. ASSUME NEW t \in DOMAIN chain.state, Fresh(t)
      PROVE  t[1] \in ToSet(Market) /\ t = At(targets, t[1], State) /\ <<t[1], State>> \notin config
             /\ Deployed(targets, t[1], State) /\ TakesOver(t[1]) /\ ~history.complete
  <2>1. t[1] \in ToSet(Market) /\ t = At(targets, t[1], State) /\ <<t[1], State>> \notin config
        /\ Deployed(targets, t[1], State)
    BY <1>0, <1>1, StateOfMarket DEF TInv, LastIsFresh
  <2>2. TakesOver(t[1])
    BY <1>1 DEF TakesOver
  <2>3. QED
    BY <2>1, <2>2 DEF TInv, TakenInPlace, InPlace
<1>2. CASE deployMarket
  <2>1. CASE UNCHANGED <<config, targets, chain>>
    BY <1>1, <2>1 DEF Fresh
  <2>2. ASSUME NEW part, Makes(market, part)
        PROVE  s = At(targets', s[1], State) /\ <<s[1], State>> \notin config'
    <3>1. PICK m : m = market
      OBVIOUS
    <3>2. Makes(m, part)
      BY <2>2, <3>1
    <3>3. /\ targets'[<<m, part>>] = targets[<<m, part>>] + 1 /\ config' = config \ {<<m, part>>}
          /\ \A k \in ToSet(Market), p \in Parts : <<k, p>> # <<m, part>> => targets'[<<k, p>>] = targets[<<k, p>>]
      BY <1>0, <3>2, MakesOneMore DEF OneMore, Makes
    <3>4. State \in Parts
      BY DEF Parts
    <3>5. CASE s \in DOMAIN chain.state /\ Fresh(s)
      <4>1. <<s[1], State>> # <<m, part>>
        <5>1. SUFFICES ASSUME <<s[1], State>> = <<m, part>> PROVE FALSE
          OBVIOUS
        <5>2. NeedsDeploy(<<s[1], State>>)
          BY <3>2, <5>1 DEF Makes
        <5>3. QED
          BY <1>1, <3>5, <5>2 DEF NeedsDeploy, Deployed
      <4>2. QED
        BY <1>1, <3>3, <3>4, <3>5, <4>1 DEF At
    <3>6. CASE part = State /\ s = NextOf(m, State)
      <4>1. s[1] = m
        BY <3>6 DEF NextOf
      <4>2. QED
        BY <3>3, <3>6, <4>1 DEF At, NextOf
    <3>7. \/ s \in DOMAIN chain.state /\ Fresh(s)
          \/ part = State /\ s = NextOf(m, State) /\ targets[<<m, State>>] # 0
      BY <3>2, MakesFresh
    <3>8. QED
      BY <3>5, <3>6, <3>7
  <2>3. QED
    BY <1>0, <1>2, <2>1, <2>2, DeployMakes
<1>3. CASE ~deployMarket
  <2>1. s \in DOMAIN chain.state /\ Fresh(s)
    <3>1. CASE linkOrInitializeState
      BY <1>0, <3>1, InitializeFresh
    <3>2. CASE ~linkOrInitializeState
      BY <1>0, <1>3, <3>2, NextSame DEF SameFresh
    <3>3. QED
      BY <3>1, <3>2
  <2>2. ~PrepareDeploy
    BY <1>1, <2>1 DEF PrepareDeploy
  <2>3. config' \subseteq config /\ targets'[<<s[1], State>>] = targets[<<s[1], State>>]
    <3>1. CASE DeployManager
      <4>1. config' \subseteq config
        BY <3>1 DEF DeployManager
      <4>2. QED
        BY <1>0, <1>1, <2>1, <3>1, <4>1, ManagerKeeps DEF Parts
    <3>2. CASE ~DeployManager
      <4>1. UNCHANGED <<config, targets>>
        BY <1>3, <2>2, <3>2 DEF Next, vars, Process, LinkMarket, Start, ImportMarkets, StartMarkets, pauseMarket,
           linkOrInitializeState, enableInLegacy, linkToState, linkToPerpsExchangeRate, setProxy, removeRoutes,
           addRoutes, rebuildCaches, linkToMarketManager, configureMarket, PausedMode, OffchainPausedMode,
           setPausedMode, resumeMarket, RevokeAccess, CleanupRates,
           RemoveRates, AddRates, CleanupMarkets, Finish, Crash, GuardianPauses,
           GuardianResumes
      <4>2. QED
        BY <4>1
    <3>3. QED
      BY <3>1, <3>2
  <2>4. QED
    BY <1>1, <2>1, <2>3 DEF At
<1>4. QED
  BY <1>2, <1>3

(* A market is passed with the step that initializes its state.             *)
LEMMA StepsBack ==
  ASSUME MInv, Next, ~linkOrInitializeState, proc'.step \in TakenOver
  PROVE  proc.step \in TakenOver
<1>0. ProcOK
  BY DEF MInv, RInv, IInv
<1>1. "off" \notin TakenOver /\ {"manager", "import", "markets", "deploy", "pauseMarket", "initialize"} \cap TakenOver = {}
      /\ After \cap TakenOver = {}
  BY DEF TakenOver, Initialized, Linked, After
<1>2. CASE LinkMarket \/ configureMarket \/ PausedMode \/ OffchainPausedMode \/ resumeMarket
  BY <1>2 DEF LinkMarket, enableInLegacy, linkToState, linkToPerpsExchangeRate, setProxy, removeRoutes, addRoutes,
     rebuildCaches, linkToMarketManager, configureMarket, PausedMode, OffchainPausedMode, setPausedMode,
     resumeMarket, Working, TakenOver, Initialized, Linked
<1>3. CASE deployMarket
  <2>1. proc.step = "deploy" /\ DOMAIN proc = Fields
    BY <1>0, <1>3 DEF deployMarket, Working, ProcOK
  <2>2. proc'.step \in {"deploy", "pauseMarket"}
    BY <1>3, <2>1, DeployMakes DEF Fields
  <2>3. QED
    BY <1>1, <2>2
<1>4. CASE pauseMarket
  <2>1. proc'.step = "initialize"
    BY <1>0, <1>4 DEF pauseMarket, Working, ProcOK, Fields
  <2>2. QED
    BY <1>1, <2>1
<1>5. CASE GuardianPauses \/ GuardianResumes \/ PrepareDeploy
  BY <1>5 DEF GuardianPauses, GuardianResumes, PrepareDeploy
<1>6. CASE (\E o \in Options : Start(o)) \/ Crash \/ Finish
  <2>1. proc'.step \in {"manager", "off"}
    BY <1>6 DEF Start, Crash, Finish
  <2>2. QED
    BY <1>1, <2>1
<1>7. CASE DeployManager \/ ImportMarkets \/ StartMarkets \/ RevokeAccess \/ CleanupRates \/ CleanupMarkets
  <2>1. DOMAIN proc = Fields
    BY <1>0, <1>7 DEF DeployManager, ImportMarkets, StartMarkets, RevokeAccess, CleanupRates,
       RemoveRates, AddRates, CleanupMarkets,
       Working, ProcOK
  <2>2. /\ DeployManager => proc'.step \in {"import", "markets"}
        /\ ImportMarkets => proc'.step = "markets"
        /\ StartMarkets => proc'.step \in {"cleanup", "deploy"}
    BY <2>1 DEF DeployManager, ImportMarkets, StartMarkets, Goto, Fields
  <2>3. /\ RevokeAccess => proc'.step = "cleanup"
        /\ CleanupRates => proc'.step \in {"finish", "off", "cleanupRates", "cleanupMarkets"}
        /\ CleanupMarkets => proc'.step = "finish"
    BY <2>1 DEF RevokeAccess, CleanupRates, RemoveRates, AddRates, CleanupMarkets, Goto, Fields
  <2>4. QED
    BY <1>1, <1>7, <2>2, <2>3 DEF After
<1>8. QED
  BY <1>2, <1>3, <1>4, <1>5, <1>6, <1>7 DEF Next, Process

(* In a run of all markets, only those ahead have fresh states.             *)
LEMMA NextFreshAhead == StateApart /\ TInv /\ [Next]_vars => FreshAhead'
<1> SUFFICES ASSUME StateApart, TInv, [Next]_vars, proc'.step # "off", proc'.all,
                    NEW s \in DOMAIN chain'.state, Fresh(s)'
             PROVE  s[1] \in Ahead'
  BY DEF FreshAhead
<1>0. MInv /\ IInv /\ ProcOK /\ TodoOK /\ Contracted /\ HowFar
  BY DEF TInv, MInv, RInv, IInv
<1>1. CASE \E o \in Options : Start(o)
  <2>1. PICK o \in Options : Start(o)
    BY <1>1
  <2>2. /\ proc'.step = "manager" /\ proc'.todo = o.markets /\ (proc'.all <=> o.markets = ToSet(Market))
        /\ chain' = chain
    BY <2>1 DEF Start
  <2>3. Ahead' = ToSet(Market)
    BY <2>2 DEF Ahead, TakenOver, Initialized, Linked
  <2>4. QED
    BY <1>0, <2>2, <2>3, StateOfMarket
<1>2. CASE resumeMarket
  <2>1. /\ proc.step = "resumeMarket" /\ proc'.todo = proc.todo \ {market}
        /\ proc'.step \in {"revoke", "deploy"} /\ proc'.all = proc.all
    BY <1>0, <1>2 DEF resumeMarket, Working, ProcOK, Fields
  <2>2. Ahead = proc.todo \ {market} /\ Ahead' = proc'.todo
    BY <2>1 DEF Ahead, TakenOver, Initialized, Linked
  <2>3. ~deployMarket /\ ~linkOrInitializeState
    BY <2>1 DEF deployMarket, linkOrInitializeState, Working
  <2>4. s \in DOMAIN chain.state /\ Fresh(s)
    BY <1>0, <2>3, NextSame DEF SameFresh
  <2>5. s[1] \in Ahead
    BY <2>1, <2>4 DEF TInv, FreshAhead
  <2>6. QED
    BY <2>1, <2>2, <2>5
<1>3. CASE deployMarket
  <2>1. proc.step = "deploy" /\ market \in proc.todo /\ DOMAIN proc = Fields
    <3>1. proc.step = "deploy"
      BY <1>3 DEF deployMarket, Working
    <3>2. QED
      BY <1>0, <3>1, MarketIsKnown DEF OnMarket, ProcOK
  <2>2. proc'.step \in {"deploy", "pauseMarket"} /\ proc'.todo = proc.todo /\ proc'.all = proc.all
    BY <1>0, <1>3, <2>1, DeployMakes DEF Fields
  <2>3. Ahead = proc.todo /\ Ahead' = proc.todo
    BY <2>1, <2>2 DEF Ahead, TakenOver, Initialized, Linked
  <2>4. CASE chain' = chain
    BY <2>1, <2>2, <2>3, <2>4 DEF TInv, FreshAhead, Fresh
  <2>5. ASSUME NEW part, Makes(market, part) PROVE s[1] \in proc.todo
    <3>1. PICK m : m = market
      OBVIOUS
    <3>2. \/ s \in DOMAIN chain.state /\ Fresh(s)
          \/ part = State /\ s = NextOf(m, State) /\ targets[<<m, State>>] # 0
      <4>1. Makes(m, part)
        BY <2>5, <3>1
      <4>2. QED
        BY <4>1, MakesFresh
    <3>3. CASE s \in DOMAIN chain.state /\ Fresh(s)
      BY <2>1, <2>2, <2>3, <3>3 DEF TInv, FreshAhead
    <3>4. CASE s = NextOf(m, State)
      BY <2>1, <3>1, <3>4 DEF NextOf
    <3>5. QED
      BY <3>2, <3>3, <3>4
  <2>6. QED
    BY <1>0, <1>3, <2>3, <2>4, <2>5, DeployMakes
<1>4. CASE linkOrInitializeState
  <2>1. proc.step = "initialize" /\ DOMAIN proc = Fields
    BY <1>0, <1>4 DEF linkOrInitializeState, Working, ProcOK
  <2>2. proc'.step \in {"legacy", "linkToState"} /\ proc'.todo = proc.todo /\ proc'.all = proc.all
    BY <1>4, <2>1 DEF linkOrInitializeState, Goto, Fields
  <2>3. Ahead = proc.todo /\ Ahead' = proc.todo \ {market}
    BY <2>1, <2>2 DEF Ahead, TakenOver, Initialized, Linked, market
  <2>4. s \in DOMAIN chain.state /\ Fresh(s) /\ s # Here(State)
    BY <1>0, <1>4, InitializeFresh
  <2>5. s[1] \in Ahead /\ s = At(targets, s[1], State)
    BY <2>1, <2>2, <2>4 DEF TInv, FreshAhead, LastIsFresh
  <2>6. s[1] # market
    BY <2>4, <2>5 DEF Here
  <2>7. QED
    BY <2>3, <2>5, <2>6
<1>5. CASE Next /\ proc.step # "off" /\ ~resumeMarket /\ ~deployMarket /\ ~linkOrInitializeState
  <2>1. proc'.todo = proc.todo /\ proc'.all = proc.all
    BY <1>0, <1>5, RunSteps
  <2>2. proc'.step \in TakenOver => proc.step \in TakenOver
    BY <1>0, <1>5, StepsBack
  <2>3. market' = market
    BY <2>1 DEF market
  <2>4. Ahead \subseteq Ahead'
    BY <2>1, <2>2, <2>3 DEF Ahead
  <2>5. s \in DOMAIN chain.state /\ Fresh(s)
    BY <1>0, <1>5, NextSame DEF SameFresh
  <2>6. QED
    BY <1>5, <2>1, <2>4, <2>5 DEF TInv, FreshAhead
<1>6. CASE UNCHANGED vars
  <2>1. UNCHANGED <<proc, chain>>
    BY <1>6 DEF vars
  <2>2. Ahead' = Ahead
    BY <2>1 DEF Ahead, market
  <2>3. QED
    BY <2>1, <2>2 DEF TInv, FreshAhead, Fresh
<1>7. CASE proc.step = "off" /\ Next
  BY <1>1, <1>7 DEF Next, Process, LinkMarket, PrepareDeploy, DeployManager, ImportMarkets, StartMarkets, deployMarket,
     pauseMarket, linkOrInitializeState, enableInLegacy, linkToState, linkToPerpsExchangeRate, setProxy,
     removeRoutes, addRoutes, rebuildCaches, linkToMarketManager, configureMarket, PausedMode,
     OffchainPausedMode, setPausedMode, resumeMarket, RevokeAccess, CleanupRates,
     RemoveRates, AddRates, CleanupMarkets, Finish, Crash,
     GuardianPauses, GuardianResumes, Working
<1>8. QED
  BY <1>2, <1>3, <1>4, <1>5, <1>6, <1>7

(* No step but the beginning of a release has a market take over.           *)
LEMMA TakesBack ==
  ASSUME MInv, [Next]_vars, ~PrepareDeploy, NEW m \in ToSet(Market), TakesOver(m)'
  PROVE  TakesOver(m) /\ config' \subseteq config
<1>0. Contracted /\ ChainOK /\ State \in Parts
  BY DEF MInv, RInv, IInv, Parts
<1>1. CASE deployMarket
  <2>1. CASE UNCHANGED <<config, targets, chain>>
    BY <2>1 DEF TakesOver, Fresh, Deployed
  <2>2. ASSUME NEW part, Makes(market, part) PROVE TakesOver(m) /\ config' \subseteq config
    <3>1. PICK k : k = market
      OBVIOUS
    <3>2. Makes(k, part)
      BY <2>2, <3>1
    <3>3. /\ config' = config \ {<<k, part>>}
          /\ \A l \in ToSet(Market), p \in Parts : <<l, p>> # <<k, part>> => targets'[<<l, p>>] = targets[<<l, p>>]
      BY <1>0, <3>2, MakesOneMore DEF OneMore, Makes
    <3>4. CASE <<m, State>> \in config' /\ Deployed(targets', m, State)
      BY <1>0, <3>3, <3>4 DEF TakesOver, Deployed
    <3>5. CASE \E s \in DOMAIN chain'.state : s[1] = m /\ Fresh(s)'
      <4>1. PICK s \in DOMAIN chain'.state : s[1] = m /\ Fresh(s)'
        BY <3>5
      <4>2. \/ s \in DOMAIN chain.state /\ Fresh(s)
            \/ part = State /\ s = NextOf(k, State) /\ targets[<<k, State>>] # 0
        BY <3>2, <4>1, MakesFresh
      <4>3. CASE s \in DOMAIN chain.state /\ Fresh(s)
        BY <3>3, <4>1, <4>3 DEF TakesOver
      <4>4. CASE part = State /\ s = NextOf(k, State) /\ targets[<<k, State>>] # 0
        <5>1. k = m
          BY <4>1, <4>4 DEF NextOf
        <5>2. <<m, State>> \in config
          BY <3>2, <4>4, <5>1 DEF Makes, NeedsDeploy
        <5>3. QED
          BY <3>3, <4>4, <5>1, <5>2 DEF TakesOver, Deployed
      <4>5. QED
        BY <4>2, <4>3, <4>4
    <3>6. QED
      BY <3>4, <3>5 DEF TakesOver
  <2>3. QED
    BY <1>1, <2>1, <2>2, DeployMakes
<1>2. CASE ~deployMarket
  <2>1. config' \subseteq config /\ targets'[<<m, State>>] = targets[<<m, State>>]
    <3>1. CASE DeployManager
      <4>1. config' \subseteq config
        BY <3>1 DEF DeployManager
      <4>2. QED
        BY <1>0, <3>1, <4>1, ManagerKeeps
    <3>2. CASE ~DeployManager
      <4>1. UNCHANGED <<config, targets>>
        BY <1>2, <3>2 DEF Next, vars, Process, LinkMarket, Start, ImportMarkets, StartMarkets, pauseMarket,
           linkOrInitializeState, enableInLegacy, linkToState, linkToPerpsExchangeRate, setProxy, removeRoutes,
           addRoutes, rebuildCaches, linkToMarketManager, configureMarket, PausedMode, OffchainPausedMode,
           setPausedMode, resumeMarket, RevokeAccess, CleanupRates,
           RemoveRates, AddRates, CleanupMarkets, Finish, Crash, GuardianPauses,
           GuardianResumes
      <4>2. QED
        BY <4>1
    <3>3. QED
      BY <3>1, <3>2
  <2>2. \A s \in DOMAIN chain'.state : Fresh(s)' => s \in DOMAIN chain.state /\ Fresh(s)
    <3>1. CASE linkOrInitializeState
      BY <3>1, InitializeFresh
    <3>2. CASE ~linkOrInitializeState
      BY <1>2, <3>2, NextSame DEF SameFresh
    <3>3. QED
      BY <3>1, <3>2
  <2>3. QED
    BY <2>1, <2>2 DEF TakesOver, Deployed
<1>3. QED
  BY <1>1, <1>2

(* A market with a state to take over keeps its place.                      *)
LEMMA NextTakenInPlace == StateApart /\ TInv /\ [Next]_vars => TakenInPlace'
<1> SUFFICES ASSUME StateApart, TInv, [Next]_vars, NEW m \in ToSet(Market), TakesOver(m)'
             PROVE  InPlace(m)'
  BY DEF TakenInPlace
<1>0. MInv /\ IInv /\ ChainOK /\ StatusOK /\ ProcOK /\ Contracted /\ CompleteOK /\ Proxy \in Parts
  BY DEF TInv, MInv, RInv, IInv, Parts
<1>1. CASE PrepareDeploy
  <2>1. PICK flagged \in Releases : config' = flagged
    BY <1>1 DEF PrepareDeploy
  <2>2. /\ history.complete /\ ~history'.complete /\ UNCHANGED <<targets, chain, proc>> /\ proc.step = "off"
    BY <1>0, <1>1 DEF PrepareDeploy, StatusOK
  <2>3. ~\E s \in DOMAIN chain.state : s[1] = m /\ Fresh(s)
    BY <2>2 DEF TInv, TakenInPlace, InPlace, TakesOver
  <2>4. <<m, State>> \in flagged /\ Deployed(targets, m, State)
    BY <2>1, <2>2, <2>3 DEF TakesOver, Fresh, Deployed
  <2>5. <<m, Proxy>> \notin config' /\ Manager \notin config'
    BY <2>1, <2>4 DEF StateApart
  <2>6. Deployed(targets, m, Proxy) /\ At(targets, m, Proxy) \in DOMAIN known
    BY <1>0, <2>2, <2>4 DEF TInv, CompleteKnows, Contracted, OneAfterAnother
  <2>7. known' = known
    BY <2>2 DEF known
  <2>8. QED
    BY <2>2, <2>5, <2>6, <2>7 DEF InPlace, Deployed, At, OnMarket, Upgrading
<1>2. CASE ~PrepareDeploy
  <2>1. TakesOver(m) /\ config' \subseteq config
    BY <1>0, <1>2, TakesBack
  <2>2. InPlace(m)
    BY <2>1 DEF TInv, TakenInPlace
  <2>3. ~(DeployManager /\ NeedsDeploy(Manager))
    BY <2>1, ManagerAlone
  <2>4. ~history'.complete
    <3>1. ~history.complete
      BY <2>2 DEF InPlace
    <3>2. ~(Finish /\ proc.all /\ config = {})
      BY <2>1, NoneAtEnd DEF TakesOver
    <3>3. QED
      BY <1>0, <3>1, <3>2, CompleteThen
  <2>5. proc'.step # "import"
    <3>1. proc.step # "import"
      BY <2>2 DEF InPlace
    <3>2. CASE proc' = proc
      BY <3>1, <3>2
    <3>3. CASE proc.step = "off"
      <4>1. proc' = proc \/ \E o \in Options : Start(o)
        BY <3>3 DEF Next, vars, Process, LinkMarket, PrepareDeploy, DeployManager, ImportMarkets, StartMarkets, deployMarket,
           pauseMarket, linkOrInitializeState, enableInLegacy, linkToState, linkToPerpsExchangeRate, setProxy,
           removeRoutes, addRoutes, rebuildCaches, linkToMarketManager, configureMarket, PausedMode,
           OffchainPausedMode, setPausedMode, resumeMarket, RevokeAccess, CleanupRates,
           RemoveRates, AddRates, CleanupMarkets, Finish, Crash,
           GuardianPauses, GuardianResumes, Working
      <4>2. (\E o \in Options : Start(o)) => proc'.step = "manager"
        BY DEF Start
      <4>3. QED
        BY <3>2, <4>1, <4>2
    <3>4. CASE Next /\ proc.step # "off" /\ proc' # proc
      <4>0. DOMAIN proc = Fields
        BY <1>0, <3>4 DEF ProcOK
      <4>1. CASE LinkMarket \/ configureMarket \/ PausedMode \/ OffchainPausedMode \/ Crash \/ Finish
        <5>1. proc'.step = "off" \/ \E s \in Upgrading : proc' = [proc EXCEPT !.step = s]
          BY <3>4, <4>1 DEF LinkMarket, linkOrInitializeState, enableInLegacy, linkToState, linkToPerpsExchangeRate, setProxy,
             removeRoutes, addRoutes, rebuildCaches, linkToMarketManager, configureMarket, PausedMode,
             OffchainPausedMode, setPausedMode, Goto, Upgrading, Crash, Finish
        <5>2. "import" \notin Upgrading
          BY DEF Upgrading
        <5>3. QED
          BY <4>0, <5>1, <5>2 DEF Fields
      <4>2. CASE deployMarket \/ pauseMarket \/ resumeMarket
        <5>1. deployMarket => proc.step = "deploy"
          BY DEF deployMarket, Working
        <5>2. deployMarket => proc'.step \in {"deploy", "pauseMarket"}
          BY <1>0, <4>0, <5>1, DeployMakes DEF Fields
        <5>3. /\ pauseMarket => proc'.step = "initialize"
              /\ resumeMarket => proc'.step \in {"revoke", "deploy"}
          BY <4>0 DEF pauseMarket, resumeMarket, Fields
        <5>4. QED
          BY <4>2, <5>2, <5>3
      <4>3. CASE DeployManager \/ ImportMarkets \/ StartMarkets \/ RevokeAccess \/ CleanupRates \/ CleanupMarkets
        <5>1. /\ DeployManager => proc'.step = "markets"
              /\ ImportMarkets => proc'.step = "markets"
              /\ StartMarkets => proc'.step \in {"cleanup", "deploy"}
          BY <2>3, <4>0 DEF DeployManager, ImportMarkets, StartMarkets, Goto, Fields
        <5>2. /\ RevokeAccess => proc'.step = "cleanup"
              /\ CleanupRates => proc'.step \in {"finish", "off", "cleanupRates", "cleanupMarkets"}
              /\ CleanupMarkets => proc'.step = "finish"
          BY <4>0 DEF RevokeAccess, CleanupRates, RemoveRates, AddRates, CleanupMarkets, Goto, Fields
        <5>3. QED
          BY <4>3, <5>1, <5>2
      <4>4. CASE GuardianPauses \/ GuardianResumes \/ PrepareDeploy \/ \E o \in Options : Start(o)
        BY <3>4, <4>4 DEF GuardianPauses, GuardianResumes, PrepareDeploy, Start
      <4>5. QED
        BY <3>4, <4>1, <4>2, <4>3, <4>4 DEF Next, Process
    <3>5. QED
      BY <3>2, <3>3, <3>4 DEF vars
  <2>6. targets'[<<m, Proxy>>] = targets[<<m, Proxy>>]
    <3>1. CASE deployMarket
      <4>1. CASE UNCHANGED targets
        BY <4>1
      <4>2. ASSUME NEW part, Makes(market, part) PROVE targets'[<<m, Proxy>>] = targets[<<m, Proxy>>]
        <5>1. PICK k : k = market
          OBVIOUS
        <5>2. Makes(k, part)
          BY <4>2, <5>1
        <5>3. \A l \in ToSet(Market), p \in Parts : <<l, p>> # <<k, part>> => targets'[<<l, p>>] = targets[<<l, p>>]
          BY <1>0, <5>2, MakesOneMore DEF OneMore
        <5>4. ~NeedsDeploy(<<m, Proxy>>) /\ NeedsDeploy(<<k, part>>)
          BY <2>2, <5>2 DEF InPlace, NeedsDeploy, Deployed, Makes
        <5>5. QED
          BY <1>0, <5>3, <5>4
      <4>3. QED
        BY <1>0, <3>1, <4>1, <4>2, DeployMakes
    <3>2. CASE DeployManager
      BY <1>0, <3>2, ManagerKeeps
    <3>3. CASE ~deployMarket /\ ~DeployManager
      BY <1>2, <3>3 DEF Next, vars, Process, LinkMarket, Start, ImportMarkets, StartMarkets, pauseMarket,
         linkOrInitializeState, enableInLegacy, linkToState, linkToPerpsExchangeRate, setProxy, removeRoutes,
         addRoutes, rebuildCaches, linkToMarketManager, configureMarket, PausedMode, OffchainPausedMode,
         setPausedMode, resumeMarket, RevokeAccess, CleanupRates,
         RemoveRates, AddRates, CleanupMarkets, Finish, Crash, GuardianPauses,
         GuardianResumes
    <3>4. QED
      BY <3>1, <3>2, <3>3
  <2>7. At(targets', m, Proxy) \in DOMAIN known'
    <3>1. PICK p \in DOMAIN known : p = At(targets, m, Proxy) /\ Deployed(targets, m, Proxy)
      BY <2>2 DEF InPlace
    <3>2. p \in DOMAIN known'
      BY <1>0, <2>3, <3>1, KnownStays
    <3>3. QED
      BY <2>6, <3>1, <3>2 DEF At
  <2>8. proc'.step \in OnMarket => m \in proc'.existing
    <3>1. CASE StartMarkets
      <4>1. PICK p \in DOMAIN known : p[1] = m
        BY <2>2 DEF InPlace, At
      <4>2. m \in Keys(DOMAIN known)
        BY <4>1 DEF Keys
      <4>3. DOMAIN proc = Fields
        BY <1>0, <3>1 DEF StartMarkets, Working, ProcOK
      <4>4. CASE proc.todo = {}
        BY <3>1, <4>3, <4>4 DEF StartMarkets, Goto, Fields, OnMarket, Upgrading
      <4>5. CASE proc.todo # {}
        BY <3>1, <4>2, <4>3, <4>5 DEF StartMarkets, Fields
      <4>6. QED
        BY <4>4, <4>5
    <3>2. CASE ~StartMarkets
      BY <1>0, <2>2, <3>2, ListStays DEF InPlace
    <3>3. QED
      BY <3>1, <3>2
  <2>9. QED
    BY <2>1, <2>2, <2>4, <2>5, <2>6, <2>7, <2>8 DEF InPlace, Deployed
<1>3. QED
  BY <1>1, <1>2

LEMMA InitTInv == Init => TInv
<1> SUFFICES ASSUME Init PROVE TInv
  OBVIOUS
<1>0. MInv
  BY InitMInv
<1>1. \A s \in DOMAIN chain.state : ~Fresh(s)
  BY DEF Init, Fresh
<1>2. config = {} /\ proc.step = "off"
  BY DEF Init
<1>3. CompleteKnows
  <2>1. SUFFICES ASSUME NEW m \in ToSet(Market), Deployed(targets, m, State)
                 PROVE  At(targets, m, Proxy) \in DOMAIN known
    BY DEF CompleteKnows
  <2>2. targets = InitialTargets /\ State \in Parts /\ Proxy \in Parts
    BY DEF Init, Parts
  <2>3. m \in Existing
    BY <2>1, <2>2, InitNames DEF Deployed
  <2>4. targets[Manager] = 1
    BY <2>2, InitNames
  <2>5. DOMAIN known = {At(InitialTargets, k, Proxy) : k \in Existing}
    BY <2>4 DEF Init, known
  <2>6. QED
    BY <2>2, <2>3, <2>5
<1>4. QED
  BY <1>0, <1>1, <1>2, <1>3 DEF TInv, TakenInPlace, TakesOver, LastIsFresh, FreshAhead

(* Only the step for it initializes a state.                                *)
LEMMA LinkedOnlyThere ==
  ASSUME TInv, [Next]_vars, NEW s \in DOMAIN chain.state,
         ~chain.state[s].initialized, chain'.state[s].initialized, chain.state[s].legacy # none
  PROVE  suspended[s[1]] # "no"
<1>0. MInv /\ RInv /\ IInv /\ TodoOK /\ Contracted /\ HowFar
  BY DEF TInv, MInv, RInv, IInv
<1>1. Fresh(s) /\ s[1] \in ToSet(Market)
  BY <1>0, StateOfMarket DEF Fresh
<1>2. InPlace(s[1])
  BY <1>1 DEF TInv, TakenInPlace, TakesOver
<1>3. ~Fresh(s)'
  BY DEF Fresh
<1>4. CASE linkOrInitializeState
  <2>1. proc.step = "initialize" /\ proc.step \in OnMarket /\ proc.step \in Upgrading /\ proc.step \in Linking
    BY <1>4 DEF linkOrInitializeState, Working, OnMarket, Upgrading, Linking
  <2>2. s = Here(State)
    BY <1>0, <1>1, <1>3, <1>4, InitializeFresh
  <2>3. s[1] = market
    BY <2>2 DEF Here, At
  <2>4. ~newMarket
    BY <1>2, <2>1, <2>3 DEF InPlace, newMarket
  <2>5. QED
    BY <1>0, <2>1, <2>3, <2>4 DEF IInv, PausedMeanwhile
<1>5. CASE deployMarket
  <2>1. chain'.state[s] = chain.state[s]
    <3>1. CASE chain' = chain
      BY <3>1
    <3>2. ASSUME NEW part, Makes(market, part) PROVE chain'.state[s] = chain.state[s]
      <4>1. PICK m : m = market
        OBVIOUS
      <4>2. Makes(m, part) /\ m \in ToSet(Market)
        BY <3>2, <4>1 DEF Makes
      <4>3. NextOf(m, State) \notin DOMAIN chain.state
        <5>1. targets \in [Name -> Nat] /\ {State} \in SUBSET Parts
          BY <1>0 DEF Contracted, Counted, Parts
        <5>2. <<m, State, targets[<<m, State>>] + 1>> \notin Made(targets, {State})
          BY <4>2, <5>1, MadeAt
        <5>3. QED
          BY <1>0, <5>2 DEF Contracted, Placed, NextOf
      <4>4. CASE part = State
        BY <4>2, <4>3, <4>4 DEF Makes, Put
      <4>5. CASE part # State
        BY <4>2, <4>5 DEF Makes
      <4>6. QED
        BY <4>4, <4>5
    <3>3. QED
      BY <1>0, <1>5, <3>1, <3>2, DeployMakes
  <2>2. QED
    BY <2>1
<1>6. CASE ~linkOrInitializeState /\ ~deployMarket
  BY <1>0, <1>1, <1>3, <1>6, NextSame DEF SameFresh
<1>7. QED
  BY <1>4, <1>5, <1>6

(* A state takes over from the one before it only while its market is       *)
(* paused, wherever runs stopped before, if no release replaces a state     *)
(* together with the proxy before it or with the manager (or without what   *)
(* writes to it).                                                           *)
THEOREM TakenOverWhilePaused ==
  ASSUME StateWithWriters, StateApart PROVE Spec => LegacyLinkedWhilePaused
<1>1. TInv /\ [Next]_vars => TInv'
  BY NextMInv, NextTakenInPlace, NextLastIsFresh, NextCompleteKnows, NextFreshAhead DEF TInv
<1>2. TInv /\ [Next]_vars =>
        [\A s \in DOMAIN chain.state :
           ~chain.state[s].initialized /\ chain'.state[s].initialized /\ chain.state[s].legacy # none
             => suspended[s[1]] # "no"]_vars
  BY LinkedOnlyThere
<1>3. QED
  BY <1>1, <1>2, InitTInv, PTL DEF Spec, LegacyLinkedWhilePaused
=============================================================================
