----------------------------- MODULE Deployment -----------------------------
(***************************************************************************)
(* The deploy command against the chain: what one run of the script does,  *)
(* what it leaves in config.json, deployment.json and owner-actions.json,  *)
(* runs that stop half way, and runs that go on from what the files say.   *)
(*                                                                         *)
(* A contract is known by its address, a number that grows; fields are the *)
(* ones the script reads and writes, a resolver's are the names it holds.  *)
(* The owner performs the actions of the file between two runs.            *)
(***************************************************************************)
EXTENDS DeployScript, Integers, FiniteSets

CONSTANTS
  Name,                       \* the contracts of the instance
  Existing,                   \* those deployed before
  Ownerships,                 \* which of Existing the account that deploys may own
  resolverAddressesRequired,  \* what each contract keeps in its resolver cache
  Settings,                   \* the fields of SystemSettings that are looked at
  Releases,                   \* the sources that may be flagged, and the option addNewSynths
  specifyContracts,           \* the --specify-contracts option, {} if not given
  nonUpgradeable,             \* contracts that must not be deployed again
  ignoreSafetyChecks,         \* the option of this name
  addressesChunkSize,         \* 20 in the code
  MaxReleases, MaxCrashes     \* bounds

ASSUME InstanceAssumption ==
  /\ nonUpgradeable \subseteq Name /\ ignoreSafetyChecks \in BOOLEAN
  /\ Existing \subseteq Name /\ Ownerships \subseteq SUBSET Existing /\ specifyContracts \subseteq Name
  /\ Releases \subseteq [sources : SUBSET Name, addNewSynths : BOOLEAN]
  /\ resolverAddressesRequired \in [Name -> SUBSET Name]
  /\ addressesChunkSize \in Nat \ {0} /\ MaxReleases \in Nat /\ MaxCrashes \in Nat

VARIABLES
  config,        \* config.json: the flag of each contract
  versions,      \* versions.json: release by release, the contracts it has deployed
  targets,       \* deployment.json: the address of each contract, 0 if none
  ownerActions,  \* owner-actions.json, in the order of its keys
  chain,         \* the contracts, by address
  run,           \* the memory of the process
  last,          \* how the last run ended, and whether the command adds new synths
  history        \* what the properties look back at

vars == <<config, versions, targets, ownerActions, chain, run, last, history>>

-----------------------------------------------------------------------------
(* The script of the instance.                                               *)
NamesIn(value) == IF value.is = "address" THEN {value.of} ELSE {}
InInstance(op) ==
  CASE op.do \in {"deploy", "readOldSupply"} -> op.name \in Name
    [] op.do = "step" -> /\ {op.contract} \cup op.guard \cup NamesIn(op.value) \subseteq Name
                         /\ op.contract = "SystemSettings" => op.field \in Settings
    [] op.do = "importFeePeriods" -> "FeePool" \in Name
    [] op.do = "addSynthsToProtocol" -> "Issuer" \in Name
    [] OTHER -> TRUE
Script == SelectSeq(Everything, InInstance)
Steps == {op \in ToSet(Script) : op.do = "step"}

configured == -1   \* a setting as the parameters have it; 0: unset
FeePeriods == <<"period0", "period1">>
SynthField(name) == "synths" \o name
SynthNames == {ZassetOf(k) : k \in ToSet(Currency)} \cap Name
(* The settings are kept in FlexibleStorage.                                 *)
Keeper(name) == IF name = "SystemSettings" THEN "FlexibleStorage" ELSE name
FieldsOf == [n \in Name |->
  {op.field : op \in {s \in Steps : Keeper(s.contract) = n}}
  \cup (IF n = "AddressResolver" THEN Name ELSE {})
  \cup (IF n = "Issuer" THEN {SynthField(z) : z \in SynthNames} ELSE {})
  \cup (IF n = "FeePool" THEN ToSet(FeePeriods) ELSE {})]
DeployOp(n) == CHOOSE op \in ToSet(Script) : op.do = "deploy" /\ op.name = n

ValueOf(value, deployed) ==
  CASE value.is = "address" -> deployed[value.of]
    [] value.is = "zero" -> 0
    [] OTHER -> configured
Satisfied(step, have, want) ==
  CASE step.expected = "equals" -> have = want
    [] step.expected = "unset" -> have # 0
    [] step.expected = "always" -> TRUE

-----------------------------------------------------------------------------
(* The chain *)

NewContract(op, deployed) ==
  [name |-> op.name, owner |-> "deployer",
   fields |-> [f \in FieldsOf[op.name] |->
                 IF f \in DOMAIN op.init /\ NamesIn(op.init[f]) \subseteq Name
                 THEN ValueOf(op.init[f], deployed) ELSE 0],
   cached |-> [n \in resolverAddressesRequired[op.name] |-> 0]]

Resolver(ch, deployed) == ch[ch[deployed["ReadProxyAddressResolver"]].fields["target"]]
isResolverCached(ch, deployed, at) ==
  \A n \in DOMAIN ch[at].cached :
    LET known == Resolver(ch, deployed).fields[n] IN known # 0 /\ ch[at].cached[n] = known
rebuildCaches(ch, deployed, set) ==
  [at \in DOMAIN ch |-> IF at \notin set THEN ch[at]
     ELSE [ch[at] EXCEPT !.cached = [n \in DOMAIN @ |-> Resolver(ch, deployed).fields[n]]]]

KeeperAt(ch, at) ==
  IF ch[at].name = "SystemSettings" THEN ch[at].cached["FlexibleStorage"] ELSE at
Written(ch, at, writes) ==
  [ch EXCEPT ![KeeperAt(ch, at)].fields = [f \in DOMAIN @ |-> IF f \in DOMAIN writes THEN writes[f] ELSE @[f]]]
(* Issuer.addSynths reverts for a key that has a synth.                      *)
Reverts(ch, at, writes, once) == once /\ \E f \in DOMAIN writes : ch[at].fields[f] # 0

(* The contracts deployed before, connected to each other.                   *)
Old == LET ops == SelectSeq(Script, LAMBDA op : op.do = "deploy" /\ op.name \in Existing)
       IN  [i \in DOMAIN ops |-> ops[i].name]
OldAddress == [n \in Name |-> IF n \in Existing THEN CHOOSE i \in DOMAIN Old : Old[i] = n ELSE 0]
OldField(n, f) ==
  LET of == {s \in Steps : Keeper(s.contract) = n /\ s.field = f} IN
  CASE n = "AddressResolver" /\ f \in Name -> OldAddress[f]
    [] f \in {SynthField(z) : z \in SynthNames} ->
         OldAddress[CHOOSE z \in SynthNames : SynthField(z) = f]
    [] of # {} -> ValueOf((CHOOSE s \in of : TRUE).value, OldAddress)
    [] OTHER -> configured
OldChain(owned) == [i \in DOMAIN Old |->
  [name |-> Old[i], owner |-> IF Old[i] \in owned THEN "deployer" ELSE "owner",
   fields |-> [f \in FieldsOf[Old[i]] |-> OldField(Old[i], f)],
   cached |-> [n \in resolverAddressesRequired[Old[i]] |-> OldAddress[n]]]]

-----------------------------------------------------------------------------
Off == [on |-> FALSE]

Init ==
  /\ config = [n \in Name |-> IF n \in Existing THEN "reuse" ELSE "absent"]
  /\ versions = << [n \in Existing |-> [address |-> OldAddress[n], status |-> "current"]] >>
  /\ targets = OldAddress
  /\ ownerActions = <<>>
  /\ \E owned \in Ownerships : chain = OldChain(owned)
  /\ run = Off
  /\ last = [complete |-> TRUE, appended |-> FALSE, addNewSynths |-> FALSE]
  /\ history = [recorded |-> DOMAIN Old, sound |-> TRUE, flagged |-> 0,
                releases |-> 0, crashes |-> 0]

(* getVersions by contract, and the address that the last release with the   *)
(* contract gave it, which is what getExistingContract finds.                *)
byContract(n) ==
  LET with == SelectSeq(versions, LAMBDA contracts : n \in DOMAIN contracts) IN
  [i \in DOMAIN with |-> with[i][n]]
existing(n) == IF byContract(n) = <<>> THEN 0 ELSE Last(byContract(n)).address
Versioned == \A n \in Name : existing(n) = targets[n]

(* versions-update, run when a release is done: addresses that the file does *)
(* not have become the current ones of their contracts.                      *)
(* (Here no contract leaves deployment.json, and none becomes "deleted".)    *)
VersionsUpdate ==
  /\ ~run.on /\ last.complete /\ ~Versioned
  /\ LET recorded == UNION {{versions[i][m].address : m \in DOMAIN versions[i]} : i \in DOMAIN versions}
         found == {n \in Name : targets[n] \notin recorded \cup {0}} IN
     versions' = Append([i \in DOMAIN versions |-> [n \in DOMAIN versions[i] |->
                           IF n \in found THEN [versions[i][n] EXCEPT !.status = "replaced"] ELSE versions[i][n]]],
                        [n \in found |-> [address |-> targets[n], status |-> "current"]])
  /\ UNCHANGED <<config, targets, ownerActions, chain, run, last, history>>

(* What the script can deploy: with all that it depends on, and of the synths *)
(* only those that versions.json has (a new one comes by addNewSynths), for  *)
(* an issuer that does not have one by that name.                            *)
Deployable(sources) ==
  /\ \A n \in sources : \A d \in DeployOp(n).deps \cap Name : d \in sources \/ targets[d] # 0
  /\ \A z \in sources \cap SynthNames : existing(z) # 0 /\ "Issuer" \in sources

(* The release before is done and versions.json has its addresses, and       *)
(* prepare-deploy gives the sources of the next one the flag.  Every run of  *)
(* the release has the same options.                                         *)
PrepareDeploy(release) ==
  LET new == {n \in Name : config[n] = "absent" /\ DeployOp(n).force} IN
  /\ ~run.on /\ last.complete /\ Versioned /\ history.releases < MaxReleases
  /\ config' = [n \in Name |-> IF n \in release.sources THEN "deploy" ELSE config[n]]
  /\ last' = [last EXCEPT !.complete = FALSE, !.addNewSynths = release.addNewSynths]
  /\ history' = [history EXCEPT
       !.flagged = @ + Cardinality({n \in release.sources : config[n] # "deploy"}
                                   \cup (IF release.addNewSynths THEN new ELSE {})),
       !.sound = @ /\ Deployable(release.sources),
       !.releases = @ + 1]
  /\ UNCHANGED <<versions, targets, ownerActions, chain, run>>

(* With specifyContracts the flags of config.json are ignored, in memory.    *)
FlagsOf(file) ==
  IF specifyContracts = {} THEN file
  ELSE [n \in Name |-> IF n \in specifyContracts THEN "deploy"
                       ELSE IF file[n] = "absent" THEN "absent" ELSE "reuse"]

(* A flag on a contract that keeps its state, or on one of a new synth that  *)
(* begins with such a name, must be asked for.                               *)
performSafetyChecks(flags) ==
  ignoreSafetyChecks \/ \A n \in nonUpgradeable : flags[n] # "deploy"
(* The contracts of the release before must answer.                          *)
systemAndParameterCheck ==
  \A n \in {"Synthetix", "ExchangeRates", "SystemStatus"} \cap Name : existing(n) \in DOMAIN chain

(* deploy(): the files are read; contracts that are not flagged must have an *)
(* address.  There is nothing to run for once all is done.                   *)
Start ==
  /\ ~run.on /\ ~(last.complete /\ ~last.appended)
  /\ LET flags == FlagsOf(config) IN
       /\ performSafetyChecks(flags)
       /\ \A n \in Name : flags[n] = "reuse" => targets[n] # 0
       /\ systemAndParameterCheck
       /\ run' = [on |-> TRUE, at |-> 1, part |-> "begin", config |-> flags, updated |-> flags,
                  deployed |-> [n \in Name |-> 0], actions |-> ownerActions, todo |-> {},
                  appended |-> FALSE]
  /\ UNCHANGED <<config, versions, targets, ownerActions, chain, last, history>>

Op == Script[run.at]
Doing(what) == run.on /\ run.at \in DOMAIN Script /\ Op.do = what
Advance == [run EXCEPT !.at = @ + 1, !.part = "begin"]
Proceed == run' = Advance /\ UNCHANGED <<config, versions, targets, ownerActions, chain, last, history>>
(* An exception, or process.exit.                                            *)
Stop == run' = Off /\ last' = [last EXCEPT !.complete = FALSE, !.appended = FALSE]

-----------------------------------------------------------------------------
(* deployContract *)

MissingDeps == \E d \in Op.deps \cap Name : run.deployed[d] = 0 /\ targets[d] = 0
force == Op.force /\ last.addNewSynths
Wanted == IF run.config[Op.name] # "absent" THEN run.config[Op.name] = "deploy" ELSE force

SkipContract ==
  /\ Doing("deploy") /\ run.config[Op.name] = "absent" /\ ~force
  /\ run' = Advance
  /\ UNCHANGED <<config, versions, targets, ownerActions, chain, last, history>>

ReuseContract ==
  /\ Doing("deploy") /\ (run.config[Op.name] # "absent" \/ force)
  /\ ~MissingDeps /\ ~Wanted /\ targets[Op.name] # 0
  /\ run' = [Advance EXCEPT !.deployed[Op.name] = targets[Op.name], !.updated[Op.name] = "reuse"]
  /\ config' = run'.updated
  /\ UNCHANGED <<versions, targets, ownerActions, chain, last, history>>

CannotDeploy ==
  /\ Doing("deploy") /\ (run.config[Op.name] # "absent" \/ force)
  /\ MissingDeps \/ (~Wanted /\ targets[Op.name] = 0)
  /\ Stop
  /\ UNCHANGED <<config, versions, targets, ownerActions, chain, history>>

MineContract ==
  /\ Doing("deploy") /\ run.part = "begin" /\ ~MissingDeps /\ Wanted
  /\ chain' = Append(chain, NewContract(Op, run.deployed))
  /\ run' = [run EXCEPT !.part = "mined", !.deployed[Op.name] = Len(chain) + 1]
  /\ UNCHANGED <<config, versions, targets, ownerActions, last, history>>

(* _updateResults writes deployment.json first...                            *)
WriteDeployment ==
  /\ Doing("deploy") /\ run.part = "mined"
  /\ targets' = [targets EXCEPT ![Op.name] = run.deployed[Op.name]]
  /\ history' = [history EXCEPT !.recorded = @ \cup {run.deployed[Op.name]}]
  /\ run' = [run EXCEPT !.part = "recorded"]
  /\ UNCHANGED <<config, versions, ownerActions, chain, last>>

\* A slip: the flag stays.
KeepConfig ==
  /\ Doing("deploy") /\ run.part = "recorded"
  /\ run' = Advance
  /\ UNCHANGED <<config, versions, targets, ownerActions, chain, last, history>>

(* ... and then config.json, from the copy it keeps of it.                   *)
WriteConfig ==
  /\ Doing("deploy") /\ run.part = "recorded"
  /\ run' = [Advance EXCEPT !.updated[Op.name] = "reuse"]
  /\ config' = run'.updated
  /\ UNCHANGED <<versions, targets, ownerActions, chain, last, history>>

(* deploy-synths.js, between a synth's proxy and the synth: one that is      *)
(* flagged and in no release before ends the run.  (The operator lets a      *)
(* supply pass that is read while the system is not suspended.)              *)
ReadOldSupply ==
  /\ Doing("readOldSupply")
  /\ IF run.config[Op.name] = "deploy" /\ existing(Op.name) = 0
     THEN Stop /\ UNCHANGED <<config, versions, targets, ownerActions, chain, history>>
     ELSE Proceed

-----------------------------------------------------------------------------
(* performTransactionalStep *)

(* owner-actions.json is an object: an action whose key is there keeps its   *)
(* place.  The key is the contract's name, the method and the arguments.     *)
SameKey(a, b) == a.contract = b.contract /\ a.writes = b.writes
Appended(actions, a) ==
  IF \E i \in DOMAIN actions : SameKey(actions[i], a)
  THEN [i \in DOMAIN actions |-> IF SameKey(actions[i], a) THEN a ELSE actions[i]]
  ELSE Append(actions, a)

(* Write some fields of a contract, as its owner or by way of the file; what *)
(* comes next is the caller's.                                               *)
Mine(name, writes, once, then) ==
  LET at == run.deployed[name] IN
  /\ chain[at].owner = "deployer" /\ ~Reverts(chain, at, writes, once)
  /\ chain' = Written(chain, at, writes)
  /\ run' = then
  /\ UNCHANGED <<config, versions, targets, ownerActions, last, history>>
Fail(name, writes, once) ==
  LET at == run.deployed[name] IN
  /\ chain[at].owner = "deployer" /\ Reverts(chain, at, writes, once)
  /\ Stop
  /\ UNCHANGED <<config, versions, targets, ownerActions, chain, history>>
Append_(name, writes, once) ==
  LET at == run.deployed[name]
      entry == [contract |-> name, target |-> at, writes |-> writes, once |-> once,
                complete |-> FALSE] IN
  /\ chain[at].owner # "deployer"
  /\ ownerActions' = Appended(run.actions, entry)
Pend(name, writes, once, then) ==
  /\ Append_(name, writes, once)
  /\ run' = [then EXCEPT !.actions = ownerActions', !.appended = TRUE]
  /\ UNCHANGED <<config, versions, targets, chain, last, history>>
Perform(name, writes, once, then) ==
  Mine(name, writes, once, then) \/ Fail(name, writes, once) \/ Pend(name, writes, once, then)

Called == /\ \A n \in Op.guard : run.deployed[n] # 0
          /\ Op.gate = {} \/ \E n \in Op.gate \cap Name : run.config[n] = "deploy"
Holds(step, deployed) ==
  Satisfied(step, chain[KeeperAt(chain, deployed[step.contract])].fields[step.field],
            ValueOf(step.value, deployed))
Unreadable == KeeperAt(chain, run.deployed[Op.contract]) = 0

RunStep ==
  /\ Doing("step")
  /\ IF ~Called THEN Proceed
     ELSE IF run.deployed[Op.contract] = 0 \/ Unreadable
     THEN Stop /\ UNCHANGED <<config, versions, targets, ownerActions, chain, history>>
     ELSE IF Holds(Op, run.deployed) THEN Proceed
     ELSE Perform(Op.contract, (Op.field :> ValueOf(Op.value, run.deployed)), FALSE, Advance)

-----------------------------------------------------------------------------
(* import-addresses.js *)

Deployed == {n \in Name : run.deployed[n] # 0}
\* A slip: a name that the resolver knows is left alone.
ToImportUnknown ==
  {n \in Deployed \ Library : chain[run.deployed["AddressResolver"]].fields[n] = 0}
ToImport ==
  {n \in Deployed \ Library :
     chain[run.deployed["AddressResolver"]].fields[n] # run.deployed[n]}

(* The deployment stops here until the owner has imported the addresses.     *)
ImportAddresses ==
  /\ Doing("importAddresses")
  /\ LET writes == [n \in ToImport |-> run.deployed[n]] IN
     IF ToImport = {} THEN Proceed
     ELSE \/ Mine("AddressResolver", writes, FALSE, Advance)
          \/ /\ Append_("AddressResolver", writes, FALSE)
             /\ Stop
             /\ UNCHANGED <<config, versions, targets, chain, history>>

-----------------------------------------------------------------------------
(* rebuild-resolver-caches.js *)

\* A slip: only the contracts that have never been connected.
ToRebuildNew ==
  {at \in {run.deployed[n] : n \in Deployed} : \E n \in DOMAIN chain[at].cached : chain[at].cached[n] = 0}
(* Not where an address is unknown to the resolver.                          *)
ToRebuild ==
  {at \in {run.deployed[n] : n \in Deployed} :
     /\ ~isResolverCached(chain, run.deployed, at)
     /\ \A n \in DOMAIN chain[at].cached : chain[run.deployed["AddressResolver"]].fields[n] # 0}

CollectCaches ==
  /\ Doing("rebuildResolverCaches") /\ run.part = "begin"
  /\ run' = [run EXCEPT !.part = "rebuilding", !.todo = ToRebuild]
  /\ UNCHANGED <<config, versions, targets, ownerActions, chain, last, history>>

Chunk == {c \in SUBSET run.todo :
            Cardinality(c) = IF Cardinality(run.todo) < addressesChunkSize
                             THEN Cardinality(run.todo) ELSE addressesChunkSize}
(* requireAndGetAddress reverts for a name that the resolver does not have.  *)
Unresolved(c) ==
  \E at \in c : \E n \in DOMAIN chain[at].cached : Resolver(chain, run.deployed).fields[n] = 0
RebuildCaches ==
  /\ Doing("rebuildResolverCaches") /\ run.part = "rebuilding" /\ run.todo # {}
  /\ \E c \in Chunk :
       IF Unresolved(c)
       THEN Stop /\ UNCHANGED <<config, versions, targets, ownerActions, chain, history>>
       ELSE /\ chain' = rebuildCaches(chain, run.deployed, c)
            /\ run' = [run EXCEPT !.todo = @ \ c]
            /\ UNCHANGED <<config, versions, targets, ownerActions, last, history>>
CachesRebuilt ==
  /\ Doing("rebuildResolverCaches") /\ run.part = "rebuilding" /\ run.todo = {}
  /\ Proceed

-----------------------------------------------------------------------------
(* import-fee-periods.js: from the FeePool of versions.json into another,    *)
(* whatever that one holds (override), period by period.  The system is      *)
(* suspended meanwhile: otherwise the periods are skipped unless the         *)
(* operator insists.                                                         *)
ReadFeePeriods ==
  /\ Doing("importFeePeriods") /\ run.part = "begin"
  /\ IF run.deployed["FeePool"] \in {0, existing("FeePool")} THEN Proceed
     ELSE /\ run' = [run EXCEPT !.part = Head(FeePeriods)]
          /\ UNCHANGED <<config, versions, targets, ownerActions, chain, last, history>>
ImportFeePeriod ==
  /\ Doing("importFeePeriods") /\ run.part # "begin"
  /\ Perform("FeePool", (run.part :> existing("FeePool")), FALSE,
             IF run.part = Last(FeePeriods) THEN Advance ELSE [run EXCEPT !.part = Last(FeePeriods)])

(* add-synths-to-protocol.js *)
AddSynthsToProtocol ==
  /\ Doing("addSynthsToProtocol")
  /\ LET known(z) == chain[run.deployed["Issuer"]].fields[SynthField(z)]
         filtered == {z \in SynthNames \cap Deployed : known(z) # run.deployed[z]}
         at(f) == run.deployed[CHOOSE z \in SynthNames : SynthField(z) = f] IN
     IF run.deployed["Issuer"] = 0 \/ filtered = {} THEN Proceed
     ELSE Perform("Issuer", [f \in {SynthField(z) : z \in filtered} |-> at(f)], TRUE, Advance)

Finish ==
  /\ run.on /\ run.at = Len(Script) + 1
  /\ last' = [last EXCEPT !.complete = TRUE, !.appended = run.appended]
  /\ run' = Off
  /\ UNCHANGED <<config, versions, targets, ownerActions, chain, history>>

(* The process is killed.                                                    *)
Crash ==
  /\ run.on /\ history.crashes < MaxCrashes
  /\ Stop
  /\ history' = [history EXCEPT !.crashes = @ + 1]
  /\ UNCHANGED <<config, versions, targets, ownerActions, chain>>

-----------------------------------------------------------------------------
\* A slip: in any order.
PerformAnyOwnerAction ==
  /\ ~run.on
  /\ \E i \in DOMAIN ownerActions :
       LET a == ownerActions[i] IN
       /\ ~a.complete /\ ~Reverts(chain, a.target, a.writes, a.once)
       /\ chain' = Written(chain, a.target, a.writes)
       /\ ownerActions' = [ownerActions EXCEPT ![i].complete = TRUE]
  /\ UNCHANGED <<config, versions, targets, run, last, history>>

(* owner: the first action of the file that is not complete.                 *)
PerformOwnerAction ==
  /\ ~run.on
  /\ \E i \in DOMAIN ownerActions :
       LET a == ownerActions[i] IN
       /\ ~a.complete /\ \A j \in 1..(i - 1) : ownerActions[j].complete
       /\ ~Reverts(chain, a.target, a.writes, a.once)
       /\ chain' = Written(chain, a.target, a.writes)
       /\ ownerActions' = [ownerActions EXCEPT ![i].complete = TRUE]
  /\ UNCHANGED <<config, versions, targets, run, last, history>>

DeployContract == SkipContract \/ ReuseContract \/ CannotDeploy \/ MineContract
                  \/ WriteDeployment \/ WriteConfig
Process == \/ DeployContract \/ ReadOldSupply \/ RunStep \/ ImportAddresses
           \/ CollectCaches \/ RebuildCaches \/ CachesRebuilt
           \/ ReadFeePeriods \/ ImportFeePeriod \/ AddSynthsToProtocol \/ Finish

Next == \/ \E release \in Releases : PrepareDeploy(release)
        \/ VersionsUpdate \/ Start \/ Process \/ Crash \/ PerformOwnerAction

Spec == Init /\ [][Next]_vars
(* A run goes on, there is another one while there is something to do, and   *)
(* the owner gets to act between runs.                                       *)
FairSpec == Spec /\ WF_vars(Process) /\ WF_vars(Start) /\ SF_vars(PerformOwnerAction)

-----------------------------------------------------------------------------
(* What is asked of a deployment *)

Address == 0..Len(chain)
TypeOK ==
  /\ config \in [Name -> {"absent", "reuse", "deploy"}]
  /\ targets \in [Name -> Address] 
  /\ \A n \in Name : Versioned => {i \in DOMAIN byContract(n) : byContract(n)[i].status = "current"}
                                  = {i \in {Len(byContract(n))} : i # 0}
  /\ \A n \in Name : targets[n] # 0 => chain[targets[n]].name = n
  /\ \A i \in DOMAIN ownerActions : ownerActions[i].target \in DOMAIN chain
  /\ \A at \in DOMAIN chain :
       /\ chain[at].fields \in [FieldsOf[chain[at].name] -> {configured} \cup Address]
       /\ chain[at].cached \in [resolverAddressesRequired[chain[at].name] -> Address]
  /\ run.on => run.at \in 1..(Len(Script) + 1) /\ run.deployed \in [Name -> Address]

(* A flag of config.json is only taken away once deployment.json has an      *)
(* address that the release deployed: a run that goes on from the files      *)
(* never takes the contract of the release before for the new one, nor a new *)
(* synth for one that is there.                                              *)
FlagOutlivesRecord ==
  \A n \in Name : config[n] # "reuse" /\ config'[n] = "reuse" => targets[n] # existing(n)

(* However often a release is resumed, each contract of it is deployed once; *)
(* a killed run costs one more at most.                                      *)
DeployedOnce == Len(chain) - Len(Old) <= history.flagged + history.crashes

(* A contract that was deployed by a killed run and is in no file is         *)
(* nowhere in the system: none of the recorded contracts points at it.       *)
OrphansUnused ==
  \A at \in history.recorded :
    /\ \A f \in DOMAIN chain[at].fields : chain[at].fields[f] \in history.recorded \cup {0, configured}
    /\ \A n \in DOMAIN chain[at].cached : chain[at].cached[n] \in history.recorded \cup {0}

(* The fee periods of a pool are those of the pool that it took over from,   *)
(* whatever runs, pools that a stopped run deployed, and actions of the owner *)
(* came in between.                                                          *)
PeriodsCarriedOver ==
  LET pools == {e.address : e \in ToSet(byContract("FeePool"))}
      before == {at \in pools : at < targets["FeePool"]} IN
  \A p \in ToSet(FeePeriods) :
    chain[targets["FeePool"]].fields[p] \in
      {configured} \cup {at \in before : \A other \in before : other <= at}

(* What the files hold is of this release, and all of it.                    *)
DeploymentSound == TypeOK /\ DeployedOnce /\ OrphansUnused

(* The system as deployment.json describes it: every link and setting of the *)
(* script is in place, the resolver knows the contracts and they know each   *)
(* other.  (Steps that depend on the flags are left out: see                 *)
(* EscrowFindsProxy.)                                                        *)
InUse == {n \in Name : targets[n] # 0}
Wired ==
  /\ \A n \in Name : config[n] # "deploy"
  /\ \A op \in Steps :
       op.gate = {} /\ op.guard \cup {op.contract} \subseteq InUse => Holds(op, targets)
  /\ \A n \in InUse \ Library : chain[targets["AddressResolver"]].fields[n] = targets[n]
  /\ \A n \in InUse : isResolverCached(chain, targets, targets[n])
  /\ "FeePool" \in InUse => PeriodsCarriedOver
(* A run that came to its end and left nothing to the owner leaves nothing   *)
(* undone.                                                                   *)
CompleteMeansWired == last.complete /\ ~last.appended => Wired

(* Between two recorded contracts a link never goes back to an older one,    *)
(* whatever actions were left in the file.                                   *)
LinksMoveForward ==
  \A at \in DOMAIN chain : \A f \in DOMAIN chain[at].fields :
    chain[at].fields[f] # configured => chain'[at].fields[f] >= chain[at].fields[f]
                                        \/ chain'[at].fields[f] = configured

(* A release never goes back: neither in the files nor on the chain.         *)
NeverBack == [][FlagOutlivesRecord /\ LinksMoveForward]_vars

(* With finitely many crashes, runs that are repeated and an owner who acts, *)
(* releases that can be deployed are in the end in place for good.           *)
EventuallyWired == []history.sound => <>[]Wired

(* "Ensure the token sale escrow can find the Synthetix proxy to read and    *)
(* transfer".  This does not hold: the step is called only while config.json *)
(* flags the contract, and a run that goes on after a stop does not find the *)
(* flag.                                                                     *)
EscrowFindsProxy ==
  last.complete /\ ~last.appended /\ "SynthetixEscrow" \in InUse
    => Holds(escrowFindsProxy, targets)
=============================================================================
