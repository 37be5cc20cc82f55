---------------------------- MODULE SynthCommands ----------------------------
(***************************************************************************)
(* The commands that work on a running system outside of a deployment:     *)
(* replace-synths, remove-synths, purge-synths, deploy-shorting-rewards    *)
(* and deploy-staking-rewards.  A step is a transaction of the account, or *)
(* an entry of owner-actions.json if the contract is not its own; the      *)
(* files are written as the commands go.  Users trade all the time, and a  *)
(* command may be killed anywhere.                                         *)
(*                                                                         *)
(* A contract is its address, a number that grows.  The proxy and the      *)
(* token state of a synth are never deployed again, so for them            *)
(* deployment.json only says whether they are in it.                       *)
(***************************************************************************)
EXTENDS Integers, Sequences, FiniteSets, SequencesExt

CONSTANTS
  Synth,       \* the keys of synths.json without zUSD, in the order of their addresses
  Lists,       \* the lists of keys that a command may be given
  shortingRewards, stakingRewards,  \* the names of the two files
  rewardsToken,                     \* the synth that each of them pays
  Suspensions,                      \* which synths may be suspended in the beginning
  MaxCommands, MaxCrashes, MaxTrades, MaxSupply  \* bounds

Key == ToSet(Synth)
Reward == ToSet(shortingRewards) \cup ToSet(stakingRewards)
Zasset(k) == <<"Zasset", k>>
Proxy(k) == <<"Proxy", k>>
TokenState(k) == <<"TokenState", k>>
Rewards(r) == <<"Rewards", r>>
Name == UNION {{Zasset(k), Proxy(k), TokenState(k)} : k \in Key} \cup {Rewards(r) : r \in Reward}
Issuer == <<"Issuer", "">>   \* stands for the other contracts of config.json

ASSUME SynthAssumption ==
  /\ IsInjective(Synth) /\ \A l \in Lists : l # <<>> /\ IsInjective(l) /\ ToSet(l) \subseteq Key
  /\ rewardsToken \in [Reward -> Key] /\ ToSet(shortingRewards) \cap ToSet(stakingRewards) = {}
  /\ Suspensions \subseteq SUBSET Key
  /\ {MaxCommands, MaxCrashes, MaxTrades, MaxSupply} \subseteq Nat

VARIABLES
  config,        \* config.json: the contracts it lists
  targets,       \* deployment.json: the addresses, 0 for a contract it does not list
  synths,        \* synths.json: the subclass of each synth
  ownerActions,  \* owner-actions.json: calls, with whether they are complete
  chain,         \* the contracts
  proc,          \* the memory of the process
  history        \* what the properties look back at

files == <<config, targets, synths>>
vars == <<files, ownerActions, chain, proc, history>>

Off == [does |-> "nothing"]

(* All is in place, in the hands of the account that runs the commands or    *)
(* not, and some synths may be suspended.                                    *)
Init ==
  /\ config = {Issuer} \cup {n \in Name : n[1] # "Rewards"}
  /\ targets = [n \in Name |-> CASE n[1] = "Zasset" -> CHOOSE i \in DOMAIN Synth : Synth[i] = n[2]
                                 [] n[1] = "Rewards" -> 0
                                 [] OTHER -> 1]
  /\ synths = [k \in Key |-> "Synth"]
  /\ ownerActions = <<>>
  /\ \E owned \in BOOLEAN, suspended \in Suspensions, supply \in [Key -> 0..1] :
       chain = [owned |-> owned, suspended |-> suspended, held |-> supply,
                made |-> [i \in DOMAIN Synth |-> [supply |-> supply[Synth[i]], cached |-> TRUE]],
                issuer |-> [k \in Key |-> targets[Zasset(k)]],
                associated |-> [k \in Key |-> targets[Zasset(k)]],
                target |-> [k \in Key |-> targets[Zasset(k)]],
                aggregators |-> Key, deprecated |-> {}, shorting |-> [r \in Reward |-> 0]]
  /\ proc = Off
  /\ history = [commands |-> 0, crashes |-> 0, trades |-> 0, disturbed |-> {},
                half |-> [replace |-> {}, remove |-> {}, rewards |-> {}]]

-----------------------------------------------------------------------------
(* On chain *)

Call(do, of, at) == [do |-> do, of |-> of, at |-> at]

Reverts(c) ==
  CASE c.do = "removeSynth" ->
         LET s == chain.issuer[c.of] IN
         s = 0 \/ (chain.made[s].supply > 0 /\ c.of \notin chain.aggregators)
    [] c.do = "addSynth" -> chain.issuer[c.of] # 0
    [] OTHER -> FALSE
(* A synth that is removed while some of it is about is deprecated: what is  *)
(* held can be redeemed.                                                     *)
Effect(c) ==
  CASE c.do = "setTotalSupply" -> [chain EXCEPT !.made[c.at].supply = 0]
    [] c.do = "removeSynth" ->
         [chain EXCEPT !.issuer[c.of] = 0,
                       !.deprecated = IF chain.made[chain.issuer[c.of]].supply > 0 THEN @ \cup {c.of} ELSE @]
    [] c.do = "addSynth" -> [chain EXCEPT !.issuer[c.of] = c.at]
    [] c.do = "setAssociatedContract" -> [chain EXCEPT !.associated[c.of] = c.at]
    [] c.do = "setTarget" -> [chain EXCEPT !.target[c.of] = c.at]
    [] c.do = "removeAggregator" -> [chain EXCEPT !.aggregators = @ \ {c.of}]
    [] c.do = "resumeSynth" -> [chain EXCEPT !.suspended = @ \ {c.of}]
    [] c.do = "addRewardsContracts" -> [chain EXCEPT !.shorting[c.of] = c.at]

(* A synth works when the issuer knows it, and its proxy and its token state *)
(* are its own.                                                              *)
Live(k) == LET s == chain.issuer[k] IN
  s # 0 /\ chain.associated[k] = s /\ chain.target[k] = s /\ chain.made[s].cached
(* Its supply was read, or is in the files already, and it will go.          *)
Leaving(k) ==
  \/ proc.does = "replace" /\ k \in ToSet(proc.todo) /\ (k # Head(proc.todo) \/ chain.issuer[k] # proc.new)
  \/ chain.issuer[k] # targets[Zasset(k)]

(* Exchanges into a synth and out of it.                                     *)
Trade(k, amount) ==
  /\ history.trades < MaxTrades
  /\ LET s == chain.issuer[k] IN
     /\ s # 0 /\ chain.associated[k] = s /\ chain.made[s].cached
     /\ k \in chain.aggregators \ chain.suspended
     /\ chain.held[k] + amount \in 0..MaxSupply /\ chain.made[s].supply + amount >= 0
     /\ chain' = [chain EXCEPT !.held[k] = @ + amount, !.made[s].supply = @ + amount]
  /\ history' = [history EXCEPT !.trades = @ + 1,
                                !.disturbed = IF Leaving(k) THEN @ \cup {k} ELSE @]
  /\ UNCHANGED <<files, ownerActions, proc>>

-----------------------------------------------------------------------------
(* performTransactionalStep.  What a command has deployed is the account's.  *)

(* The key of an action names the contract, not its address.                 *)
KeyOf(c) == IF c.do = "setTotalSupply" THEN <<c.do, c.of>> ELSE <<c.do, c.of, c.at>>
Appended(c) ==
  LET a == [call |-> c, complete |-> FALSE]
      same == {i \in DOMAIN ownerActions : KeyOf(ownerActions[i].call) = KeyOf(c)} IN
  IF same = {} THEN Append(ownerActions, a)
  ELSE [i \in DOMAIN ownerActions |-> IF i \in same THEN a ELSE ownerActions[i]]
Mine(c) == chain.owned \/ (c.do = "setTotalSupply" /\ c.at > Len(Synth))

(* The command ends before it is done, by itself or because it is killed.    *)
Zeroed == proc.does = "replace" /\ proc.step \in {"removeSynth", "deploy", "record"}
Ended(h) ==
  /\ proc' = Off
  /\ history' = [h EXCEPT
       !.half[proc.does] = @ \cup {Head(proc.todo)},
       !.disturbed = IF Zeroed /\ proc.supplies[Head(proc.todo)] > 0 THEN @ \cup {Head(proc.todo)} ELSE @]
Stopped == Ended(history)
Goto(step) == proc' = [proc EXCEPT !.step = step]

RunStep(c, satisfied, next) ==
  IF satisfied THEN Goto(next) /\ UNCHANGED <<ownerActions, chain, history>>
  ELSE IF ~Mine(c)
  THEN ownerActions' = Appended(c) /\ Goto(next) /\ UNCHANGED <<chain, history>>
  ELSE IF Reverts(c) THEN Stopped /\ UNCHANGED <<ownerActions, chain>>
  ELSE chain' = Effect(c) /\ Goto(next) /\ UNCHANGED <<ownerActions, history>>

AllComplete == \A i \in DOMAIN ownerActions : ownerActions[i].complete
PerformOwnerAction ==
  /\ proc = Off
  /\ \E i \in DOMAIN ownerActions :
       /\ ~ownerActions[i].complete /\ \A j \in 1..(i - 1) : ownerActions[j].complete
       /\ ~Reverts(ownerActions[i].call)
       /\ chain' = Effect(ownerActions[i].call)
       /\ ownerActions' = [ownerActions EXCEPT ![i].complete = TRUE]
  /\ UNCHANGED <<files, proc, history>>

(* A command is run once the owner has done what the one before has left,    *)
(* again if it did not come to its end.                                      *)
Begin(command, todo, half) ==
  /\ proc = Off /\ AllComplete
  /\ ToSet(todo) \subseteq half \/ history.commands < MaxCommands
  /\ history' = IF ToSet(todo) \subseteq half THEN history ELSE [history EXCEPT !.commands = @ + 1]
  /\ proc' = command
  /\ UNCHANGED <<files, ownerActions, chain>>

Doing(command, step) == proc.does = command /\ proc.step = step
Current == Head(proc.todo)
(* What is next on the list.                                                 *)
NextOnList(step) ==
  /\ proc' = IF Len(proc.todo) = 1 THEN Off ELSE [proc EXCEPT !.todo = Tail(@), !.step = step]
  /\ history' = [history EXCEPT !.half[proc.does] = @ \ {Current}]

-----------------------------------------------------------------------------
(* replace-synths *)

(* The supplies of all of them are read in the beginning, before the         *)
(* operator is asked; the deployer gets an empty configuration.              *)
StartReplace(todo) ==
  /\ \A k \in ToSet(todo) : k \in DOMAIN synths /\ targets[Proxy(k)] # 0 /\ targets[TokenState(k)] # 0
  /\ Begin([does |-> "replace", step |-> "setTotalSupply", todo |-> todo, new |-> 0,
            supplies |-> [k \in ToSet(todo) |-> chain.made[targets[Zasset(k)]].supply],
            old |-> [k \in ToSet(todo) |-> targets[Zasset(k)]], updatedConfig |-> {}],
           todo, history.half.replace)

SetTotalSupply ==
  /\ Doing("replace", "setTotalSupply")
  /\ LET old == proc.old[Current] IN
     RunStep(Call("setTotalSupply", Current, old), chain.made[old].supply = 0, "removeSynth")
  /\ UNCHANGED files
\* A slip: whether the issuer has one or not.
RemoveAnyway ==
  /\ Doing("replace", "removeSynth")
  /\ RunStep(Call("removeSynth", Current, 0), FALSE, "deploy")
  /\ UNCHANGED files
ReplaceRemoveSynth ==
  /\ Doing("replace", "removeSynth")
  /\ RunStep(Call("removeSynth", Current, 0), chain.issuer[Current] = 0, "deploy")
  /\ UNCHANGED files

\* A slip: the supply is read from the old synth when the new one is deployed.
DeployWithPresentSupply ==
  /\ Doing("replace", "deploy")
  /\ chain' = [chain EXCEPT !.made = Append(@, [supply |-> @[proc.old[Current]].supply, cached |-> FALSE])]
  /\ proc' = [proc EXCEPT !.step = "record", !.new = Len(chain.made) + 1]
  /\ UNCHANGED <<files, ownerActions, history>>
DeployReplacement ==
  /\ Doing("replace", "deploy")
  /\ chain' = [chain EXCEPT !.made = Append(@, [supply |-> proc.supplies[Current], cached |-> FALSE])]
  /\ proc' = [proc EXCEPT !.step = "record", !.new = Len(chain.made) + 1]
  /\ UNCHANGED <<files, ownerActions, history>>

(* _updateResults: deployment.json, then config.json as the deployer has it. *)
RecordReplacement ==
  /\ Doing("replace", "record")
  /\ targets' = [targets EXCEPT ![Zasset(Current)] = proc.new]
  /\ Goto("config")
  /\ UNCHANGED <<config, synths, ownerActions, chain, history>>
WriteConfig ==
  /\ Doing("replace", "config")
  /\ config' = proc.updatedConfig \cup {Zasset(Current)}
  /\ proc' = [proc EXCEPT !.step = "rebuildCache", !.updatedConfig = config']
  /\ UNCHANGED <<targets, synths, ownerActions, chain, history>>
RebuildReplacement ==
  /\ Doing("replace", "rebuildCache")
  /\ chain' = [chain EXCEPT !.made[proc.new].cached = TRUE]
  /\ Goto("addSynth")
  /\ UNCHANGED <<files, ownerActions, history>>
AddSynth ==
  /\ Doing("replace", "addSynth")
  /\ RunStep(Call("addSynth", Current, proc.new), chain.issuer[Current] = proc.new, "setAssociatedContract")
  /\ UNCHANGED files
SetAssociatedContract ==
  /\ Doing("replace", "setAssociatedContract")
  /\ RunStep(Call("setAssociatedContract", Current, proc.new), chain.associated[Current] = proc.new, "setTarget")
  /\ UNCHANGED files
SetTarget ==
  /\ Doing("replace", "setTarget")
  /\ RunStep(Call("setTarget", Current, proc.new), chain.target[Current] = proc.new, "synths")
  /\ UNCHANGED files
WriteSubclass ==
  /\ Doing("replace", "synths")
  /\ synths' = [synths EXCEPT ![Current] = "subclass"]
  /\ proc' = IF Len(proc.todo) = 1 THEN Off
             ELSE [proc EXCEPT !.todo = Tail(@), !.step = "setTotalSupply", !.new = 0]
  /\ history' = [history EXCEPT !.half.replace = @ \ {Current}]
  /\ UNCHANGED <<config, targets, ownerActions, chain>>
ReplaceSteps == \/ SetTotalSupply \/ ReplaceRemoveSynth \/ DeployReplacement \/ RecordReplacement
                \/ WriteConfig \/ RebuildReplacement \/ AddSynth \/ SetAssociatedContract \/ SetTarget \/ WriteSubclass

-----------------------------------------------------------------------------
(* remove-synths *)

StartRemove(todo) ==
  /\ ToSet(todo) \subseteq DOMAIN synths
  /\ Begin([does |-> "remove", step |-> "check", todo |-> todo], todo, history.half.remove)

(* Only what deployment.json and the issuer agree on, and after another      *)
(* question if there is some of it.                                          *)
CheckSynth ==
  /\ Doing("remove", "check")
  /\ \/ chain.issuer[Current] = targets[Zasset(Current)] /\ Goto("removeSynth") /\ UNCHANGED history
     \/ /\ chain.issuer[Current] = targets[Zasset(Current)] => chain.made[targets[Zasset(Current)]].supply > 0
        /\ proc' = Off /\ UNCHANGED history
  /\ UNCHANGED <<files, ownerActions, chain>>
RemoveSynth ==
  /\ Doing("remove", "removeSynth")
  /\ RunStep(Call("removeSynth", Current, 0), FALSE, "config")
  /\ UNCHANGED files

(* The three files, whether the synth is removed or the owner is to do it.   *)
(* The third name is Synth and not Zasset, so that entry stays.              *)
RemoveFromConfig ==
  /\ Doing("remove", "config")
  /\ config' = config \ {Proxy(Current), TokenState(Current)}
  /\ Goto("deployment")
  /\ UNCHANGED <<targets, synths, ownerActions, chain, history>>
RemoveFromDeployment ==
  /\ Doing("remove", "deployment")
  /\ targets' = [targets EXCEPT ![Proxy(Current)] = 0, ![TokenState(Current)] = 0]
  /\ Goto("synths")
  /\ UNCHANGED <<config, synths, ownerActions, chain, history>>
RemoveFromSynths ==
  /\ Doing("remove", "synths")
  /\ synths' = [k \in DOMAIN synths \ {Current} |-> synths[k]]
  /\ Goto("removeAggregator")
  /\ UNCHANGED <<config, targets, ownerActions, chain, history>>
RemoveAggregator ==
  /\ Doing("remove", "removeAggregator")
  /\ RunStep(Call("removeAggregator", Current, 0), Current \notin chain.aggregators, "resumeSynth")
  /\ UNCHANGED files
ResumeSynth ==
  /\ Doing("remove", "resumeSynth")
  /\ RunStep(Call("resumeSynth", Current, 0), Current \notin chain.suspended, "next")
  /\ UNCHANGED files
RemoveNext ==
  /\ Doing("remove", "next")
  /\ NextOnList("check")
  /\ UNCHANGED <<files, ownerActions, chain>>
RemoveSteps == \/ CheckSynth \/ RemoveSynth \/ RemoveFromConfig \/ RemoveFromDeployment \/ RemoveFromSynths
               \/ RemoveAggregator \/ ResumeSynth \/ RemoveNext

-----------------------------------------------------------------------------
(* purge-synths: the list of the holders is fixed in the code, to something  *)
(* that is no address, so a synth with a supply ends the run and no other    *)
(* has anything to purge.                                                    *)
StartPurge(todo) ==
  /\ ToSet(todo) \subseteq DOMAIN synths
  /\ Begin([does |-> "purge", step |-> "check", todo |-> todo], todo, {})
addresses == <<"0x">>
isAddress(a) == a # "0x"
PurgeSynth ==
  /\ Doing("purge", "check")
  /\ LET s == targets[Zasset(Current)]
         Fails == \/ s # chain.issuer[Current]
                  \/ chain.made[s].supply > 0 /\ \E i \in DOMAIN addresses : ~isAddress(addresses[i]) IN
     proc' = IF Fails \/ Len(proc.todo) = 1 THEN Off ELSE [proc EXCEPT !.todo = Tail(@)]
  /\ UNCHANGED <<files, ownerActions, chain, history>>

-----------------------------------------------------------------------------
(* deploy-shorting-rewards and deploy-staking-rewards: what is named on the  *)
(* command line is flagged in memory, so that it is deployed whatever the    *)
(* files have; config.json is not written.                                   *)
Rewarding(file, names) ==
  /\ names # {} /\ names \subseteq ToSet(file)
  /\ \A r \in ToSet(file) : targets[Proxy(rewardsToken[r])] # 0
  /\ LET todo == SelectSeq(file, LAMBDA r : r \in names) IN
     Begin([does |-> "rewards", step |-> "deploy", todo |-> todo, new |-> 0], todo, history.half.rewards)
StartShorting(names) == Rewarding(shortingRewards, names)
StartStaking(names) == Rewarding(stakingRewards, names)

(* The rewards of shorting resolve what they use, those of staking are given *)
(* all of it when they are made.                                             *)
Made(cached) ==
  /\ chain' = [chain EXCEPT !.made = Append(@, [supply |-> 0, cached |-> cached])]
  /\ proc' = [proc EXCEPT !.step = "record", !.new = Len(chain.made) + 1]
  /\ UNCHANGED <<files, ownerActions, history>>
DeployShorting == Doing("rewards", "deploy") /\ Current \in ToSet(shortingRewards) /\ Made(FALSE)
DeployStaking == Doing("rewards", "deploy") /\ Current \in ToSet(stakingRewards) /\ Made(TRUE)
RecordRewards ==
  /\ Doing("rewards", "record")
  /\ targets' = [targets EXCEPT ![Rewards(Current)] = proc.new]
  /\ IF Current \in ToSet(shortingRewards) THEN Goto("rebuildCache") /\ UNCHANGED history ELSE NextOnList("deploy")
  /\ UNCHANGED <<config, synths, ownerActions, chain>>
RebuildRewards ==
  /\ Doing("rewards", "rebuildCache")
  /\ chain' = [chain EXCEPT !.made[proc.new].cached = TRUE]
  /\ Goto("addRewardsContracts")
  /\ UNCHANGED <<files, ownerActions, history>>
\* A slip: unless it knows one by this name.
AddNewRewardsContracts ==
  /\ Doing("rewards", "addRewardsContracts")
  /\ RunStep(Call("addRewardsContracts", Current, proc.new), chain.shorting[Current] # 0, "next")
  /\ UNCHANGED files
AddRewardsContracts ==
  /\ Doing("rewards", "addRewardsContracts")
  /\ RunStep(Call("addRewardsContracts", Current, proc.new), FALSE, "next")
  /\ UNCHANGED files
RewardsNext ==
  /\ Doing("rewards", "next")
  /\ NextOnList("deploy")
  /\ UNCHANGED <<files, ownerActions, chain>>
RewardsSteps == DeployShorting \/ DeployStaking \/ RecordRewards \/ RebuildRewards \/ AddRewardsContracts \/ RewardsNext

-----------------------------------------------------------------------------
Crash ==
  /\ proc.does \in {"replace", "remove", "rewards"} /\ history.crashes < MaxCrashes
  /\ Ended([history EXCEPT !.crashes = @ + 1])
  /\ UNCHANGED <<files, ownerActions, chain>>

Start == \/ \E l \in Lists : StartReplace(l) \/ StartRemove(l) \/ StartPurge(l)
         \/ \E names \in SUBSET ToSet(shortingRewards) : StartShorting(names)
         \/ \E names \in SUBSET ToSet(stakingRewards) : StartStaking(names)
Process == ReplaceSteps \/ RemoveSteps \/ PurgeSynth \/ RewardsSteps
Next == \/ Start \/ Process \/ Crash \/ PerformOwnerAction
        \/ \E k \in Key : Trade(k, 1) \/ Trade(k, -1)

Spec == Init /\ [][Next]_vars
(* A command goes on, the owner performs what is left to it, and what was    *)
(* half replaced is replaced.                                                *)
Again(k) == k \in history.half.replace /\ StartReplace(<<k>>)
FairSpec == Spec /\ WF_vars(Process) /\ WF_vars(PerformOwnerAction) /\ \A k \in Key : SF_vars(Again(k))

-----------------------------------------------------------------------------
(* What is asked of the commands *)

TypeOK ==
  /\ config \subseteq Name \cup {Issuer} /\ DOMAIN synths \subseteq Key
  /\ \A n \in Name : targets[n] \in 0..Len(chain.made)
  /\ \A k \in Key : {chain.issuer[k], chain.associated[k], chain.target[k]} \subseteq 0..Len(chain.made)
  /\ \A k \in Key : chain.held[k] \in 0..MaxSupply
  /\ \A s \in DOMAIN chain.made : chain.made[s].supply \in Nat
  /\ proc # Off => proc.todo # <<>>

Idle == proc = Off /\ AllComplete
Half == UNION {history.half[c] : c \in DOMAIN history.half}

(* "ensure new Synth gets totalSupply set from old Synth": the supply of a   *)
(* synth that works and stays is what its holders have, through all          *)
(* replacements; but for those that were traded between the reading of their *)
(* supply and their removal, and those whose command was killed after the    *)
(* old supply became zero and before the new synth was in deployment.json.   *)
SupplyIsHeld ==
  \A k \in Key \ history.disturbed : Live(k) /\ ~Leaving(k) => chain.made[chain.issuer[k]].supply = chain.held[k]

(* Who holds a synth can use it or redeem it once the commands have come to  *)
(* their end: a removal never finds an emptied supply.                       *)
HoldersServed ==
  Idle => \A k \in Key \ (history.disturbed \cup Half) :
            chain.held[k] > 0 => Live(k) \/ k \in chain.deprecated

(* No holder loses a balance to a command, nor its use.                      *)
HoldersKeepTheirs == TypeOK /\ SupplyIsHeld /\ HoldersServed

(* When all commands came to their end, and the owner has acted, the files   *)
(* say what the chain says: the synths that are listed are the issuer's,     *)
(* with their proxies and token states, of the others neither price nor      *)
(* suspension is left, and the short collateral knows the rewards.           *)
FilesFollowChain ==
  Idle =>
    /\ \A k \in Key \ Half :
         IF k \in DOMAIN synths
         THEN Live(k) /\ targets[Zasset(k)] = chain.issuer[k] /\ targets[Proxy(k)] # 0 /\ targets[TokenState(k)] # 0
         ELSE chain.issuer[k] = 0 /\ k \notin chain.aggregators \cup chain.suspended
    /\ \A r \in ToSet(shortingRewards) \ Half :
         chain.shorting[r] = targets[Rewards(r)] /\ (targets[Rewards(r)] # 0 => chain.made[targets[Rewards(r)]].cached)

(* Wherever a command is killed, a synth that is replaced works again, or    *)
(* was removed by intent.                                                    *)
EventuallyLive ==
  <>[](\A k \in DOMAIN synths \ history.half.remove : Live(k))
=============================================================================
