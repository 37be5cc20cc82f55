---------------------------- MODULE OwnerCommands ----------------------------
(***************************************************************************)
(* The nominate and owner commands: contracts are offered to a new owner,  *)
(* who performs the actions of owner-actions.json and accepts the          *)
(* contracts.  The new owner is an account (every call is a transaction),  *)
(* a safe (the calls are one batch, proposed to its signers) or a relay on *)
(* layer 2 that a safe on layer 1 drives, in batches.  Calls are sent, the *)
(* file is written, and the process may be killed between the two.         *)
(***************************************************************************)
EXTENDS Integers, Sequences, FiniteSets, SequencesExt

CONSTANTS
  Contract,     \* the contracts of config.json, in its order
  Left,         \* the actions that deployments leave, in their order
  Modes,        \* how the new owner acts: "account", "safe", "relay"
  Ownerships,   \* who may own the contracts: "deployer", "new" or "other"
  batchSize,    \* calls that are relayed at a time, 20 in the code
  waitsForSafe, \* owner is not run while a proposal waits for its signers
  MaxRuns, MaxCrashes  \* bounds: proposals, crashes

ASSUME OwnerAssumption ==
  /\ Contract \in Seq(ToSet(Contract)) /\ IsInjective(Contract)
  /\ Left \in Seq(ToSet(Left)) /\ IsInjective(Left)
  /\ Modes \subseteq {"account", "safe", "relay"}
  /\ Ownerships \subseteq [ToSet(Contract) -> {"deployer", "new", "other"}]
  /\ batchSize \in Nat \ {0} /\ waitsForSafe \in BOOLEAN
  /\ MaxRuns \in Nat /\ MaxCrashes \in Nat

(* The calls that are made.                                                  *)
perform(a) == [what |-> "perform", of |-> a]
nominate(c) == [what |-> "nominate", of |-> c]
accept(c) == [what |-> "accept", of |-> c]
Actions == {perform(a) : a \in ToSet(Left)} \cup {nominate(c) : c \in ToSet(Contract)}
Calls == Actions \cup {accept(c) : c \in ToSet(Contract)}

VARIABLES
  mode,          \* what the new owner is
  owner,         \* of each contract
  nominated,     \* the contracts that are offered to the new owner
  ownerActions,  \* owner-actions.json: the calls, in the order of its keys
  complete,      \* those that it marks
  performed,     \* what was performed on chain, in order
  queue,         \* the proposals that are not executed
  sent,          \* how often each call was submitted
  proc,          \* the memory of the process
  bounds

chainVars == <<owner, nominated, performed, sent>>
fileVars == <<ownerActions, complete>>
vars == <<mode, chainVars, fileVars, queue, proc, bounds>>

Off == [does |-> "nothing"]

Init ==
  /\ mode \in Modes /\ owner \in Ownerships
  /\ nominated = {} /\ ownerActions = <<>> /\ complete = {}
  /\ performed = <<>> /\ queue = {} /\ sent = [k \in Calls |-> 0]
  /\ proc = Off
  /\ bounds = [left |-> 0, runs |-> 0, crashes |-> 0]

\* A slip: in front of those that are there.
PrependAction ==
  /\ proc = Off /\ bounds.left < Len(Left)
  /\ ownerActions' = <<perform(Left[bounds.left + 1])>> \o ownerActions
  /\ bounds' = [bounds EXCEPT !.left = @ + 1]
  /\ UNCHANGED <<mode, chainVars, complete, queue, proc>>

(* A deployment appends the next action.                                     *)
LeaveAction ==
  /\ proc = Off /\ bounds.left < Len(Left)
  /\ ownerActions' = Append(ownerActions, perform(Left[bounds.left + 1]))
  /\ bounds' = [bounds EXCEPT !.left = @ + 1]
  /\ UNCHANGED <<mode, chainVars, complete, queue, proc>>

-----------------------------------------------------------------------------
(* nominate *)

ToNominate(c) == owner[c] # "new" /\ c \notin nominated
StartNominate ==
  /\ proc = Off
  /\ \E c \in ToSet(Contract) :
       ToNominate(c) /\ (owner[c] = "deployer" \/ nominate(c) \notin ToSet(ownerActions))
  /\ proc' = [does |-> "nominate", at |-> 1]
  /\ UNCHANGED <<mode, chainVars, fileVars, queue, bounds>>

(* performTransactionalStep: the owner offers the contract, another account  *)
(* leaves the call in the file, not complete.                                *)
Nominate ==
  /\ proc.does = "nominate" /\ proc.at \in DOMAIN Contract
  /\ LET c == Contract[proc.at] IN
     /\ nominated' = IF ToNominate(c) /\ owner[c] = "deployer" THEN nominated \cup {c} ELSE nominated
     /\ IF ToNominate(c) /\ owner[c] # "deployer"
        THEN /\ ownerActions' = IF nominate(c) \in ToSet(ownerActions) THEN ownerActions
                                ELSE Append(ownerActions, nominate(c))
             /\ complete' = complete \ {nominate(c)}
        ELSE UNCHANGED fileVars
  /\ proc' = IF proc.at = Len(Contract) THEN Off ELSE [proc EXCEPT !.at = @ + 1]
  /\ UNCHANGED <<mode, owner, performed, sent, queue, bounds>>

-----------------------------------------------------------------------------
(* On chain *)

(* Calls that are made together fail together: a contract is only accepted   *)
(* while it is offered, and only offered by its owner.                       *)
Succeeds(calls) ==
  \A i \in DOMAIN calls :
    /\ calls[i].what = "accept" => calls[i].of \in nominated
    /\ calls[i].what = "nominate" => owner[calls[i].of] = "new"
Perform(calls) ==
  /\ performed' = performed \o calls
  /\ owner' = [c \in DOMAIN owner |-> IF accept(c) \in ToSet(calls) THEN "new" ELSE owner[c]]
  /\ nominated' = {c \in nominated : accept(c) \notin ToSet(calls)}
Places(batches) == UNION {{i} \X DOMAIN batches[i] : i \in DOMAIN batches}
SentNow(batches) ==
  sent' = [k \in Calls |-> sent[k] + Cardinality({at \in Places(batches) : batches[at[1]][at[2]] = k})]

-----------------------------------------------------------------------------
(* owner *)

Incomplete == \E i \in DOMAIN ownerActions : ownerActions[i] \notin complete
StartOwner ==
  /\ proc = Off /\ (Incomplete \/ nominated # {})
  /\ mode # "account" => bounds.runs < MaxRuns /\ (waitsForSafe => queue = {})
  /\ bounds' = [bounds EXCEPT !.runs = @ + (IF mode = "account" THEN 0 ELSE 1)]
  /\ proc' = [does |-> "actions", at |-> 1, marked |-> complete, batch |-> <<>>]
  /\ UNCHANGED <<mode, chainVars, fileVars, queue>>

(* An account submits each action that is not complete, and writes the file  *)
(* after it.  A transaction that fails ends the run.                         *)
Current == ownerActions[proc.at]
ToDo == proc.does = "actions" /\ proc.at \in DOMAIN ownerActions /\ Current \notin proc.marked
SubmitAction ==
  /\ ToDo /\ mode = "account"
  /\ IF Succeeds(<<Current>>)
     THEN /\ Perform(<<Current>>) /\ SentNow(<< <<Current>> >>)
          /\ proc' = [proc EXCEPT !.does = "mark", !.marked = @ \cup {Current}]
     ELSE /\ proc' = Off
          /\ UNCHANGED chainVars
  /\ UNCHANGED <<mode, fileVars, queue, bounds>>
WriteMark ==
  /\ proc.does = "mark"
  /\ complete' = proc.marked
  /\ proc' = [proc EXCEPT !.does = "actions", !.at = @ + 1]
  /\ UNCHANGED <<mode, chainVars, ownerActions, queue, bounds>>

(* A safe or a relay collects them.  appendTransaction looks through the     *)
(* pending proposals, where it never finds the call: it reads parameters of  *)
(* the list and not of the entry.                                            *)
matchedTxnIsPending(call) == FALSE
Collected(call) ==
  IF mode = "safe" /\ matchedTxnIsPending(call) THEN proc.batch ELSE Append(proc.batch, call)
\* A slip: the file is written for each action, as for an account.
CollectAndWrite ==
  /\ ToDo /\ mode # "account"
  /\ complete' = complete \cup {Current}
  /\ proc' = [proc EXCEPT !.at = @ + 1, !.marked = @ \cup {Current}, !.batch = Collected(Current)]
  /\ UNCHANGED <<mode, chainVars, ownerActions, queue, bounds>>
CollectAction ==
  /\ ToDo /\ mode # "account"
  /\ proc' = [proc EXCEPT !.at = @ + 1, !.marked = @ \cup {Current}, !.batch = Collected(Current)]
  /\ UNCHANGED <<mode, chainVars, fileVars, queue, bounds>>
PassAction ==
  /\ proc.does = "actions" /\ ~ToDo
  /\ proc' = IF proc.at \in DOMAIN ownerActions THEN [proc EXCEPT !.at = @ + 1]
             ELSE [proc EXCEPT !.does = "accept", !.at = 1]
  /\ UNCHANGED <<mode, chainVars, fileVars, queue, bounds>>

(* Then the contracts that are offered to the new owner.                     *)
ToAccept == /\ proc.does = "accept" /\ proc.at \in DOMAIN Contract
            /\ owner[Contract[proc.at]] # "new" /\ Contract[proc.at] \in nominated
SubmitAcceptance ==
  /\ ToAccept /\ mode = "account"
  /\ Perform(<<accept(Contract[proc.at])>>) /\ SentNow(<< <<accept(Contract[proc.at])>> >>)
  /\ proc' = [proc EXCEPT !.at = @ + 1]
  /\ UNCHANGED <<mode, fileVars, queue, bounds>>
CollectAcceptance ==
  /\ ToAccept /\ mode # "account"
  /\ proc' = [proc EXCEPT !.at = @ + 1, !.batch = Collected(accept(Contract[proc.at]))]
  /\ UNCHANGED <<mode, chainVars, fileVars, queue, bounds>>
PassAcceptance ==
  /\ proc.does = "accept" /\ ~ToAccept
  /\ proc' = IF proc.at \in DOMAIN Contract THEN [proc EXCEPT !.at = @ + 1]
             ELSE IF mode = "account" \/ proc.batch = <<>> THEN Off
             ELSE [proc EXCEPT !.does = "submit"]
  /\ UNCHANGED <<mode, chainVars, fileVars, queue, bounds>>

(* One proposal to the safe: of the calls, or for a relay of its batches,    *)
(* each of them a message to the other layer.                                *)
\* A slip: only full batches.
FullBatches(calls) ==
  [i \in 1..(Len(calls) \div batchSize) |-> SubSeq(calls, (i - 1) * batchSize + 1, i * batchSize)]
Batches(calls) ==
  [i \in 1..((Len(calls) + batchSize - 1) \div batchSize) |->
     SubSeq(calls, (i - 1) * batchSize + 1,
            IF i * batchSize < Len(calls) THEN i * batchSize ELSE Len(calls))]
Submit ==
  /\ proc.does = "submit"
  /\ LET batches == IF mode = "safe" THEN <<proc.batch>> ELSE Batches(proc.batch) IN
     /\ queue' = queue \cup {[run |-> bounds.runs, relayed |-> FALSE, batches |-> batches]}
     /\ SentNow(batches)
  /\ proc' = [proc EXCEPT !.does = "write"]
  /\ UNCHANGED <<mode, owner, nominated, performed, fileVars, bounds>>
WriteActions ==
  /\ proc.does = "write"
  /\ complete' = proc.marked
  /\ proc' = Off
  /\ UNCHANGED <<mode, chainVars, ownerActions, queue, bounds>>

Crash ==
  /\ proc # Off /\ bounds.crashes < MaxCrashes
  /\ proc' = Off
  /\ bounds' = [bounds EXCEPT !.crashes = @ + 1]
  /\ UNCHANGED <<mode, chainVars, fileVars, queue>>

(* The signers execute a proposal.  A batch that is relayed arrives on its   *)
(* own, before or after those that were sent with it.                        *)
Execute(p, i) ==
  /\ i \in DOMAIN p.batches /\ (mode = "safe" \/ p.relayed)
  /\ IF Succeeds(p.batches[i]) THEN Perform(p.batches[i])
                               ELSE UNCHANGED <<performed, owner, nominated>>
  /\ queue' = (queue \ {p}) \cup (IF Len(p.batches) = 1 THEN {}
                                  ELSE {[p EXCEPT !.batches = RemoveAt(@, i)]})
  /\ UNCHANGED <<mode, sent, fileVars, proc, bounds>>
Relay(p) ==
  /\ mode = "relay" /\ ~p.relayed
  /\ queue' = (queue \ {p}) \cup {[p EXCEPT !.relayed = TRUE]}
  /\ UNCHANGED <<mode, chainVars, fileVars, proc, bounds>>

Account == SubmitAction \/ WriteMark \/ SubmitAcceptance
Collector == CollectAction \/ CollectAcceptance \/ Submit \/ WriteActions
Process == Nominate \/ Account \/ Collector \/ PassAction \/ PassAcceptance
Signers == \E p \in queue : Relay(p) \/ \E i \in DOMAIN p.batches : Execute(p, i)
Next == LeaveAction \/ StartNominate \/ StartOwner \/ Process \/ Crash \/ Signers

Spec == Init /\ [][Next]_vars
(* Both commands are run again while there is something for them to do, and  *)
(* the signers execute what is proposed.                                     *)
FairSpec == /\ Spec /\ WF_vars(Process) /\ WF_vars(Signers)
            /\ SF_vars(StartOwner) /\ SF_vars(StartNominate) /\ SF_vars(LeaveAction)

-----------------------------------------------------------------------------
(* What is asked of the two commands *)

TypeOK ==
  /\ owner \in [ToSet(Contract) -> {"deployer", "new", "other"}]
  /\ nominated \subseteq {c \in ToSet(Contract) : owner[c] # "new"}
  /\ ToSet(ownerActions) \subseteq Actions /\ complete \subseteq ToSet(ownerActions)
  /\ IsInjective(ownerActions)
  /\ ToSet(performed) \subseteq Calls /\ sent \in [Calls -> Nat]
  /\ proc.does = "nothing" \/ proc.at \in Nat \ {0}

(* An action that the file marks was sent, whole batches and all, and by an  *)
(* account performed: wherever the process is killed, what is not sent is    *)
(* found again by the next run.                                              *)
MarkedWasSent ==
  \A k \in complete : sent[k] > 0 /\ (mode = "account" => k \in ToSet(performed))

(* However often owner is run, an action is sent once, and once more for     *)
(* each run that was killed after it sent it and before it wrote that down.  *)
SentOnce == \A k \in Actions : sent[k] <= 1 + bounds.crashes

(* What owner-actions.json says is so, and nothing is sent twice.            *)
FileIsTrue == TypeOK /\ MarkedWasSent /\ SentOnce

(* Actions are performed in the order in which deployments left them: a new  *)
(* link never before the ones it builds on.  (Not those that are relayed in  *)
(* different batches, nor while a contract is another account's: offering it *)
(* for that account fails, and with it the batch that also has the actions.) *)
NoOther == \A c \in ToSet(Contract) : owner[c] # "other"
OrderKept ==
  mode # "relay" /\ NoOther =>
    \A i \in 2..Len(Left) :
      perform(Left[i]) \in ToSet(performed) => perform(Left[i - 1]) \in ToSet(performed)

(* When every contract is the deployer's or the new owner's, all that        *)
(* deployments leave is performed in the end, and all contracts accepted.    *)
Settled == /\ \A a \in ToSet(Left) : perform(a) \in ToSet(performed)
           /\ \A c \in ToSet(Contract) : owner[c] = "new"
EventuallySettled == NoOther => <>[]Settled

(* "check it does not exist in the pending list": what is in a proposal that *)
(* waits for the signers is not proposed again.  This does not hold if       *)
(* another run begins before they have signed (waitsForSafe = FALSE): the    *)
(* list is never compared with the batches.                                  *)
NotPendingTwice ==
  \A p, q \in queue : p # q =>
    ToSet(FlattenSeq(p.batches)) \cap ToSet(FlattenSeq(q.batches)) = {}
=============================================================================
