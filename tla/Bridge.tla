------------------------------- MODULE Bridge -------------------------------
(***************************************************************************)
(* HZN and synths on two layers: SynthetixBridgeToOptimism on layer 1,     *)
(* SynthetixBridgeToBase on layer 2, and the connect-bridge command that   *)
(* makes them known to each other.                                         *)
(*                                                                         *)
(* HZN that leaves layer 1 is kept in SynthetixBridgeEscrow, and as much   *)
(* is minted on layer 2.  What a bridge sends is a message to the bridge   *)
(* it knows; the messenger delivers messages in any order, and one that    *)
(* fails may be tried again.  A deployment replaces a bridge: until        *)
(* connect-bridge is run, the other one talks to the one that was.         *)
(***************************************************************************)
EXTENDS Integers, FiniteSets, Sums

CONSTANTS
  Account,       \* holders, without debt (accounts with debt may not deposit)
  Entry,         \* vesting entries, all on layer 1 at the start
  NoEntry,       \* an id of nobody's entry, or one that a list repeats
  EntryAmount,   \* the HZN of each
  FirstHZN,      \* what everyone has on layer 1 at the start
  FirstEntries,  \* the entries of each account
  FirstSynths,   \* the synths of an account on each layer
  Amount,        \* amounts passed by callers
  MAX_ENTRIES_MIGRATED_PER_MESSAGE,
  MaxLists,      \* bound: lists of entries in a call
  MaxSent, MaxReplaced, MaxCrashes  \* bounds: calls that send, bridges, crashes

Layer == {1, 2}
Other(l) == 3 - l
\* All bridges of layer 1 are one holder.
Contracts == {"SynthetixBridgeEscrow", "SynthetixBridgeToOptimism",
              "RewardEscrowV2", "RewardsDistribution"}
Holder == Account \cup Contracts
\* The bridges of a layer, in the order in which they are deployed; no bridge.
Generation == 1 .. (MaxReplaced + 1)
None == 0

ASSUME BridgeAssumption ==
  /\ IsFiniteSet(Account) /\ Account \cap Contracts = {} /\ IsFiniteSet(Entry)
  /\ NoEntry \notin Entry /\ EntryAmount \in [Entry -> Nat \ {0}]
  /\ FirstEntries \in [Account -> SUBSET Entry]
  /\ \A a, b \in Account : a # b => FirstEntries[a] \cap FirstEntries[b] = {}
  /\ FirstHZN \in [Holder -> Nat] /\ FirstHZN["SynthetixBridgeEscrow"] = 0
  /\ FirstHZN["RewardEscrowV2"] = SumOver(EntryAmount, UNION {FirstEntries[a] : a \in Account})
  /\ FirstSynths \in [Layer -> [Account -> Nat]]
  /\ Amount \subseteq Nat \ {0}
  /\ {MAX_ENTRIES_MIGRATED_PER_MESSAGE, MaxLists, MaxSent, MaxReplaced, MaxCrashes} \subseteq Nat

VARIABLES
  hzn,       \* balances of HZN on each layer
  entries,   \* vesting entries of each account on each layer
  synths,    \* balances of a synth on each layer
  counters,  \* synths that each layer's bridges sent and received
  messages,  \* sent and not executed
  bridge,    \* the bridge of each layer, in its files and in its resolver
  resolver,  \* the other layer's bridge, in the resolver of each layer
  known,     \* the same, in the cache of each layer's bridge
  initiationActive,  \* of each layer's bridge
  approved,  \* the bridges of layer 1 that may spend the HZN in escrow
  proc,      \* the memory of connect-bridge
  drained,   \* history: nothing was sent past a replacement of a bridge
  bounds

tokenVars == <<hzn, entries, synths, counters>>
linkVars == <<bridge, resolver, known, initiationActive, approved>>
vars == <<tokenVars, messages, linkVars, proc, drained, bounds>>

Off == [at |-> "nothing"]

Init ==
  /\ hzn = [l \in Layer |-> IF l = 1 THEN FirstHZN ELSE [h \in Holder |-> 0]]
  /\ entries = [l \in Layer |-> IF l = 1 THEN FirstEntries ELSE [a \in Account |-> {}]]
  /\ synths = FirstSynths
  /\ counters = [l \in Layer |-> [sent |-> 0, received |-> 0]]
  /\ messages = {}
  /\ bridge = [l \in Layer |-> 1]
  /\ resolver = [l \in Layer |-> None]
  /\ known = [l \in Layer |-> None]
  /\ initiationActive = [l \in Layer |-> TRUE]
  /\ approved = {}
  /\ proc = Off
  /\ drained = TRUE
  /\ bounds = [sent |-> 0, replaced |-> 0, crashes |-> 0, forwarded |-> 0]

-----------------------------------------------------------------------------
(* What a bridge sends *)

Added(balances, h, n) == [balances EXCEPT ![h] = @ + n]
Moved(balances, from, to, n) == Added(Added(balances, from, -n), to, n)

(* A bridge sends to the one that it knows.  A bridge that was replaced      *)
(* sends nothing more: HZN, the escrow, the issuer and the fee pool obey only *)
(* the bridge in the resolver.                                               *)
CanSend(l) == known[l] # None /\ bounds.sent < MaxSent
Message(l, what, of, amount, es) ==
  [tx |-> bounds.sent + 1, layer |-> l, from |-> bridge[l], to |-> known[l],
   what |-> what, of |-> of, amount |-> amount, entries |-> es, zeroSlot |-> FALSE]
Send(new) ==
  /\ messages' = messages \cup new
  /\ bounds' = [bounds EXCEPT !.sent = @ + 1]
  /\ UNCHANGED <<linkVars, proc>>

\* deposit, depositTo, depositReward
Deposit(what, from, to, amount) ==
  /\ CanSend(1) /\ initiationActive[1]
  /\ hzn[1][from] >= amount
  /\ hzn' = [hzn EXCEPT ![1] = Moved(@, from, "SynthetixBridgeEscrow", amount)]
  /\ Send({Message(1, what, to, amount, {})})
  /\ UNCHANGED <<entries, synths, counters, drained>>

(* RewardsDistribution sends HZN to the bridge that its owner has named, one *)
(* that was replaced maybe, and tells it; it does not ask what came of that. *)
(* A suspension does not stop it.                                            *)
distributeRewards(amount) == hzn[1]["RewardsDistribution"] >= amount

notifyRewardAmount(amount) ==
  /\ distributeRewards(amount) /\ CanSend(1)
  /\ hzn' = [hzn EXCEPT ![1] = Moved(@, "RewardsDistribution", "SynthetixBridgeEscrow", amount)]
  /\ Send({Message(1, "reward", "RewardsDistribution", amount, {})})
  /\ drained' = (drained /\ initiationActive[1])
  /\ UNCHANGED <<entries, synths, counters>>

\* The bridge that is told reverts, and keeps the HZN.
notifyFails(amount) ==
  /\ distributeRewards(amount) /\ (bridge[1] > 1 \/ known[1] = None)
  /\ hzn' = [hzn EXCEPT ![1] = Moved(@, "RewardsDistribution", "SynthetixBridgeToOptimism", amount)]
  /\ UNCHANGED <<entries, synths, counters, messages, linkVars, proc, drained, bounds>>

\* A slip: amounts are only set to zero when all lists were read.
burnAtTheEnd(a, lists, i) ==
  [entries |-> lists[i] \cap entries[1][a], zeroSlot |-> ~(lists[i] \subseteq entries[1][a])]

(* A list may name what is no unvested entry of the caller any more, as the  *)
(* lists before it may have taken it: the slot of such an id stays zero.     *)
burnForMigration(a, lists, i) ==
  LET live == entries[1][a] \ UNION {lists[j] : j \in 1 .. (i - 1)}
  IN  [entries |-> lists[i] \cap live, zeroSlot |-> ~(lists[i] \subseteq live)]

(* A list with anything unvested is a message of its own, with the slots     *)
(* that stayed zero.                                                         *)
EscrowMessages(a, burned) ==
  {[Message(1, "escrow", a, SumOver(EntryAmount, b.entries), b.entries)
      EXCEPT !.zeroSlot = b.zeroSlot] : b \in {x \in burned : x.entries # {}}}

\* depositAndMigrateEscrow, and migrateEscrow when nothing is deposited
depositAndMigrateEscrow(a, amount, lists) ==
  LET burned == {burnForMigration(a, lists, i) : i \in DOMAIN lists}
      migrated == UNION {b.entries : b \in burned}
  IN
  /\ CanSend(1) /\ initiationActive[1]
  /\ \A i \in DOMAIN lists : Cardinality(lists[i]) <= MAX_ENTRIES_MIGRATED_PER_MESSAGE
  /\ hzn[1][a] >= amount
  /\ entries' = [entries EXCEPT ![1][a] = @ \ migrated]
  /\ hzn' = [hzn EXCEPT ![1] =
       Moved(Moved(@, "RewardEscrowV2", "SynthetixBridgeEscrow", SumOver(EntryAmount, migrated)),
             a, "SynthetixBridgeEscrow", amount)]
  /\ Send(EscrowMessages(a, burned)
          \cup {Message(1, "deposit", a, n, {}) : n \in {amount} \ {0}})
  /\ UNCHANGED <<synths, counters, drained>>

\* withdraw, withdrawTo
Withdraw(from, to, amount) ==
  /\ CanSend(2) /\ initiationActive[2]
  /\ hzn[2][from] >= amount
  /\ hzn' = [hzn EXCEPT ![2] = Added(@, from, -amount)]
  /\ Send({Message(2, "withdrawal", to, amount, {})})
  /\ UNCHANGED <<entries, synths, counters, drained>>

initiateSynthTransfer(l, from, destination, amount) ==
  /\ CanSend(l) /\ initiationActive[l]
  /\ synths[l][from] >= amount
  /\ counters' = [counters EXCEPT ![l].sent = @ + amount]
  /\ synths' = [synths EXCEPT ![l] = Added(@, from, -amount)]
  /\ Send({Message(l, "synth", destination, amount, {})})
  /\ UNCHANGED <<hzn, entries, drained>>

closeFeePeriod ==
  /\ CanSend(1) /\ initiationActive[1]
  /\ Send({Message(1, "close", "RewardsDistribution", 0, {})})
  /\ UNCHANGED <<tokenVars, drained>>

Initiate ==
  \/ \E a, b \in Account, n \in Amount :
       \/ Deposit("deposit", a, b, n)
       \/ Deposit("reward", a, "RewardsDistribution", n)
       \/ Withdraw(a, b, n)
       \/ \E l \in Layer : initiateSynthTransfer(l, a, b, n)
  \/ \E n \in Amount : notifyRewardAmount(n) \/ notifyFails(n)
  \/ \E a \in Account, n \in Amount \cup {0}, k \in 1 .. MaxLists :
       \E lists \in [1 .. k -> SUBSET (Entry \cup {NoEntry}) \ {{}}] :
         /\ \E i \in 1 .. k : lists[i] \cap entries[1][a] # {}  \* or it is a deposit at most
         /\ depositAndMigrateEscrow(a, n, lists)
  \/ closeFeePeriod

-----------------------------------------------------------------------------
(* What a bridge receives *)

(* onlyCounterpart: from the bridge that the receiver knows; and what it     *)
(* calls obeys the bridge in the resolver only.                              *)
Accepts(m) ==
  LET l == Other(m.layer) IN m.to = bridge[l] /\ known[l] = m.from

finalizeDeposit(m) ==
  /\ m.what \in {"deposit", "reward"}
  /\ hzn' = [hzn EXCEPT ![2] = Added(@, m.of, m.amount)]
  /\ UNCHANGED <<entries, synths, counters>>

\* addVestingEntry refuses a zero slot, and with it the whole message.
finalizeEscrowMigration(m) ==
  /\ m.what = "escrow" /\ ~m.zeroSlot
  /\ hzn' = [hzn EXCEPT ![2] = Added(@, "RewardEscrowV2", m.amount)]
  /\ entries' = [entries EXCEPT ![2][m.of] = @ \cup m.entries]
  /\ UNCHANGED <<synths, counters>>

finalizeWithdrawal(m) ==
  /\ m.what = "withdrawal"
  /\ m.to \in approved /\ hzn[1]["SynthetixBridgeEscrow"] >= m.amount
  /\ hzn' = [hzn EXCEPT ![1] = Moved(@, "SynthetixBridgeEscrow", m.of, m.amount)]
  /\ UNCHANGED <<entries, synths, counters>>

finalizeSynthTransfer(m) ==
  /\ m.what = "synth"
  /\ LET l == Other(m.layer) IN
     /\ counters' = [counters EXCEPT ![l].received = @ + m.amount]
     /\ synths' = [synths EXCEPT ![l] = Added(@, m.of, m.amount)]
  /\ UNCHANGED <<hzn, entries>>

\* What the fee pool of layer 2 makes of it is in FeePool.
finalizeFeePeriodClose(m) == m.what = "close" /\ UNCHANGED tokenVars

Execute(m) ==
  /\ Accepts(m)
  /\ \/ finalizeDeposit(m) \/ finalizeEscrowMigration(m) \/ finalizeWithdrawal(m)
     \/ finalizeSynthTransfer(m) \/ finalizeFeePeriodClose(m)
  /\ messages' = messages \ {m}
  /\ UNCHANGED <<linkVars, proc, drained, bounds>>
Messenger == \E m \in messages : Execute(m)

-----------------------------------------------------------------------------
(* The rest of the layers *)

(* On layer 2 entries vest.  How rewards are claimed there is in FeePool:    *)
(* here they stay with RewardsDistribution.                                  *)
Vest(a, e) ==
  /\ e \in entries[2][a]
  /\ entries' = [entries EXCEPT ![2][a] = @ \ {e}]
  /\ hzn' = [hzn EXCEPT ![2] = Moved(@, "RewardEscrowV2", a, EntryAmount[e])]
  /\ UNCHANGED <<synths, counters, messages, linkVars, proc, drained, bounds>>

(* What a bridge was left with goes to the escrow, where nothing on layer 2  *)
(* stands for it.                                                            *)
forwardTokensToEscrow ==
  LET n == hzn[1]["SynthetixBridgeToOptimism"] IN
  /\ n > 0
  /\ hzn' = [hzn EXCEPT ![1] = Moved(@, "SynthetixBridgeToOptimism", "SynthetixBridgeEscrow", n)]
  /\ bounds' = [bounds EXCEPT !.forwarded = @ + n]
  /\ UNCHANGED <<entries, synths, counters, messages, linkVars, proc, drained>>

(* A deployment replaces the bridge of a layer.  The new one may initiate at *)
(* once; it finds the other layer's bridge in the resolver.  It is drained   *)
(* if nothing is on its way that ever arrives, and nothing more is sent from *)
(* a layer before that layer and its own bridge know each other's.           *)
Replace(l) ==
  /\ bounds.replaced < MaxReplaced
  /\ drained' = /\ drained /\ (\A m \in messages : m.zeroSlot) /\ ~initiationActive[Other(l)]
                /\ resolver[l] \in {None, bridge[Other(l)]}
  /\ bridge' = [bridge EXCEPT ![l] = @ + 1]
  /\ known' = [known EXCEPT ![l] = resolver[l]]
  /\ initiationActive' = [initiationActive EXCEPT ![l] = TRUE]
  /\ bounds' = [bounds EXCEPT !.replaced = @ + 1]
  /\ UNCHANGED <<tokenVars, messages, resolver, approved, proc>>

suspendInitiation(l) ==
  /\ bounds.replaced < MaxReplaced
  /\ initiationActive[l]
  /\ initiationActive' = [initiationActive EXCEPT ![l] = FALSE]
  /\ UNCHANGED <<tokenVars, messages, bridge, resolver, known, approved, proc, drained, bounds>>

resumeInitiation(l) ==
  /\ ~initiationActive[l]
  /\ initiationActive' = [initiationActive EXCEPT ![l] = TRUE]
  /\ drained' = (drained /\ known[l] = bridge[Other(l)])
  /\ UNCHANGED <<tokenVars, messages, bridge, resolver, known, approved, proc, bounds>>

World ==
  \/ \E a \in Account, e \in Entry : Vest(a, e)
  \/ forwardTokensToEscrow
  \/ \E l \in Layer : Replace(l) \/ suspendInitiation(l) \/ resumeInitiation(l)

-----------------------------------------------------------------------------
(* connect-bridge *)

Connected ==
  /\ \A l \in Layer : known[l] = bridge[Other(l)]
  /\ bridge[1] \in approved

(* The addresses of both layers are read from their files.                   *)
connectBridge ==
  /\ proc = Off /\ ~Connected
  /\ proc' = [at |-> "import", layer |-> 1, target |-> bridge]
  /\ UNCHANGED <<tokenVars, messages, linkVars, drained, bounds>>

\* A slip: caches are only rebuilt after an import.
importOrPassOn ==
  /\ proc.at = "import"
  /\ LET l == proc.layer IN
     /\ resolver' = [resolver EXCEPT ![l] = proc.target[Other(l)]]
     /\ proc' = IF resolver[l] # proc.target[Other(l)] THEN [proc EXCEPT !.at = "rebuild"]
                ELSE IF l = 1 THEN [proc EXCEPT !.layer = 2]
                ELSE [proc EXCEPT !.at = "approve"]
  /\ UNCHANGED <<tokenVars, messages, bridge, known, initiationActive, approved, drained, bounds>>

(* The addresses are imported if one of them differs, by the owner of the    *)
(* resolver or by the operator who waits for the owner.                      *)
importAddresses ==
  /\ proc.at = "import"
  /\ resolver' = [resolver EXCEPT ![proc.layer] = proc.target[Other(proc.layer)]]
  /\ proc' = [proc EXCEPT !.at = "rebuild"]
  /\ UNCHANGED <<tokenVars, messages, bridge, known, initiationActive, approved, drained, bounds>>

\* Unless isResolverCached.
rebuildCache ==
  /\ proc.at = "rebuild"
  /\ LET l == proc.layer IN
     /\ known' = IF proc.target[l] = bridge[l] THEN [known EXCEPT ![l] = resolver[l]] ELSE known
     /\ proc' = IF l = 1 THEN [proc EXCEPT !.at = "import", !.layer = 2]
                         ELSE [proc EXCEPT !.at = "approve"]
  /\ UNCHANGED <<tokenVars, messages, bridge, resolver, initiationActive, approved, drained, bounds>>

(* approveBridge, if the allowance is below what the operator calls enough:  *)
(* a bridge has none or practically all.                                     *)
approveBridge ==
  /\ proc.at = "approve"
  /\ approved' = approved \cup {proc.target[1]}
  /\ proc' = Off
  /\ UNCHANGED <<tokenVars, messages, bridge, resolver, known, initiationActive, drained, bounds>>

Crash ==
  /\ proc # Off /\ bounds.crashes < MaxCrashes
  /\ proc' = Off
  /\ bounds' = [bounds EXCEPT !.crashes = @ + 1]
  /\ UNCHANGED <<tokenVars, messages, linkVars, drained>>

Connect == connectBridge \/ importAddresses \/ rebuildCache \/ approveBridge
Next == Initiate \/ Messenger \/ World \/ Connect \/ Crash

Spec == Init /\ [][Next]_vars
(* The messenger tries again what failed, and connect-bridge is run again    *)
(* until the bridges know each other.                                        *)
FairSpec == Spec /\ WF_vars(Messenger) /\ WF_vars(Connect)

-----------------------------------------------------------------------------
(* What is asked of the bridges *)

What == {"deposit", "reward", "escrow", "withdrawal", "synth", "close"}
TypeOK ==
  /\ hzn \in [Layer -> [Holder -> Nat]] /\ synths \in [Layer -> [Account -> Nat]]
  /\ entries \in [Layer -> [Account -> SUBSET Entry]]
  /\ counters \in [Layer -> [sent : Nat, received : Nat]]
  /\ \A m \in messages :
       /\ m.layer \in Layer /\ {m.from, m.to} \subseteq Generation /\ m.what \in What
       /\ m.of \in Holder /\ m.amount \in Nat /\ m.entries \subseteq Entry /\ m.zeroSlot \in BOOLEAN
  /\ bridge \in [Layer -> Generation] /\ resolver \in [Layer -> Generation \cup {None}]
  /\ known \in [Layer -> Generation \cup {None}]
  /\ drained \in BOOLEAN
  /\ initiationActive \in [Layer -> BOOLEAN] /\ approved \subseteq Generation

(* What is on its way: the amounts of the messages of some kinds from a      *)
(* layer, and vesting entries.                                               *)
OnTheWay(kinds, l) ==
  LET sent == {m \in messages : m.what \in kinds /\ m.layer = l}
  IN  SumOver([m \in sent |-> m.amount], sent)
EntriesOnTheWay == UNION {m.entries : m \in messages}
EntriesOf(l) == UNION {entries[l][a] : a \in Account}

(* The HZN in SynthetixBridgeEscrow is what there is on layer 2 and what is  *)
(* on its way in either direction, so that everything can be withdrawn.      *)
Backed ==
  hzn[1]["SynthetixBridgeEscrow"] =
    SumOf(hzn[2]) + OnTheWay({"deposit", "reward"}, 1) + SumOver(EntryAmount, EntriesOnTheWay)
      + OnTheWay({"withdrawal"}, 2) + bounds.forwarded

(* A vesting entry is in one place, with its HZN: in the reward escrow of a  *)
(* layer, or in the message, one that never arrives maybe.                   *)
EntriesBacked ==
  /\ \A l, k \in Layer, a, b \in Account :
       entries[l][a] \cap entries[k][b] # {} => l = k /\ a = b
  /\ \A m, n \in messages : m.entries \cap n.entries # {} => m = n
  /\ \A m \in messages, l \in Layer, a \in Account : m.entries \cap entries[l][a] = {}
  /\ \A m \in messages : m.what = "escrow" => m.amount = SumOver(EntryAmount, m.entries)
  /\ \A l \in Layer : hzn[l]["RewardEscrowV2"] = SumOver(EntryAmount, EntriesOf(l))

(* Synths that leave a layer arrive on the other, and the counters, which    *)
(* the debt of both layers is reckoned from, differ by those on their way.   *)
SynthsKept ==
  /\ SumOf(synths[1]) + SumOf(synths[2]) + OnTheWay({"synth"}, 1) + OnTheWay({"synth"}, 2)
       = SumOf(FirstSynths[1]) + SumOf(FirstSynths[2])
  /\ \A l \in Layer : counters[l].sent = counters[Other(l)].received + OnTheWay({"synth"}, l)

(* Messages neither create nor lose anything, in whatever order they arrive. *)
NothingCreated == TypeOK /\ Backed /\ EntriesBacked /\ SynthsKept

(* Whatever is sent arrives, although connect-bridge is killed and bridges   *)
(* are replaced, if they were drained; all but a list of entries with a zero *)
(* slot, which stays on its way for ever with the unvested entries in it.    *)
EventuallyDelivered == <>[](drained => \A m \in messages : m.zeroSlot)
=============================================================================
