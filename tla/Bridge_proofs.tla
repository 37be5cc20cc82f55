---------------------------- MODULE Bridge_proofs ----------------------------
(***************************************************************************)
(* Theorems about Bridge, for any accounts, entries, amounts and bounds.   *)
(* First how sums change: of balances, of entries, and of what messages    *)
(* carry.  Then what each call does to the books of both layers.           *)
(***************************************************************************)
EXTENDS Bridge, Arithmetic_proofs

-----------------------------------------------------------------------------
(* Balances *)

LEMMA AddedBalance ==
  ASSUME NEW S, NEW f \in [S -> Nat], NEW h \in S, NEW n \in Int, f[h] + n >= 0
  PROVE  /\ Added(f, h, n) \in [S -> Nat]
         /\ Added(f, h, n)[h] = f[h] + n
         /\ \A x \in S \ {h} : Added(f, h, n)[x] = f[x]
BY DEF Added

LEMMA AddedSum ==
  ASSUME NEW S, IsFiniteSet(S), NEW f \in [S -> Nat], NEW h \in S, NEW n \in Int,
         f[h] + n >= 0
  PROVE  SumOf(Added(f, h, n)) = SumOf(f) + n
<1> DEFINE v == f[h] + n
<1>1. f[h] \in Nat /\ v \in Nat
  OBVIOUS
<1>2. Added(f, h, n) = [f EXCEPT ![h] = v]
  BY DEF Added
<1>3. SumOf([f EXCEPT ![h] = v]) = SumOf(f) - f[h] + v
  BY <1>1, SumOfUpdate
<1>4. SumOf(f) \in Nat
  BY SumOfType
<1>5. QED
  BY <1>1, <1>2, <1>3, <1>4

LEMMA MovedBalance ==
  ASSUME NEW S, NEW f \in [S -> Nat], NEW from \in S, NEW to \in S \ {from},
         NEW n \in Nat, f[from] >= n
  PROVE  /\ Moved(f, from, to, n) \in [S -> Nat]
         /\ Moved(f, from, to, n)[from] = f[from] - n
         /\ Moved(f, from, to, n)[to] = f[to] + n
         /\ \A x \in S \ {from, to} : Moved(f, from, to, n)[x] = f[x]
<1> DEFINE g == Added(f, from, -n)
<1>1. /\ g \in [S -> Nat] /\ g[from] = f[from] - n
      /\ \A x \in S \ {from} : g[x] = f[x]
  <2>1. -n \in Int /\ f[from] + (-n) >= 0 /\ f[from] + (-n) = f[from] - n
    OBVIOUS
  <2>2. QED
    BY <2>1, AddedBalance
<1>2. Moved(f, from, to, n) = Added(g, to, n)
  BY DEF Moved
<1> HIDE DEF g
<1>3. g[to] + n >= 0 /\ n \in Int
  BY <1>1
<1>4. /\ Added(g, to, n) \in [S -> Nat]
      /\ Added(g, to, n)[to] = g[to] + n
      /\ \A x \in S \ {to} : Added(g, to, n)[x] = g[x]
  BY <1>1, <1>3, AddedBalance
<1>5. QED
  BY <1>1, <1>2, <1>4

LEMMA MovedSum ==
  ASSUME NEW S, IsFiniteSet(S), NEW f \in [S -> Nat], NEW from \in S,
         NEW to \in S \ {from}, NEW n \in Nat, f[from] >= n
  PROVE  SumOf(Moved(f, from, to, n)) = SumOf(f)
<1> DEFINE g == Added(f, from, -n)
<1>1. -n \in Int /\ f[from] + (-n) >= 0
  OBVIOUS
<1>2. g \in [S -> Nat] /\ SumOf(g) = SumOf(f) + (-n)
  BY <1>1, AddedBalance, AddedSum
<1>3. Moved(f, from, to, n) = Added(g, to, n)
  BY DEF Moved
<1> HIDE DEF g
<1>4. g[to] + n >= 0 /\ n \in Int
  BY <1>2
<1>5. SumOf(Added(g, to, n)) = SumOf(g) + n
  BY <1>2, <1>4, AddedSum
<1>6. SumOf(f) \in Nat
  BY SumOfType
<1>7. QED
  BY <1>2, <1>3, <1>5, <1>6

-----------------------------------------------------------------------------
(* Entries *)

Worth(es) == SumOver(EntryAmount, es)

LEMMA WorthType ==
  ASSUME NEW es \in SUBSET Entry
  PROVE  Worth(es) \in Nat
<1>1. IsFiniteSet(Entry) /\ EntryAmount \in [Entry -> Nat]
  BY BridgeAssumption
<1>2. QED
  BY <1>1, SumOverType DEF Worth

LEMMA WorthNothing == Worth({}) = 0
<1>1. UnitsOver(EntryAmount, {}) = {}
  BY DEF UnitsOver
<1>2. QED
  BY <1>1, FS_EmptySet DEF Worth, SumOver

LEMMA WorthUnion ==
  ASSUME NEW A \in SUBSET Entry, NEW B \in SUBSET Entry, A \cap B = {}
  PROVE  Worth(A \cup B) = Worth(A) + Worth(B)
<1> DEFINE S == A \cup B
           g == [x \in S |-> EntryAmount[x]]
<1>1. IsFiniteSet(S)
  BY BridgeAssumption, FS_Subset
<1>2. g \in [S -> Nat] /\ A \in SUBSET S /\ S \ A = B
  BY BridgeAssumption
<1>3. SumOver(g, S) = SumOver(g, A) + SumOver(g, S \ A)
  <2> HIDE DEF S, g
  <2>1. QED
    BY <1>1, <1>2, SumOverPart
<1>4. /\ \A x \in S : EntryAmount[x] = g[x]
      /\ \A x \in A : EntryAmount[x] = g[x]
      /\ \A x \in B : EntryAmount[x] = g[x]
  OBVIOUS
<1>5. /\ SumOver(EntryAmount, S) = SumOver(g, S)
      /\ SumOver(EntryAmount, A) = SumOver(g, A)
      /\ SumOver(EntryAmount, B) = SumOver(g, B)
  BY <1>4, SumOverAgree
<1>6. QED
  BY <1>2, <1>3, <1>5 DEF Worth

-----------------------------------------------------------------------------
(* Messages *)

\* What the messages of M carry, of some kinds and from a layer.
Matching(M, kinds, l) == {m \in M : m.what \in kinds /\ m.layer = l}
Carried(M, kinds, l) == SumOver([m \in Matching(M, kinds, l) |-> m.amount], Matching(M, kinds, l))

Amounts(M) == IsFiniteSet(M) /\ \A m \in M : m.amount \in Nat

LEMMA OnTheWayIsCarried ==
  ASSUME NEW kinds, NEW l
  PROVE  OnTheWay(kinds, l) = Carried(messages, kinds, l)
BY DEF OnTheWay, Carried, Matching

LEMMA CarriedType ==
  ASSUME NEW M, Amounts(M), NEW kinds, NEW l
  PROVE  Carried(M, kinds, l) \in Nat
<1> DEFINE S == Matching(M, kinds, l)
           f == [m \in S |-> m.amount]
<1>1. IsFiniteSet(S)
  BY FS_Subset DEF Amounts, Matching
<1>2. f \in [S -> Nat] /\ S \in SUBSET S
  BY DEF Amounts, Matching
<1>3. SumOver(f, S) \in Nat
  BY <1>1, <1>2, SumOverType
<1>4. QED
  BY <1>3 DEF Carried

(* One message more, or less: what it adds depends on its kind and layer.  *)
CarriedBy(n, kinds, l) == IF n.what \in kinds /\ n.layer = l THEN n.amount ELSE 0

LEMMA CarriedAdd ==
  ASSUME NEW M, Amounts(M), NEW n, n \notin M, n.amount \in Nat, NEW kinds, NEW l,
         NEW P, P = M \cup {n}
  PROVE  Carried(P, kinds, l) = Carried(M, kinds, l) + CarriedBy(n, kinds, l)
<1>1. CASE n.what \in kinds /\ n.layer = l
  <2> DEFINE S == Matching(M, kinds, l)
             T == Matching(P, kinds, l)
             f == [m \in S |-> m.amount]
             g == [m \in T |-> m.amount]
  <2>1. T = S \cup {n} /\ n \notin S
    BY <1>1 DEF Matching
  <2>2. IsFiniteSet(S)
    BY FS_Subset DEF Amounts, Matching
  <2>3. IsFiniteSet(T)
    <3> HIDE DEF S, T, f, g
    <3>1. QED
      BY <2>1, <2>2, FS_AddElement
  <2>4. g \in [T -> Nat] /\ n \in T /\ g[n] = n.amount
    <3>1. \A m \in T : m.amount \in Nat
      BY DEF Amounts, Matching
    <3>2. n \in T
      BY <1>1 DEF Matching
    <3> HIDE DEF S, T
    <3>3. QED
      BY <3>1, <3>2
  <2>5. SumOver(g, T) = g[n] + SumOver(g, T \ {n}) /\ SumOver(g, T \ {n}) \in Nat
    BY <2>3, <2>4, SumOverSplit
  <2>6. T \ {n} = S /\ \A m \in S : g[m] = f[m]
    <3>1. \A m \in S : m \in T
      BY <2>1
    <3>2. \A m \in S : g[m] = m.amount /\ f[m] = m.amount
      BY <3>1
    <3> HIDE DEF S, T, f, g
    <3>3. QED
      BY <2>1, <3>2
  <2>7. SumOver(g, S) = SumOver(f, S)
    BY <2>6, SumOverAgree
  <2>8. Carried(M, kinds, l) = SumOver(f, S) /\ Carried(P, kinds, l) = SumOver(g, T)
    BY DEF Carried
  <2> HIDE DEF S, T, f, g
  <2>9. SumOver(f, S) \in Nat
    BY <2>5, <2>6, <2>7
  <2>10. CarriedBy(n, kinds, l) = n.amount
    BY <1>1 DEF CarriedBy
  <2>11. QED
    BY <2>4, <2>5, <2>6, <2>7, <2>8, <2>9, <2>10
<1>2. CASE ~(n.what \in kinds /\ n.layer = l)
  <2>1. Matching(P, kinds, l) = Matching(M, kinds, l)
    BY <1>2 DEF Matching
  <2>2. Carried(P, kinds, l) = Carried(M, kinds, l)
    BY <2>1 DEF Carried
  <2>3. Carried(M, kinds, l) \in Nat
    BY CarriedType
  <2>4. CarriedBy(n, kinds, l) = 0
    BY <1>2 DEF CarriedBy
  <2>5. QED
    BY <2>2, <2>3, <2>4
<1>3. QED
  BY <1>1, <1>2

LEMMA CarriedRemove ==
  ASSUME NEW M, Amounts(M), NEW n \in M, NEW kinds, NEW l, NEW P, P = M \ {n}
  PROVE  Carried(M, kinds, l) = Carried(P, kinds, l) + CarriedBy(n, kinds, l)
<1>1. Amounts(P) /\ n \notin P /\ n.amount \in Nat
  BY FS_RemoveElement DEF Amounts
<1>2. M = P \cup {n}
  OBVIOUS
<1>3. QED
  BY <1>1, <1>2, CarriedAdd

(* What the books speak of: HZN on its way to layer 2 and back, and synths. *)
Incoming(M) == Carried(M, {"deposit", "reward"}, 1)
Outgoing(M) == Carried(M, {"withdrawal"}, 2)
Crossing(M, l) == Carried(M, {"synth"}, l)

In(m) == IF m.what \in {"deposit", "reward"} THEN m.amount ELSE 0
Out(m) == IF m.what = "withdrawal" THEN m.amount ELSE 0
Cross(m, l) == IF m.what = "synth" /\ m.layer = l THEN m.amount ELSE 0

\* Who is paid, and what is in a message, by the kind of it.
Addressed(m) ==
  /\ m.what \in {"deposit", "reward", "escrow", "close"} => m.layer = 1
  /\ m.what = "withdrawal" => m.layer = 2
  /\ m.what \in {"deposit", "escrow", "withdrawal", "synth"} => m.of \in Account
  /\ m.what = "reward" => m.of = "RewardsDistribution"
  /\ m.what # "escrow" => m.entries = {}

WellFormed(m) ==
  /\ m.layer \in Layer /\ {m.from, m.to} \subseteq Generation /\ m.what \in What
  /\ m.of \in Holder /\ m.amount \in Nat /\ m.entries \subseteq Entry /\ m.zeroSlot \in BOOLEAN
  /\ Addressed(m)

\* What is sent next is none of those that were.
Sent(M, n) == IsFiniteSet(M) /\ \A m \in M : WellFormed(m) /\ m.tx \in Nat /\ m.tx <= n

LEMMA SentAmounts ==
  ASSUME NEW M, NEW n, Sent(M, n)
  PROVE  Amounts(M)
BY DEF Sent, WellFormed, Amounts

LEMMA InTransitType ==
  ASSUME NEW M, Amounts(M)
  PROVE  Incoming(M) \in Nat /\ Outgoing(M) \in Nat /\ \A l : Crossing(M, l) \in Nat
<1>1. Incoming(M) \in Nat
  BY CarriedType DEF Incoming
<1>2. Outgoing(M) \in Nat
  BY CarriedType DEF Outgoing
<1>3. ASSUME NEW l
      PROVE  Crossing(M, l) \in Nat
  BY CarriedType DEF Crossing
<1>4. QED
  BY <1>1, <1>2, <1>3

LEMMA OneMore ==
  ASSUME NEW M, Amounts(M), NEW m, WellFormed(m), m \notin M, NEW P, P = M \cup {m}
  PROVE  /\ Incoming(P) = Incoming(M) + In(m)
         /\ Outgoing(P) = Outgoing(M) + Out(m)
         /\ \A l : Crossing(P, l) = Crossing(M, l) + Cross(m, l)
<1>1. m.amount \in Nat
  BY DEF WellFormed
<1>2. Incoming(P) = Incoming(M) + In(m)
  <2>1. Carried(P, {"deposit", "reward"}, 1)
          = Carried(M, {"deposit", "reward"}, 1) + CarriedBy(m, {"deposit", "reward"}, 1)
    BY <1>1, CarriedAdd
  <2>2. CarriedBy(m, {"deposit", "reward"}, 1) = In(m)
    BY DEF CarriedBy, In, WellFormed, Addressed
  <2>3. QED
    BY <2>1, <2>2 DEF Incoming
<1>3. Outgoing(P) = Outgoing(M) + Out(m)
  <2>1. Carried(P, {"withdrawal"}, 2)
          = Carried(M, {"withdrawal"}, 2) + CarriedBy(m, {"withdrawal"}, 2)
    BY <1>1, CarriedAdd
  <2>2. CarriedBy(m, {"withdrawal"}, 2) = Out(m)
    BY DEF CarriedBy, Out, WellFormed, Addressed
  <2>3. QED
    BY <2>1, <2>2 DEF Outgoing
<1>4. ASSUME NEW l
      PROVE  Crossing(P, l) = Crossing(M, l) + Cross(m, l)
  <2>1. Carried(P, {"synth"}, l) = Carried(M, {"synth"}, l) + CarriedBy(m, {"synth"}, l)
    BY <1>1, CarriedAdd
  <2>2. CarriedBy(m, {"synth"}, l) = Cross(m, l)
    BY DEF CarriedBy, Cross
  <2>3. QED
    BY <2>1, <2>2 DEF Crossing
<1>5. QED
  BY <1>2, <1>3, <1>4

LEMMA OneLess ==
  ASSUME NEW M, Amounts(M), NEW m \in M, WellFormed(m), NEW P, P = M \ {m}
  PROVE  /\ Incoming(M) = Incoming(P) + In(m)
         /\ Outgoing(M) = Outgoing(P) + Out(m)
         /\ \A l : Crossing(M, l) = Crossing(P, l) + Cross(m, l)
<1>1. Amounts(P) /\ m \notin P
  BY FS_RemoveElement DEF Amounts
<1>2. M = P \cup {m}
  OBVIOUS
<1>3. QED
  BY <1>1, <1>2, OneMore

(* Messages with entries carry nothing else.                               *)
LEMMA EscrowOnly ==
  ASSUME NEW M, NEW N, \A n \in N : n.what = "escrow", NEW P, P = M \cup N
  PROVE  /\ Incoming(P) = Incoming(M) /\ Outgoing(P) = Outgoing(M)
         /\ \A l : Crossing(P, l) = Crossing(M, l)
<1>1. /\ Matching(P, {"deposit", "reward"}, 1) = Matching(M, {"deposit", "reward"}, 1)
      /\ Matching(P, {"withdrawal"}, 2) = Matching(M, {"withdrawal"}, 2)
      /\ \A l : Matching(P, {"synth"}, l) = Matching(M, {"synth"}, l)
  BY DEF Matching
<1>2. QED
  BY <1>1 DEF Incoming, Outgoing, Crossing, Carried

-----------------------------------------------------------------------------
(* The invariant *)

Pool == "SynthetixBridgeEscrow"
Vesting == "RewardEscrowV2"

Balances ==
  /\ hzn \in [Layer -> [Holder -> Nat]] /\ synths \in [Layer -> [Account -> Nat]]
  /\ entries \in [Layer -> [Account -> SUBSET Entry]]
  /\ counters \in [Layer -> [sent : Nat, received : Nat]]

(* What the bridges and the command know of each other.                    *)
Links ==
  /\ bridge \in [Layer -> Generation]
  /\ resolver \in [Layer -> Generation \cup {None}]
  /\ known \in [Layer -> Generation \cup {None}]
  /\ initiationActive \in [Layer -> BOOLEAN] /\ approved \subseteq Generation
  /\ drained \in BOOLEAN
  /\ bounds \in [sent : Nat, replaced : Nat, crashes : Nat, forwarded : Nat]
  /\ \A l \in Layer : bridge[l] <= bounds.replaced + 1
  /\ \/ proc = Off
     \/ proc \in [at : {"import", "rebuild", "approve"}, layer : Layer,
                  target : [Layer -> Generation]]

IInv ==
  /\ Balances /\ Links /\ Sent(messages, bounds.sent)
  /\ Backed /\ EntriesBacked /\ SynthsKept

(* The parts of the books in terms of what the messages carry.             *)
LEMMA BackedIs ==
  Backed <=> hzn[1][Pool] = SumOf(hzn[2]) + Incoming(messages) + Worth(EntriesOnTheWay)
                              + Outgoing(messages) + bounds.forwarded
<1>1. OnTheWay({"deposit", "reward"}, 1) = Incoming(messages)
  BY OnTheWayIsCarried DEF Incoming
<1>2. OnTheWay({"withdrawal"}, 2) = Outgoing(messages)
  BY OnTheWayIsCarried DEF Outgoing
<1>3. QED
  BY <1>1, <1>2 DEF Backed, Pool, Worth

LEMMA SynthsKeptIs ==
  SynthsKept <=>
    /\ SumOf(synths[1]) + SumOf(synths[2]) + Crossing(messages, 1) + Crossing(messages, 2)
         = SumOf(FirstSynths[1]) + SumOf(FirstSynths[2])
    /\ \A l \in Layer : counters[l].sent = counters[Other(l)].received + Crossing(messages, l)
<1>1. \A l : OnTheWay({"synth"}, l) = Crossing(messages, l)
  BY OnTheWayIsCarried DEF Crossing
<1>2. QED
  BY <1>1 DEF SynthsKept

LEMMA HoldersFinite == IsFiniteSet(Account) /\ IsFiniteSet(Holder)
<1>1. IsFiniteSet(Account)
  BY BridgeAssumption
<1>2. IsFiniteSet(Contracts)
  <2>1. IsFiniteSet({"SynthetixBridgeEscrow"})
    BY FS_Singleton
  <2>2. IsFiniteSet({"SynthetixBridgeEscrow"} \cup {"SynthetixBridgeToOptimism"})
    BY <2>1, FS_AddElement
  <2>3. IsFiniteSet(({"SynthetixBridgeEscrow"} \cup {"SynthetixBridgeToOptimism"})
                     \cup {"RewardEscrowV2"})
    BY <2>2, FS_AddElement
  <2>4. IsFiniteSet((({"SynthetixBridgeEscrow"} \cup {"SynthetixBridgeToOptimism"})
                     \cup {"RewardEscrowV2"}) \cup {"RewardsDistribution"})
    BY <2>3, FS_AddElement
  <2>5. Contracts = (({"SynthetixBridgeEscrow"} \cup {"SynthetixBridgeToOptimism"})
                     \cup {"RewardEscrowV2"}) \cup {"RewardsDistribution"}
    BY DEF Contracts
  <2>6. QED
    BY <2>4, <2>5
<1>3. QED
  BY <1>1, <1>2, FS_Union DEF Holder

(* The sums of the invariant are naturals.                                 *)
LEMMA SumsTyped ==
  ASSUME Balances, Sent(messages, bounds.sent)
  PROVE  /\ SumOf(hzn[2]) \in Nat
         /\ SumOf(synths[1]) \in Nat /\ SumOf(synths[2]) \in Nat
         /\ Incoming(messages) \in Nat /\ Outgoing(messages) \in Nat
         /\ Crossing(messages, 1) \in Nat /\ Crossing(messages, 2) \in Nat
         /\ EntriesOnTheWay \in SUBSET Entry /\ Worth(EntriesOnTheWay) \in Nat
<1>1. hzn[2] \in [Holder -> Nat]
  BY DEF Balances, Layer
<1>2. SumOf(hzn[2]) \in Nat
  BY <1>1, HoldersFinite, SumOfType
<1>3. synths[1] \in [Account -> Nat] /\ synths[2] \in [Account -> Nat]
  BY DEF Balances, Layer
<1>4. SumOf(synths[1]) \in Nat /\ SumOf(synths[2]) \in Nat
  BY <1>3, HoldersFinite, SumOfType
<1>5. /\ Incoming(messages) \in Nat /\ Outgoing(messages) \in Nat
      /\ Crossing(messages, 1) \in Nat /\ Crossing(messages, 2) \in Nat
  BY SentAmounts, InTransitType
<1>6. EntriesOnTheWay \in SUBSET Entry
  BY DEF EntriesOnTheWay, Sent, WellFormed
<1>7. Worth(EntriesOnTheWay) \in Nat
  BY <1>6, WorthType
<1>8. QED
  BY <1>2, <1>4, <1>5, <1>6, <1>7

-----------------------------------------------------------------------------
(* What a call that sends does to the messages *)

LEMMA LinksKept ==
  ASSUME Links, UNCHANGED <<linkVars, proc>>, drained' \in BOOLEAN,
         bounds' \in [sent : Nat, replaced : Nat, crashes : Nat, forwarded : Nat],
         bounds'.replaced = bounds.replaced
  PROVE  Links'
BY DEF Links, linkVars

LEMMA MessageFields ==
  ASSUME Links, NEW l \in Layer, CanSend(l), NEW what \in What, NEW of \in Holder,
         NEW amount \in Nat, NEW es \in SUBSET Entry,
         NEW m, m = Message(l, what, of, amount, es)
  PROVE  /\ m.tx = bounds.sent + 1 /\ m.layer = l /\ {m.from, m.to} \subseteq Generation
         /\ m.what = what /\ m.of = of /\ m.amount = amount /\ m.entries = es
         /\ m.zeroSlot \in BOOLEAN
<1>1. bridge[l] \in Generation /\ known[l] \in Generation \cup {None} /\ known[l] # None
  BY DEF Links, CanSend
<1>2. QED
  BY <1>1 DEF Message

LEMMA Sending ==
  ASSUME IInv, NEW N, IsFiniteSet(N), \A n \in N : WellFormed(n) /\ n.tx = bounds.sent + 1,
         Send(N), drained' \in BOOLEAN
  PROVE  /\ Links' /\ Sent(messages', bounds'.sent)
         /\ messages' = messages \cup N /\ N \cap messages = {}
         /\ bounds'.forwarded = bounds.forwarded
<1>1. /\ bounds \in [sent : Nat, replaced : Nat, crashes : Nat, forwarded : Nat]
      /\ bounds' = [bounds EXCEPT !.sent = @ + 1]
      /\ messages' = messages \cup N
      /\ UNCHANGED <<linkVars, proc>>
  BY DEF IInv, Links, Send
<1>2. /\ bounds' \in [sent : Nat, replaced : Nat, crashes : Nat, forwarded : Nat]
      /\ bounds'.sent = bounds.sent + 1 /\ bounds'.replaced = bounds.replaced
      /\ bounds'.forwarded = bounds.forwarded /\ bounds.sent \in Nat
  BY <1>1
<1>3. Links'
  BY <1>1, <1>2, LinksKept DEF IInv
<1>4. IsFiniteSet(messages) /\ \A m \in messages : WellFormed(m) /\ m.tx \in Nat /\ m.tx <= bounds.sent
  BY DEF IInv, Sent
<1>5. IsFiniteSet(messages')
  BY <1>1, <1>4, FS_Union
<1>6. \A m \in messages' : m.tx \in Nat /\ m.tx <= bounds'.sent
  BY <1>1, <1>2, <1>4
<1>7. \A m \in messages' : WellFormed(m)
  BY <1>1, <1>4
<1>8. Sent(messages', bounds'.sent)
  BY <1>5, <1>6, <1>7 DEF Sent
<1>9. N \cap messages = {}
  BY <1>2, <1>4
<1>10. QED
  BY <1>1, <1>2, <1>3, <1>8, <1>9

(* A message without entries.                                              *)
LEMMA SendOne ==
  ASSUME IInv, NEW l \in Layer, CanSend(l), NEW what \in What \ {"escrow"}, NEW of \in Holder,
         NEW amount \in Nat, NEW m, m = Message(l, what, of, amount, {}), Addressed(m),
         Send({m}), drained' \in BOOLEAN
  PROVE  /\ Links' /\ Sent(messages', bounds'.sent)
         /\ messages' = messages \cup {m}
         /\ m.what = what /\ m.entries = {} /\ m.amount = amount /\ m.layer = l
         /\ Incoming(messages') = Incoming(messages) + In(m)
         /\ Outgoing(messages') = Outgoing(messages) + Out(m)
         /\ \A k : Crossing(messages', k) = Crossing(messages, k) + Cross(m, k)
         /\ EntriesOnTheWay' = EntriesOnTheWay
         /\ bounds'.forwarded = bounds.forwarded
<1>1. /\ m.tx = bounds.sent + 1 /\ m.layer = l /\ {m.from, m.to} \subseteq Generation
      /\ m.what = what /\ m.of = of /\ m.amount = amount /\ m.entries = {}
      /\ m.zeroSlot \in BOOLEAN
  BY MessageFields DEF IInv
<1>2. WellFormed(m)
  BY <1>1 DEF WellFormed
<1>3. PICK N : N = {m}
  OBVIOUS
<1>4. IsFiniteSet(N)
  BY <1>3, FS_Singleton
<1>5. /\ Links' /\ Sent(messages', bounds'.sent)
      /\ messages' = messages \cup N /\ N \cap messages = {}
      /\ bounds'.forwarded = bounds.forwarded
  BY <1>1, <1>2, <1>3, <1>4, Sending
<1>6. Amounts(messages)
  BY SentAmounts DEF IInv
<1>7. messages' = messages \cup {m} /\ m \notin messages
  BY <1>3, <1>5
<1>8. /\ Incoming(messages') = Incoming(messages) + In(m)
      /\ Outgoing(messages') = Outgoing(messages) + Out(m)
      /\ \A k : Crossing(messages', k) = Crossing(messages, k) + Cross(m, k)
  BY <1>2, <1>6, <1>7, OneMore
<1>9. EntriesOnTheWay' = EntriesOnTheWay
  BY <1>1, <1>7 DEF EntriesOnTheWay
<1>10. QED
  BY <1>1, <1>5, <1>7, <1>8, <1>9

(* One message is executed.                                                *)
LEMMA Executing ==
  ASSUME IInv, NEW m \in messages, messages' = messages \ {m}, UNCHANGED <<linkVars, proc, drained, bounds>>
  PROVE  /\ Links' /\ Sent(messages', bounds'.sent) /\ WellFormed(m)
         /\ bounds'.forwarded = bounds.forwarded
         /\ Incoming(messages) = Incoming(messages') + In(m)
         /\ Outgoing(messages) = Outgoing(messages') + Out(m)
         /\ \A l : Crossing(messages, l) = Crossing(messages', l) + Cross(m, l)
         /\ Amounts(messages')
<1>1. Links'
  BY LinksKept DEF IInv, Links
<1>2. IsFiniteSet(messages) /\ \A n \in messages : WellFormed(n) /\ n.tx \in Nat /\ n.tx <= bounds.sent
  BY DEF IInv, Sent
<1>3. Sent(messages', bounds'.sent)
  <2>1. IsFiniteSet(messages')
    BY <1>2, FS_RemoveElement
  <2>2. QED
    BY <1>2, <2>1 DEF Sent
<1>4. Amounts(messages) /\ Amounts(messages')
  BY <1>3, SentAmounts DEF IInv
<1>5. /\ Incoming(messages) = Incoming(messages') + In(m)
      /\ Outgoing(messages) = Outgoing(messages') + Out(m)
      /\ \A l : Crossing(messages, l) = Crossing(messages', l) + Cross(m, l)
  BY <1>2, <1>4, OneLess
<1>6. QED
  BY <1>1, <1>2, <1>3, <1>4, <1>5

(* Calls that leave entries, and what messages have of them, alone.        *)
LEMMA EntriesUntouched ==
  ASSUME EntriesBacked, entries' = entries, \A l \in Layer : hzn'[l][Vesting] = hzn[l][Vesting],
         \A m \in messages' : m \in messages \/ (m.entries = {} /\ m.what # "escrow"),
         \A m \in messages : m \in messages' \/ m.entries = {}
  PROVE  EntriesBacked' /\ EntriesOnTheWay' = EntriesOnTheWay
<1>1. EntriesOnTheWay' = EntriesOnTheWay
  BY DEF EntriesOnTheWay
<1>2. /\ \A l, k \in Layer, a, b \in Account :
           entries[l][a] \cap entries[k][b] # {} => l = k /\ a = b
      /\ \A m, n \in messages : m.entries \cap n.entries # {} => m = n
      /\ \A m \in messages, l \in Layer, a \in Account : m.entries \cap entries[l][a] = {}
      /\ \A m \in messages : m.what = "escrow" => m.amount = SumOver(EntryAmount, m.entries)
      /\ \A l \in Layer : hzn[l][Vesting] = SumOver(EntryAmount, EntriesOf(l))
  BY DEF EntriesBacked, Vesting
<1>3. \A l \in Layer : EntriesOf(l)' = EntriesOf(l)
  BY DEF EntriesOf
<1>4. \A m, n \in messages' : m.entries \cap n.entries # {} => m = n
  BY <1>2
<1>5. \A m \in messages', l \in Layer, a \in Account : m.entries \cap entries'[l][a] = {}
  BY <1>2
<1>6. \A m \in messages' : m.what = "escrow" => m.amount = SumOver(EntryAmount, m.entries)
  BY <1>2
<1>7. \A l \in Layer : hzn'[l][Vesting] = SumOver(EntryAmount, EntriesOf(l)')
  BY <1>2, <1>3
<1>8. QED
  BY <1>1, <1>2, <1>4, <1>5, <1>6, <1>7 DEF EntriesBacked, Vesting

LEMMA SynthsKeptNext ==
  ASSUME SumOf(synths'[1]) + SumOf(synths'[2]) + Crossing(messages', 1) + Crossing(messages', 2)
           = SumOf(FirstSynths[1]) + SumOf(FirstSynths[2]),
         \A l \in Layer : counters'[l].sent = counters'[Other(l)].received + Crossing(messages', l)
  PROVE  SynthsKept'
<1>1. \A l : OnTheWay({"synth"}, l)' = Crossing(messages', l)
  BY DEF OnTheWay, Crossing, Carried, Matching
<1>2. QED
  BY <1>1 DEF SynthsKept

(* Calls that send no synths and receive none.                             *)
LEMMA SynthsUntouched ==
  ASSUME SynthsKept, synths' = synths, counters' = counters,
         \A l : Crossing(messages', l) = Crossing(messages, l)
  PROVE  SynthsKept'
<1>1. /\ SumOf(synths[1]) + SumOf(synths[2]) + Crossing(messages, 1) + Crossing(messages, 2)
           = SumOf(FirstSynths[1]) + SumOf(FirstSynths[2])
      /\ \A l \in Layer : counters[l].sent = counters[Other(l)].received + Crossing(messages, l)
  BY SynthsKeptIs
<1>2. /\ SumOf(synths'[1]) + SumOf(synths'[2]) + Crossing(messages', 1) + Crossing(messages', 2)
           = SumOf(FirstSynths[1]) + SumOf(FirstSynths[2])
      /\ \A l \in Layer : counters'[l].sent = counters'[Other(l)].received + Crossing(messages', l)
  BY <1>1
<1>3. QED
  BY <1>2, SynthsKeptNext

-----------------------------------------------------------------------------
(* What a call does to the balances *)

LEMMA Apart ==
  /\ {"SynthetixBridgeEscrow", "SynthetixBridgeToOptimism", "RewardEscrowV2",
      "RewardsDistribution"} \subseteq Holder
  /\ Account \subseteq Holder
  /\ Pool \notin Account /\ Vesting \notin Account
  /\ "SynthetixBridgeToOptimism" \notin Account /\ "RewardsDistribution" \notin Account
BY BridgeAssumption DEF Holder, Contracts, Pool, Vesting

Transfers(from, to, n) == hzn' = [hzn EXCEPT ![1] = Moved(@, from, to, n)]
Mints(h, n) == hzn' = [hzn EXCEPT ![2] = Added(@, h, n)]
SynthsMove(l, a, n) == synths' = [synths EXCEPT ![l] = Added(@, a, n)]

LEMMA FirstLayerMoves ==
  ASSUME Balances, NEW from \in Holder, NEW to \in Holder, from # to, NEW n \in Nat,
         hzn[1][from] >= n, Transfers(from, to, n)
  PROVE  /\ hzn' \in [Layer -> [Holder -> Nat]] /\ hzn'[2] = hzn[2]
         /\ hzn'[1][from] = hzn[1][from] - n /\ hzn'[1][to] = hzn[1][to] + n
         /\ \A h \in Holder : h # from /\ h # to => hzn'[1][h] = hzn[1][h]
<1>1. hzn \in [Layer -> [Holder -> Nat]] /\ 1 \in Layer /\ 2 \in Layer
  BY DEF Balances, Layer
<1>2. PICK f \in [Holder -> Nat] : f = hzn[1]
  BY <1>1
<1>3. PICK g : g = Moved(f, from, to, n)
  OBVIOUS
<1>4. /\ g \in [Holder -> Nat] /\ g[from] = f[from] - n /\ g[to] = f[to] + n
      /\ \A h \in Holder \ {from, to} : g[h] = f[h]
  BY <1>2, <1>3, MovedBalance
<1>5. hzn' = [hzn EXCEPT ![1] = g]
  BY <1>2, <1>3 DEF Transfers
<1>6. QED
  BY <1>1, <1>2, <1>4, <1>5

LEMMA SecondLayerAdds ==
  ASSUME Balances, NEW h \in Holder, NEW n \in Int, hzn[2][h] + n >= 0,
         Mints(h, n)
  PROVE  /\ hzn' \in [Layer -> [Holder -> Nat]] /\ hzn'[1] = hzn[1]
         /\ hzn'[2][h] = hzn[2][h] + n
         /\ \A x \in Holder : x # h => hzn'[2][x] = hzn[2][x]
         /\ SumOf(hzn'[2]) = SumOf(hzn[2]) + n
<1>1. hzn \in [Layer -> [Holder -> Nat]] /\ 1 \in Layer /\ 2 \in Layer
  BY DEF Balances, Layer
<1>2. PICK f \in [Holder -> Nat] : f = hzn[2]
  BY <1>1
<1>3. PICK g : g = Added(f, h, n)
  OBVIOUS
<1>4. /\ g \in [Holder -> Nat] /\ g[h] = f[h] + n
      /\ \A x \in Holder \ {h} : g[x] = f[x]
  BY <1>2, <1>3, AddedBalance
<1>5. SumOf(g) = SumOf(f) + n
  BY <1>2, <1>3, AddedSum, HoldersFinite
<1>6. hzn' = [hzn EXCEPT ![2] = g]
  BY <1>2, <1>3 DEF Mints
<1>7. QED
  BY <1>1, <1>2, <1>4, <1>5, <1>6

(* A balance of synths, next to the other layer's.                         *)
LEMMA SynthsAdd ==
  ASSUME Balances, NEW l \in Layer, NEW a \in Account, NEW n \in Int, synths[l][a] + n >= 0,
         SynthsMove(l, a, n)
  PROVE  /\ synths' \in [Layer -> [Account -> Nat]]
         /\ SumOf(synths'[1]) + SumOf(synths'[2]) = SumOf(synths[1]) + SumOf(synths[2]) + n
<1>1. synths \in [Layer -> [Account -> Nat]] /\ 1 \in Layer /\ 2 \in Layer /\ l \in {1, 2}
  BY DEF Balances, Layer
<1>2. PICK f \in [Account -> Nat] : f = synths[l]
  BY <1>1
<1>3. PICK g : g = Added(f, a, n)
  OBVIOUS
<1>4. g \in [Account -> Nat]
  BY <1>2, <1>3, AddedBalance
<1>5. SumOf(g) = SumOf(f) + n
  BY <1>2, <1>3, AddedSum, HoldersFinite
<1>6. synths' = [synths EXCEPT ![l] = g]
  BY <1>2, <1>3 DEF SynthsMove
<1>7. SumOf(synths[1]) \in Nat /\ SumOf(synths[2]) \in Nat
  BY <1>1, HoldersFinite, SumOfType
<1>8. CASE l = 1
  BY <1>1, <1>2, <1>4, <1>5, <1>6, <1>7, <1>8
<1>9. CASE l = 2
  BY <1>1, <1>2, <1>4, <1>5, <1>6, <1>7, <1>9
<1>10. QED
  BY <1>1, <1>8, <1>9

LEMMA BackedNext ==
  ASSUME hzn'[1][Pool] = SumOf(hzn'[2]) + Incoming(messages') + Worth(EntriesOnTheWay')
                           + Outgoing(messages') + bounds'.forwarded
  PROVE  Backed'
<1>1. OnTheWay({"deposit", "reward"}, 1)' = Incoming(messages')
  BY DEF OnTheWay, Incoming, Carried, Matching
<1>2. OnTheWay({"withdrawal"}, 2)' = Outgoing(messages')
  BY DEF OnTheWay, Outgoing, Carried, Matching
<1>3. QED
  BY <1>1, <1>2 DEF Backed, Pool, Worth

(* What of the invariant a step starts from.                               *)
LEMMA Start ==
  ASSUME IInv
  PROVE  /\ Balances /\ Links /\ Sent(messages, bounds.sent) /\ Amounts(messages)
         /\ EntriesBacked /\ SynthsKept
         /\ hzn[1][Pool] = SumOf(hzn[2]) + Incoming(messages) + Worth(EntriesOnTheWay)
                             + Outgoing(messages) + bounds.forwarded
         /\ hzn[1][Pool] \in Nat /\ bounds.forwarded \in Nat
BY SentAmounts, BackedIs, Apart DEF IInv, Balances, Links, Layer, Pool

-----------------------------------------------------------------------------
(* Each call keeps the invariant *)

(* HZN that is kept in escrow while a message says so.                     *)
LEMMA PaidIn ==
  ASSUME IInv, NEW from \in Holder \ {Pool, Vesting}, NEW of \in Holder, NEW n \in Nat,
         NEW what \in {"deposit", "reward"}, NEW m, m = Message(1, what, of, n, {}),
         Addressed(m), CanSend(1), hzn[1][from] >= n,
         hzn' = [hzn EXCEPT ![1] = Moved(@, from, "SynthetixBridgeEscrow", n)],
         Send({m}), UNCHANGED <<entries, synths, counters>>, drained' \in BOOLEAN
  PROVE  IInv'
<1>1. /\ Balances /\ SynthsKept /\ EntriesBacked
      /\ hzn[1][Pool] = SumOf(hzn[2]) + Incoming(messages) + Worth(EntriesOnTheWay)
                          + Outgoing(messages) + bounds.forwarded
      /\ hzn[1][Pool] \in Nat /\ bounds.forwarded \in Nat
  BY Start
<1>2. /\ Links' /\ Sent(messages', bounds'.sent)
      /\ messages' = messages \cup {m}
      /\ m.what = what /\ m.entries = {} /\ m.amount = n /\ m.layer = 1
      /\ Incoming(messages') = Incoming(messages) + In(m)
      /\ Outgoing(messages') = Outgoing(messages) + Out(m)
      /\ \A k : Crossing(messages', k) = Crossing(messages, k) + Cross(m, k)
      /\ EntriesOnTheWay' = EntriesOnTheWay
      /\ bounds'.forwarded = bounds.forwarded
  <2>1. what \in What \ {"escrow"} /\ 1 \in Layer
    BY DEF What, Layer
  <2>2. QED
    BY <2>1, SendOne
<1>3. In(m) = n /\ Out(m) = 0 /\ \A k : Cross(m, k) = 0
  BY <1>2 DEF In, Out, Cross
<1>4. /\ hzn' \in [Layer -> [Holder -> Nat]] /\ hzn'[2] = hzn[2]
      /\ hzn'[1][Pool] = hzn[1][Pool] + n
      /\ \A h \in Holder : h # from /\ h # Pool => hzn'[1][h] = hzn[1][h]
  <2>1. Pool \in Holder /\ from # Pool /\ from \in Holder
    BY Apart DEF Pool
  <2>2. Transfers(from, Pool, n)
    BY DEF Transfers, Pool
  <2>3. QED
    BY <1>1, <2>1, <2>2, FirstLayerMoves
<1>5. Balances'
  BY <1>1, <1>4 DEF Balances
<1>6. /\ SumOf(hzn[2]) \in Nat /\ Incoming(messages) \in Nat /\ Outgoing(messages) \in Nat
      /\ Worth(EntriesOnTheWay) \in Nat
      /\ \A k : Crossing(messages, k) \in Nat
  BY SumsTyped, Start, InTransitType
<1>7. Backed'
  <2>1. hzn'[1][Pool] = SumOf(hzn'[2]) + Incoming(messages') + Worth(EntriesOnTheWay')
                          + Outgoing(messages') + bounds'.forwarded
    BY <1>1, <1>2, <1>3, <1>4, <1>6
  <2>2. QED
    BY <2>1, BackedNext
<1>8. EntriesBacked'
  <2>1. \A l \in Layer : hzn'[l][Vesting] = hzn[l][Vesting]
    BY <1>4, Apart DEF Layer, Vesting, Pool
  <2>2. \A x \in messages' : x \in messages \/ (x.entries = {} /\ x.what # "escrow")
    BY <1>2
  <2>3. \A x \in messages : x \in messages' \/ x.entries = {}
    BY <1>2
  <2>4. QED
    BY <1>1, <2>1, <2>2, <2>3, EntriesUntouched
<1>9. SynthsKept'
  <2>1. ASSUME NEW k
        PROVE  Crossing(messages', k) = Crossing(messages, k)
    <3>1. /\ Crossing(messages', k) = Crossing(messages, k) + Cross(m, k)
          /\ Cross(m, k) = 0 /\ Crossing(messages, k) \in Nat
      BY <1>2, <1>3, <1>6
    <3>2. QED
      BY <3>1
  <2>2. QED
    BY <1>1, <2>1, SynthsUntouched
<1>10. QED
  BY <1>2, <1>5, <1>7, <1>8, <1>9 DEF IInv

LEMMA DepositKeeps ==
  ASSUME IInv, NEW a \in Account, NEW of \in Holder, NEW n \in Amount,
         NEW what \in {"deposit", "reward"},
         what = "deposit" => of \in Account, what = "reward" => of = "RewardsDistribution",
         Deposit(what, a, of, n)
  PROVE  IInv'
<1>1. n \in Nat /\ a \in Holder \ {Pool, Vesting}
  BY BridgeAssumption, Apart
<1>2. PICK m : m = Message(1, what, of, n, {})
  OBVIOUS
<1>3. Addressed(m)
  BY <1>2 DEF Addressed, Message
<1>4. /\ CanSend(1) /\ hzn[1][a] >= n /\ Send({m}) /\ drained' = drained
      /\ hzn' = [hzn EXCEPT ![1] = Moved(@, a, "SynthetixBridgeEscrow", n)]
      /\ UNCHANGED <<entries, synths, counters>>
  BY <1>2 DEF Deposit
<1>5. drained' \in BOOLEAN
  BY <1>4 DEF IInv, Links
<1>6. QED
  BY <1>1, <1>2, <1>3, <1>4, <1>5, PaidIn

LEMMA NotifyKeeps ==
  ASSUME IInv, NEW n \in Amount, notifyRewardAmount(n)
  PROVE  IInv'
<1>1. n \in Nat /\ "RewardsDistribution" \in Holder \ {Pool, Vesting}
  BY BridgeAssumption, Apart DEF Pool, Vesting
<1>2. PICK m : m = Message(1, "reward", "RewardsDistribution", n, {})
  OBVIOUS
<1>3. Addressed(m)
  BY <1>2 DEF Addressed, Message
<1>4. /\ CanSend(1) /\ hzn[1]["RewardsDistribution"] >= n /\ Send({m})
      /\ hzn' = [hzn EXCEPT ![1] = Moved(@, "RewardsDistribution", "SynthetixBridgeEscrow", n)]
      /\ UNCHANGED <<entries, synths, counters>>
  BY <1>2 DEF notifyRewardAmount, distributeRewards
<1>5. drained' \in BOOLEAN
  BY DEF notifyRewardAmount
<1>6. QED
  BY <1>1, <1>2, <1>3, <1>4, <1>5, PaidIn

LEMMA WithdrawKeeps ==
  ASSUME IInv, NEW a \in Account, NEW b \in Account, NEW n \in Amount, Withdraw(a, b, n)
  PROVE  IInv'
<1>1. n \in Nat /\ a \in Holder /\ b \in Holder /\ a # Vesting /\ 2 \in Layer
  BY BridgeAssumption, Apart DEF Layer
<1>2. /\ Balances /\ SynthsKept /\ EntriesBacked
      /\ hzn[1][Pool] = SumOf(hzn[2]) + Incoming(messages) + Worth(EntriesOnTheWay)
                          + Outgoing(messages) + bounds.forwarded
      /\ hzn[1][Pool] \in Nat /\ bounds.forwarded \in Nat
  BY Start
<1>3. PICK m : m = Message(2, "withdrawal", b, n, {})
  OBVIOUS
<1>4. /\ CanSend(2) /\ hzn[2][a] >= n /\ Send({m}) /\ drained' \in BOOLEAN
      /\ hzn' = [hzn EXCEPT ![2] = Added(@, a, -n)]
      /\ UNCHANGED <<entries, synths, counters>>
  BY <1>3 DEF Withdraw, IInv, Links
<1>5. Addressed(m) /\ "withdrawal" \in What \ {"escrow"}
  BY <1>3 DEF Addressed, Message, What
<1>6. /\ Links' /\ Sent(messages', bounds'.sent)
      /\ messages' = messages \cup {m}
      /\ m.what = "withdrawal" /\ m.entries = {} /\ m.amount = n /\ m.layer = 2
      /\ Incoming(messages') = Incoming(messages) + In(m)
      /\ Outgoing(messages') = Outgoing(messages) + Out(m)
      /\ \A k : Crossing(messages', k) = Crossing(messages, k) + Cross(m, k)
      /\ EntriesOnTheWay' = EntriesOnTheWay
      /\ bounds'.forwarded = bounds.forwarded
  BY <1>1, <1>3, <1>4, <1>5, SendOne
<1>7. In(m) = 0 /\ Out(m) = n /\ \A k : Cross(m, k) = 0
  BY <1>6 DEF In, Out, Cross
<1>8. /\ hzn' \in [Layer -> [Holder -> Nat]] /\ hzn'[1] = hzn[1]
      /\ \A x \in Holder : x # a => hzn'[2][x] = hzn[2][x]
      /\ SumOf(hzn'[2]) = SumOf(hzn[2]) + (-n)
  <2>1. hzn[2][a] \in Nat
    BY <1>1, <1>2 DEF Balances
  <2>2. -n \in Int /\ hzn[2][a] + (-n) >= 0
    BY <1>1, <1>4, <2>1
  <2>3. Mints(a, -n)
    BY <1>4 DEF Mints
  <2>4. QED
    BY <1>1, <1>2, <2>2, <2>3, SecondLayerAdds
<1>9. Balances'
  BY <1>2, <1>4, <1>8 DEF Balances
<1>10. /\ SumOf(hzn[2]) \in Nat /\ Incoming(messages) \in Nat /\ Outgoing(messages) \in Nat
       /\ Worth(EntriesOnTheWay) \in Nat
       /\ \A k : Crossing(messages, k) \in Nat
  BY SumsTyped, Start, InTransitType
<1>11. Backed'
  <2>1. hzn'[1][Pool] = SumOf(hzn'[2]) + Incoming(messages') + Worth(EntriesOnTheWay')
                          + Outgoing(messages') + bounds'.forwarded
    BY <1>1, <1>2, <1>6, <1>7, <1>8, <1>10
  <2>2. QED
    BY <2>1, BackedNext
<1>12. EntriesBacked'
  <2>1. \A l \in Layer : hzn'[l][Vesting] = hzn[l][Vesting]
    BY <1>1, <1>8, Apart DEF Layer, Vesting
  <2>2. \A x \in messages' : x \in messages \/ (x.entries = {} /\ x.what # "escrow")
    BY <1>6
  <2>3. \A x \in messages : x \in messages' \/ x.entries = {}
    BY <1>6
  <2>4. QED
    BY <1>2, <1>4, <2>1, <2>2, <2>3, EntriesUntouched
<1>13. SynthsKept'
  <2>1. ASSUME NEW k
        PROVE  Crossing(messages', k) = Crossing(messages, k)
    <3>1. /\ Crossing(messages', k) = Crossing(messages, k) + Cross(m, k)
          /\ Cross(m, k) = 0 /\ Crossing(messages, k) \in Nat
      BY <1>6, <1>7, <1>10
    <3>2. QED
      BY <3>1
  <2>2. QED
    BY <1>2, <1>4, <2>1, SynthsUntouched
<1>14. QED
  BY <1>6, <1>9, <1>11, <1>12, <1>13 DEF IInv

(* A call that leaves all HZN where it is.                                 *)
LEMMA HZNUntouched ==
  ASSUME IInv, UNCHANGED <<hzn, entries>>, EntriesOnTheWay' = EntriesOnTheWay,
         Incoming(messages') = Incoming(messages), Outgoing(messages') = Outgoing(messages),
         bounds'.forwarded = bounds.forwarded,
         \A x \in messages' : x \in messages \/ (x.entries = {} /\ x.what # "escrow"),
         \A x \in messages : x \in messages' \/ x.entries = {}
  PROVE  Backed' /\ EntriesBacked'
<1>1. hzn[1][Pool] = SumOf(hzn[2]) + Incoming(messages) + Worth(EntriesOnTheWay)
                       + Outgoing(messages) + bounds.forwarded
  BY Start
<1>2. Backed'
  BY <1>1, BackedNext
<1>3. EntriesBacked
  BY DEF IInv
<1>4. EntriesBacked'
  BY <1>3, EntriesUntouched
<1>5. QED
  BY <1>2, <1>4

LEMMA SynthTransferKeeps ==
  ASSUME IInv, NEW l \in Layer, NEW a \in Account, NEW b \in Account, NEW n \in Amount,
         initiateSynthTransfer(l, a, b, n)
  PROVE  IInv'
<1>1. n \in Nat /\ b \in Holder /\ l \in {1, 2}
  BY BridgeAssumption, Apart DEF Layer
<1>2. Balances /\ SynthsKept
  BY Start
<1>3. PICK m : m = Message(l, "synth", b, n, {})
  OBVIOUS
<1>4. /\ CanSend(l) /\ synths[l][a] >= n /\ Send({m}) /\ drained' \in BOOLEAN
      /\ counters' = [counters EXCEPT ![l].sent = @ + n]
      /\ synths' = [synths EXCEPT ![l] = Added(@, a, -n)]
      /\ UNCHANGED <<hzn, entries>>
  BY <1>3 DEF initiateSynthTransfer, IInv, Links
<1>5. Addressed(m) /\ "synth" \in What \ {"escrow"}
  BY <1>3 DEF Addressed, Message, What
<1>6. /\ Links' /\ Sent(messages', bounds'.sent)
      /\ messages' = messages \cup {m}
      /\ m.what = "synth" /\ m.entries = {} /\ m.amount = n /\ m.layer = l
      /\ Incoming(messages') = Incoming(messages) + In(m)
      /\ Outgoing(messages') = Outgoing(messages) + Out(m)
      /\ \A k : Crossing(messages', k) = Crossing(messages, k) + Cross(m, k)
      /\ EntriesOnTheWay' = EntriesOnTheWay
      /\ bounds'.forwarded = bounds.forwarded
  BY <1>1, <1>3, <1>4, <1>5, SendOne
<1>7. In(m) = 0 /\ Out(m) = 0 /\ \A k : Cross(m, k) = IF k = l THEN n ELSE 0
  BY <1>6 DEF In, Out, Cross
<1>8. /\ Incoming(messages) \in Nat /\ Outgoing(messages) \in Nat
      /\ Crossing(messages, 1) \in Nat /\ Crossing(messages, 2) \in Nat
      /\ SumOf(synths[1]) \in Nat /\ SumOf(synths[2]) \in Nat
  BY SumsTyped, Start
<1>9. /\ synths' \in [Layer -> [Account -> Nat]]
      /\ SumOf(synths'[1]) + SumOf(synths'[2]) = SumOf(synths[1]) + SumOf(synths[2]) + (-n)
  <2>1. synths[l][a] \in Nat
    BY <1>1, <1>2 DEF Balances
  <2>2. -n \in Int /\ synths[l][a] + (-n) >= 0
    BY <1>1, <1>4, <2>1
  <2>3. SynthsMove(l, a, -n)
    BY <1>4 DEF SynthsMove
  <2>4. QED
    BY <1>2, <2>2, <2>3, SynthsAdd
<1>10. Balances'
  <2>1. counters \in [Layer -> [sent : Nat, received : Nat]]
    BY <1>2 DEF Balances
  <2>2. counters[l].sent + n \in Nat
    BY <1>1, <2>1
  <2>3. counters' = [counters EXCEPT ![l] = [counters[l] EXCEPT !.sent = counters[l].sent + n]]
    BY <1>4
  <2>4. [counters[l] EXCEPT !.sent = counters[l].sent + n] \in [sent : Nat, received : Nat]
    BY <2>1, <2>2
  <2>5. counters' \in [Layer -> [sent : Nat, received : Nat]]
    BY <2>1, <2>3, <2>4
  <2>6. QED
    BY <1>2, <1>4, <1>9, <2>5 DEF Balances
<1>11. Backed' /\ EntriesBacked'
  <2>1. Incoming(messages') = Incoming(messages) /\ Outgoing(messages') = Outgoing(messages)
    BY <1>6, <1>7, <1>8
  <2>2. \A x \in messages' : x \in messages \/ (x.entries = {} /\ x.what # "escrow")
    BY <1>6
  <2>3. \A x \in messages : x \in messages' \/ x.entries = {}
    BY <1>6
  <2>4. QED
    BY <1>4, <1>6, <2>1, <2>2, <2>3, HZNUntouched
<1>12. SynthsKept'
  <2>1. /\ Crossing(messages', 1) = Crossing(messages, 1) + (IF 1 = l THEN n ELSE 0)
        /\ Crossing(messages', 2) = Crossing(messages, 2) + (IF 2 = l THEN n ELSE 0)
    BY <1>6, <1>7
  <2>2. SumOf(synths'[1]) + SumOf(synths'[2]) + Crossing(messages', 1) + Crossing(messages', 2)
          = SumOf(FirstSynths[1]) + SumOf(FirstSynths[2])
    <3>1. SumOf(synths[1]) + SumOf(synths[2]) + Crossing(messages, 1) + Crossing(messages, 2)
            = SumOf(FirstSynths[1]) + SumOf(FirstSynths[2])
      BY <1>2, SynthsKeptIs
    <3>2. QED
      BY <1>1, <1>8, <1>9, <2>1, <3>1
  <2>3. ASSUME NEW k \in Layer
        PROVE  counters'[k].sent = counters'[Other(k)].received + Crossing(messages', k)
    <3>1. counters[k].sent = counters[Other(k)].received + Crossing(messages, k)
      BY <1>2, SynthsKeptIs
    <3>2. /\ counters'[k].sent = counters[k].sent + (IF k = l THEN n ELSE 0)
          /\ counters'[Other(k)].received = counters[Other(k)].received
          /\ counters[Other(k)].received \in Nat
      BY <1>1, <1>2, <1>4 DEF Balances, Layer, Other
    <3>3. /\ Crossing(messages', k) = Crossing(messages, k) + (IF k = l THEN n ELSE 0)
          /\ Crossing(messages, k) \in Nat
      BY <1>6, <1>7, <1>8 DEF Layer
    <3>4. QED
      BY <1>1, <3>1, <3>2, <3>3
  <2>4. QED
    BY <2>2, <2>3, SynthsKeptNext
<1>13. QED
  BY <1>6, <1>10, <1>11, <1>12 DEF IInv

LEMMA CloseKeeps ==
  ASSUME IInv, closeFeePeriod
  PROVE  IInv'
<1>1. Balances /\ SynthsKept /\ 1 \in Layer /\ 0 \in Nat
  BY Start DEF Layer
<1>2. PICK m : m = Message(1, "close", "RewardsDistribution", 0, {})
  OBVIOUS
<1>3. /\ CanSend(1) /\ Send({m}) /\ drained' \in BOOLEAN
      /\ UNCHANGED <<hzn, entries, synths, counters>>
  BY <1>2 DEF closeFeePeriod, IInv, Links, tokenVars
<1>4. Addressed(m) /\ "close" \in What \ {"escrow"} /\ "RewardsDistribution" \in Holder
  BY <1>2, Apart DEF Addressed, Message, What
<1>5. /\ Links' /\ Sent(messages', bounds'.sent)
      /\ messages' = messages \cup {m}
      /\ m.what = "close" /\ m.entries = {} /\ m.amount = 0 /\ m.layer = 1
      /\ Incoming(messages') = Incoming(messages) + In(m)
      /\ Outgoing(messages') = Outgoing(messages) + Out(m)
      /\ \A k : Crossing(messages', k) = Crossing(messages, k) + Cross(m, k)
      /\ EntriesOnTheWay' = EntriesOnTheWay
      /\ bounds'.forwarded = bounds.forwarded
  BY <1>1, <1>2, <1>3, <1>4, SendOne
<1>6. In(m) = 0 /\ Out(m) = 0 /\ \A k : Cross(m, k) = 0
  BY <1>5 DEF In, Out, Cross
<1>7. /\ Incoming(messages) \in Nat /\ Outgoing(messages) \in Nat
      /\ \A k : Crossing(messages, k) \in Nat
  BY InTransitType, Start
<1>8. Backed' /\ EntriesBacked'
  <2>1. Incoming(messages') = Incoming(messages) /\ Outgoing(messages') = Outgoing(messages)
    BY <1>5, <1>6, <1>7
  <2>2. \A x \in messages' : x \in messages \/ (x.entries = {} /\ x.what # "escrow")
    BY <1>5
  <2>3. \A x \in messages : x \in messages' \/ x.entries = {}
    BY <1>5
  <2>4. QED
    BY <1>3, <1>5, <2>1, <2>2, <2>3, HZNUntouched
<1>9. SynthsKept'
  <2>1. ASSUME NEW k
        PROVE  Crossing(messages', k) = Crossing(messages, k)
    <3>1. /\ Crossing(messages', k) = Crossing(messages, k) + Cross(m, k)
          /\ Cross(m, k) = 0 /\ Crossing(messages, k) \in Nat
      BY <1>5, <1>6, <1>7
    <3>2. QED
      BY <3>1
  <2>2. QED
    BY <1>1, <1>3, <2>1, SynthsUntouched
<1>10. Balances'
  BY <1>1, <1>3 DEF Balances
<1>11. QED
  BY <1>5, <1>8, <1>9, <1>10 DEF IInv

(* A call that sends nothing.                                              *)
LEMMA Silent ==
  ASSUME IInv, UNCHANGED <<messages, bounds>>
  PROVE  /\ Sent(messages', bounds'.sent) /\ EntriesOnTheWay' = EntriesOnTheWay
         /\ Incoming(messages') = Incoming(messages)
         /\ Outgoing(messages') = Outgoing(messages)
         /\ \A k : Crossing(messages', k) = Crossing(messages, k)
         /\ bounds'.forwarded = bounds.forwarded
BY DEF IInv, EntriesOnTheWay

LEMMA NotifyFailsKeeps ==
  ASSUME IInv, NEW n \in Amount, notifyFails(n)
  PROVE  IInv'
<1> DEFINE from == "RewardsDistribution"
           to == "SynthetixBridgeToOptimism"
<1>1. n \in Nat /\ from \in Holder /\ to \in Holder /\ from # to /\ Pool \in Holder
  BY BridgeAssumption, Apart DEF Pool
<1>2. /\ Balances /\ SynthsKept /\ EntriesBacked /\ Links
      /\ hzn[1][Pool] = SumOf(hzn[2]) + Incoming(messages) + Worth(EntriesOnTheWay)
                          + Outgoing(messages) + bounds.forwarded
  BY Start
<1>3. /\ hzn[1][from] >= n /\ Transfers(from, to, n)
      /\ UNCHANGED <<entries, synths, counters, messages, linkVars, proc, drained, bounds>>
  BY DEF notifyFails, distributeRewards, Transfers
<1>4. /\ hzn' \in [Layer -> [Holder -> Nat]] /\ hzn'[2] = hzn[2]
      /\ \A h \in Holder : h # from /\ h # to => hzn'[1][h] = hzn[1][h]
  BY <1>1, <1>2, <1>3, FirstLayerMoves
<1>5. hzn'[1][Pool] = hzn[1][Pool] /\ hzn'[1][Vesting] = hzn[1][Vesting]
  BY <1>1, <1>4, Apart DEF Pool, Vesting
<1>6. /\ Sent(messages', bounds'.sent) /\ EntriesOnTheWay' = EntriesOnTheWay
      /\ Incoming(messages') = Incoming(messages)
      /\ Outgoing(messages') = Outgoing(messages)
      /\ \A k : Crossing(messages', k) = Crossing(messages, k)
      /\ bounds'.forwarded = bounds.forwarded
  BY <1>3, Silent
<1>7. Links' /\ Balances'
  BY <1>2, <1>3, <1>4 DEF Links, linkVars, Balances
<1>8. Backed'
  BY <1>2, <1>4, <1>5, <1>6, BackedNext
<1>9. EntriesBacked'
  <2>1. \A l \in Layer : hzn'[l][Vesting] = hzn[l][Vesting]
    BY <1>4, <1>5 DEF Layer
  <2>2. QED
    BY <1>2, <1>3, <2>1, EntriesUntouched
<1>10. SynthsKept'
  BY <1>2, <1>3, <1>6, SynthsUntouched
<1>11. QED
  BY <1>6, <1>7, <1>8, <1>9, <1>10 DEF IInv

LEMMA ForwardKeeps ==
  ASSUME IInv, forwardTokensToEscrow
  PROVE  IInv'
<1> DEFINE from == "SynthetixBridgeToOptimism"
           n == hzn[1][from]
<1>1. from \in Holder /\ Pool \in Holder /\ from # Pool /\ Vesting \in Holder
      /\ Vesting # Pool /\ Vesting # from
  BY Apart DEF Pool, Vesting
<1>2. /\ Balances /\ SynthsKept /\ EntriesBacked /\ Links
      /\ hzn[1][Pool] = SumOf(hzn[2]) + Incoming(messages) + Worth(EntriesOnTheWay)
                          + Outgoing(messages) + bounds.forwarded
      /\ hzn[1][Pool] \in Nat /\ bounds.forwarded \in Nat
  BY Start
<1>3. n \in Nat
  BY <1>1, <1>2 DEF Balances, Layer
<1>4. /\ Transfers(from, Pool, n)
      /\ bounds' = [bounds EXCEPT !.forwarded = @ + n]
      /\ UNCHANGED <<entries, synths, counters, messages, linkVars, proc, drained>>
  BY DEF forwardTokensToEscrow, Transfers, Pool
<1>5. bounds \in [sent : Nat, replaced : Nat, crashes : Nat, forwarded : Nat]
  BY <1>2 DEF Links
<1> HIDE DEF n
<1>6. /\ bounds' \in [sent : Nat, replaced : Nat, crashes : Nat, forwarded : Nat]
      /\ bounds'.forwarded = bounds.forwarded + n
      /\ bounds'.sent = bounds.sent /\ bounds'.replaced = bounds.replaced
  BY <1>3, <1>4, <1>5
<1>7. hzn[1][from] >= n
  BY <1>3 DEF n
<1>8. /\ hzn' \in [Layer -> [Holder -> Nat]] /\ hzn'[2] = hzn[2]
      /\ hzn'[1][Pool] = hzn[1][Pool] + n
      /\ \A h \in Holder : h # from /\ h # Pool => hzn'[1][h] = hzn[1][h]
  BY <1>1, <1>2, <1>3, <1>4, <1>7, FirstLayerMoves
<1>9. Sent(messages', bounds'.sent)
  BY <1>4, <1>6 DEF IInv
<1>10. Links'
  <2>1. drained' \in BOOLEAN
    BY <1>2, <1>4 DEF Links
  <2>2. QED
    BY <1>2, <1>4, <1>6, <2>1, LinksKept
<1>11. Balances'
  BY <1>2, <1>4, <1>8 DEF Balances
<1>12. EntriesBacked' /\ EntriesOnTheWay' = EntriesOnTheWay
  <2>1. \A l \in Layer : hzn'[l][Vesting] = hzn[l][Vesting]
    BY <1>1, <1>8 DEF Layer
  <2>2. QED
    BY <1>2, <1>4, <2>1, EntriesUntouched
<1>13. Backed'
  <2>1. /\ SumOf(hzn[2]) \in Nat /\ Incoming(messages) \in Nat /\ Outgoing(messages) \in Nat
        /\ Worth(EntriesOnTheWay) \in Nat
    BY SumsTyped, Start
  <2>2. Incoming(messages') = Incoming(messages) /\ Outgoing(messages') = Outgoing(messages)
    BY <1>4
  <2>3. hzn'[1][Pool] = SumOf(hzn'[2]) + Incoming(messages') + Worth(EntriesOnTheWay')
                          + Outgoing(messages') + bounds'.forwarded
    BY <1>2, <1>3, <1>6, <1>8, <1>12, <2>1, <2>2
  <2>4. QED
    BY <2>3, BackedNext
<1>14. SynthsKept'
  BY <1>2, <1>4, SynthsUntouched
<1>15. QED
  BY <1>9, <1>10, <1>11, <1>12, <1>13, <1>14 DEF IInv

-----------------------------------------------------------------------------
(* The links between the layers have no part in the books *)

LEMMA BooksUntouched ==
  ASSUME IInv, UNCHANGED <<tokenVars, messages>>, Links',
         bounds'.sent = bounds.sent, bounds'.forwarded = bounds.forwarded
  PROVE  IInv'
<1>1. UNCHANGED <<hzn, entries, synths, counters, messages>>
  BY DEF tokenVars
<1>2. Balances' /\ Sent(messages', bounds'.sent)
  BY <1>1 DEF IInv, Balances
<1>3. EntriesOnTheWay' = EntriesOnTheWay
  BY <1>1 DEF EntriesOnTheWay
<1>4. Backed' /\ EntriesBacked'
  BY <1>1, <1>3, HZNUntouched
<1>5. SynthsKept'
  BY <1>1, SynthsUntouched DEF IInv
<1>6. QED
  BY <1>2, <1>4, <1>5 DEF IInv

LEMMA LinkStepsKeep ==
  ASSUME IInv
  PROVE  /\ \A l \in Layer : Replace(l) => IInv'
         /\ \A l \in Layer : suspendInitiation(l) \/ resumeInitiation(l) => IInv'
         /\ Connect \/ Crash => IInv'
<1> DEFINE Bounds == [sent : Nat, replaced : Nat, crashes : Nat, forwarded : Nat]
           Command == [at : {"import", "rebuild", "approve"}, layer : Layer,
                       target : [Layer -> Generation]]
<1>1. Links /\ bounds \in Bounds /\ (proc = Off \/ proc \in Command)
  BY DEF IInv, Links
<1>2. Off.at = "nothing" /\ {1, 2} = Layer /\ \A l \in Layer : Other(l) \in Layer
  BY DEF Off, Layer, Other
<1>3. ASSUME NEW l \in Layer, Replace(l)
      PROVE  IInv'
  <2>1. /\ bounds.replaced < MaxReplaced
        /\ bridge' = [bridge EXCEPT ![l] = bridge[l] + 1]
        /\ known' = [known EXCEPT ![l] = resolver[l]]
        /\ initiationActive' = [initiationActive EXCEPT ![l] = TRUE]
        /\ bounds' = [bounds EXCEPT !.replaced = bounds.replaced + 1]
        /\ drained' \in BOOLEAN
        /\ UNCHANGED <<tokenVars, messages, resolver, approved, proc>>
    BY <1>3 DEF Replace
  <2>2. bounds' \in Bounds /\ bounds'.replaced = bounds.replaced + 1
        /\ bounds'.sent = bounds.sent /\ bounds'.forwarded = bounds.forwarded
        /\ bounds.replaced \in Nat
    BY <1>1, <2>1
  <2>3. MaxReplaced \in Nat
    BY BridgeAssumption
  <2>4. bridge \in [Layer -> Generation] /\ \A k \in Layer : bridge[k] <= bounds.replaced + 1
    BY <1>1 DEF Links
  <2>5. bridge[l] + 1 \in Generation
    BY <2>1, <2>2, <2>3, <2>4 DEF Generation
  <2>6. bridge' \in [Layer -> Generation]
    BY <2>1, <2>4, <2>5
  <2>7. \A k \in Layer : bridge'[k] <= bounds'.replaced + 1
    <3>1. ASSUME NEW k \in Layer
          PROVE  bridge'[k] <= bounds'.replaced + 1
      <4>1. bridge[k] \in Nat /\ bridge[k] <= bounds.replaced + 1
        BY <2>4 DEF Generation
      <4>2. bridge'[k] = bridge[k] \/ bridge'[k] = bridge[k] + 1
        BY <2>1, <2>4
      <4>3. QED
        BY <2>2, <4>1, <4>2
    <3>2. QED
      BY <3>1
  <2>8. /\ known' \in [Layer -> Generation \cup {None}]
        /\ resolver' \in [Layer -> Generation \cup {None}]
        /\ initiationActive' \in [Layer -> BOOLEAN] /\ approved' \subseteq Generation
        /\ (proc' = Off \/ proc' \in Command)
    BY <1>1, <2>1 DEF Links
  <2>9. Links'
    BY <2>1, <2>2, <2>6, <2>7, <2>8 DEF Links
  <2>10. QED
    BY <2>1, <2>2, <2>9, BooksUntouched
<1>4. ASSUME NEW l \in Layer, suspendInitiation(l) \/ resumeInitiation(l)
      PROVE  IInv'
  <2>1. /\ initiationActive' \in [Layer -> BOOLEAN] /\ drained' \in BOOLEAN
        /\ UNCHANGED <<tokenVars, messages, bridge, resolver, known, approved, proc, bounds>>
    BY <1>1, <1>4 DEF suspendInitiation, resumeInitiation, Links
  <2>2. Links'
    BY <1>1, <2>1 DEF Links
  <2>3. QED
    BY <2>1, <2>2, BooksUntouched
<1>5. ASSUME connectBridge
      PROVE  IInv'
  <2>1. proc' \in Command
    BY <1>1, <1>2, <1>5 DEF connectBridge, Links
  <2>2. Links'
    BY <1>1, <1>5, <2>1 DEF connectBridge, Links, linkVars
  <2>3. QED
    BY <1>5, <2>2, BooksUntouched DEF connectBridge
<1>6. ASSUME importAddresses
      PROVE  IInv'
  <2>1. proc \in Command
    BY <1>1, <1>2, <1>6 DEF importAddresses
  <2>2. proc' \in Command /\ resolver' \in [Layer -> Generation \cup {None}]
    BY <1>1, <1>2, <1>6, <2>1 DEF importAddresses, Links
  <2>3. Links'
    BY <1>1, <1>6, <2>2 DEF importAddresses, Links
  <2>4. QED
    BY <1>6, <2>3, BooksUntouched DEF importAddresses
<1>7. ASSUME rebuildCache
      PROVE  IInv'
  <2>1. proc \in Command
    BY <1>1, <1>2, <1>7 DEF rebuildCache
  <2>2. proc' \in Command
    BY <1>2, <1>7, <2>1 DEF rebuildCache
  <2>3. known' \in [Layer -> Generation \cup {None}]
    BY <1>1, <1>7, <2>1 DEF rebuildCache, Links
  <2>4. Links'
    BY <1>1, <1>7, <2>2, <2>3 DEF rebuildCache, Links
  <2>5. QED
    BY <1>7, <2>4, BooksUntouched DEF rebuildCache
<1>8. ASSUME approveBridge
      PROVE  IInv'
  <2>1. proc \in Command
    BY <1>1, <1>2, <1>8 DEF approveBridge
  <2>2. approved' \subseteq Generation
    BY <1>1, <1>2, <1>8, <2>1 DEF approveBridge, Links
  <2>3. Links'
    BY <1>1, <1>8, <2>2 DEF approveBridge, Links
  <2>4. QED
    BY <1>8, <2>3, BooksUntouched DEF approveBridge
<1>9. ASSUME Crash
      PROVE  IInv'
  <2>1. /\ bounds' \in Bounds /\ bounds'.replaced = bounds.replaced
        /\ bounds'.sent = bounds.sent /\ bounds'.forwarded = bounds.forwarded
    BY <1>1, <1>9 DEF Crash
  <2>2. Links'
    BY <1>1, <1>9, <2>1 DEF Crash, Links, linkVars
  <2>3. QED
    BY <1>9, <2>1, <2>2, BooksUntouched DEF Crash
<1>10. QED
  BY <1>3, <1>4, <1>5, <1>6, <1>7, <1>8, <1>9 DEF Connect

-----------------------------------------------------------------------------
(* What is received *)

Done(m) == messages' = messages \ {m} /\ UNCHANGED <<linkVars, proc, drained, bounds>>

(* The parts of the invariant that a message without entries leaves alone. *)
LEMMA DoneWithoutEntries ==
  ASSUME IInv, NEW m \in messages, Done(m), m.what # "escrow", entries' = entries,
         \A l \in Layer : hzn'[l][Vesting] = hzn[l][Vesting]
  PROVE  EntriesBacked' /\ EntriesOnTheWay' = EntriesOnTheWay
<1>1. WellFormed(m) /\ messages' = messages \ {m} /\ EntriesBacked
  BY DEF IInv, Sent, Done
<1>2. m.entries = {}
  BY <1>1 DEF WellFormed, Addressed
<1>3. \A x \in messages : x \in messages' \/ x.entries = {}
  BY <1>1, <1>2
<1>4. QED
  BY <1>1, <1>3, EntriesUntouched

LEMMA DepositArrives ==
  ASSUME IInv, NEW m \in messages, Done(m), finalizeDeposit(m)
  PROVE  IInv'
<1>1. /\ Balances /\ SynthsKept
      /\ hzn[1][Pool] = SumOf(hzn[2]) + Incoming(messages) + Worth(EntriesOnTheWay)
                          + Outgoing(messages) + bounds.forwarded
  BY Start
<1>2. /\ Links' /\ Sent(messages', bounds'.sent) /\ WellFormed(m)
      /\ bounds'.forwarded = bounds.forwarded
      /\ Incoming(messages) = Incoming(messages') + In(m)
      /\ Outgoing(messages) = Outgoing(messages') + Out(m)
      /\ \A l : Crossing(messages, l) = Crossing(messages', l) + Cross(m, l)
      /\ Amounts(messages')
  BY Executing DEF Done
<1>3. /\ m.what \in {"deposit", "reward"} /\ UNCHANGED <<entries, synths, counters>>
      /\ Mints(m.of, m.amount)
  BY DEF finalizeDeposit, Mints
<1>4. m.of \in Holder /\ m.of # Vesting /\ m.amount \in Nat
  BY <1>2, <1>3, Apart DEF WellFormed, Addressed, Vesting
<1>5. In(m) = m.amount /\ Out(m) = 0 /\ \A l : Cross(m, l) = 0
  BY <1>3 DEF In, Out, Cross
<1>6. /\ hzn' \in [Layer -> [Holder -> Nat]] /\ hzn'[1] = hzn[1]
      /\ \A x \in Holder : x # m.of => hzn'[2][x] = hzn[2][x]
      /\ SumOf(hzn'[2]) = SumOf(hzn[2]) + m.amount
  <2>1. hzn[2][m.of] \in Nat
    BY <1>1, <1>4 DEF Balances, Layer
  <2>2. m.amount \in Int /\ hzn[2][m.of] + m.amount >= 0
    BY <1>4, <2>1
  <2>3. QED
    BY <1>1, <1>3, <1>4, <2>2, SecondLayerAdds
<1>7. Balances'
  BY <1>1, <1>3, <1>6 DEF Balances
<1>8. EntriesBacked' /\ EntriesOnTheWay' = EntriesOnTheWay
  <2>1. \A l \in Layer : hzn'[l][Vesting] = hzn[l][Vesting]
    BY <1>4, <1>6, Apart DEF Layer, Vesting
  <2>2. QED
    BY <1>3, <2>1, DoneWithoutEntries
<1>9. Backed'
  <2>1. /\ SumOf(hzn[2]) \in Nat /\ Worth(EntriesOnTheWay) \in Nat
        /\ Incoming(messages') \in Nat /\ Outgoing(messages') \in Nat
        /\ bounds.forwarded \in Nat
    BY <1>2, SumsTyped, Start, InTransitType
  <2>2. hzn'[1][Pool] = SumOf(hzn'[2]) + Incoming(messages') + Worth(EntriesOnTheWay')
                          + Outgoing(messages') + bounds'.forwarded
    BY <1>1, <1>2, <1>4, <1>5, <1>6, <1>8, <2>1
  <2>3. QED
    BY <2>2, BackedNext
<1>10. SynthsKept'
  <2>1. ASSUME NEW k
        PROVE  Crossing(messages', k) = Crossing(messages, k)
    <3>1. /\ Crossing(messages, k) = Crossing(messages', k) + Cross(m, k)
          /\ Cross(m, k) = 0 /\ Crossing(messages', k) \in Nat
      BY <1>2, <1>5, InTransitType
    <3>2. QED
      BY <3>1
  <2>2. QED
    BY <1>1, <1>3, <2>1, SynthsUntouched
<1>11. QED
  BY <1>2, <1>7, <1>8, <1>9, <1>10 DEF IInv

LEMMA WithdrawalArrives ==
  ASSUME IInv, NEW m \in messages, Done(m), finalizeWithdrawal(m)
  PROVE  IInv'
<1>1. /\ Balances /\ SynthsKept
      /\ hzn[1][Pool] = SumOf(hzn[2]) + Incoming(messages) + Worth(EntriesOnTheWay)
                          + Outgoing(messages) + bounds.forwarded
  BY Start
<1>2. /\ Links' /\ Sent(messages', bounds'.sent) /\ WellFormed(m)
      /\ bounds'.forwarded = bounds.forwarded
      /\ Incoming(messages) = Incoming(messages') + In(m)
      /\ Outgoing(messages) = Outgoing(messages') + Out(m)
      /\ \A l : Crossing(messages, l) = Crossing(messages', l) + Cross(m, l)
      /\ Amounts(messages')
  BY Executing DEF Done
<1>3. /\ m.what = "withdrawal" /\ UNCHANGED <<entries, synths, counters>>
      /\ hzn[1][Pool] >= m.amount /\ Transfers(Pool, m.of, m.amount)
  BY DEF finalizeWithdrawal, Transfers, Pool
<1>4. /\ m.of \in Holder /\ m.of # Vesting /\ m.of # Pool /\ m.amount \in Nat
      /\ Pool \in Holder /\ Vesting \in Holder /\ Vesting # Pool
  BY <1>2, <1>3, Apart DEF WellFormed, Addressed, Pool, Vesting
<1>5. In(m) = 0 /\ Out(m) = m.amount /\ \A l : Cross(m, l) = 0
  BY <1>3 DEF In, Out, Cross
<1>6. /\ hzn' \in [Layer -> [Holder -> Nat]] /\ hzn'[2] = hzn[2]
      /\ hzn'[1][Pool] = hzn[1][Pool] - m.amount
      /\ \A h \in Holder : h # Pool /\ h # m.of => hzn'[1][h] = hzn[1][h]
  BY <1>1, <1>3, <1>4, FirstLayerMoves
<1>7. Balances'
  BY <1>1, <1>3, <1>6 DEF Balances
<1>8. EntriesBacked' /\ EntriesOnTheWay' = EntriesOnTheWay
  <2>1. \A l \in Layer : hzn'[l][Vesting] = hzn[l][Vesting]
    BY <1>4, <1>6 DEF Layer
  <2>2. QED
    BY <1>3, <2>1, DoneWithoutEntries
<1>9. Backed'
  <2>1. /\ SumOf(hzn[2]) \in Nat /\ Worth(EntriesOnTheWay) \in Nat
        /\ Incoming(messages') \in Nat /\ Outgoing(messages') \in Nat
        /\ bounds.forwarded \in Nat
    BY <1>2, SumsTyped, Start, InTransitType
  <2>2. hzn'[1][Pool] = SumOf(hzn'[2]) + Incoming(messages') + Worth(EntriesOnTheWay')
                          + Outgoing(messages') + bounds'.forwarded
    BY <1>1, <1>2, <1>4, <1>5, <1>6, <1>8, <2>1
  <2>3. QED
    BY <2>2, BackedNext
<1>10. SynthsKept'
  <2>1. ASSUME NEW k
        PROVE  Crossing(messages', k) = Crossing(messages, k)
    <3>1. /\ Crossing(messages, k) = Crossing(messages', k) + Cross(m, k)
          /\ Cross(m, k) = 0 /\ Crossing(messages', k) \in Nat
      BY <1>2, <1>5, InTransitType
    <3>2. QED
      BY <3>1
  <2>2. QED
    BY <1>1, <1>3, <2>1, SynthsUntouched
<1>11. QED
  BY <1>2, <1>7, <1>8, <1>9, <1>10 DEF IInv

LEMMA SynthsArrive ==
  ASSUME IInv, NEW m \in messages, Done(m), finalizeSynthTransfer(m)
  PROVE  IInv'
<1> DEFINE l == Other(m.layer)
           n == m.amount
<1>1. Balances /\ SynthsKept
  BY Start
<1>2. /\ Links' /\ Sent(messages', bounds'.sent) /\ WellFormed(m)
      /\ bounds'.forwarded = bounds.forwarded
      /\ Incoming(messages) = Incoming(messages') + In(m)
      /\ Outgoing(messages) = Outgoing(messages') + Out(m)
      /\ \A k : Crossing(messages, k) = Crossing(messages', k) + Cross(m, k)
      /\ Amounts(messages')
  BY Executing DEF Done
<1>3. /\ m.what = "synth" /\ UNCHANGED <<hzn, entries>>
      /\ counters' = [counters EXCEPT ![l].received = @ + n]
      /\ SynthsMove(l, m.of, n)
  BY DEF finalizeSynthTransfer, SynthsMove
<1>4. m.of \in Account /\ n \in Nat /\ m.layer \in {1, 2} /\ l \in {1, 2} /\ l \in Layer
      /\ Other(l) = m.layer /\ l # m.layer
  BY <1>2, <1>3 DEF WellFormed, Addressed, Layer, Other
<1>5. In(m) = 0 /\ Out(m) = 0 /\ \A k : Cross(m, k) = IF k = m.layer THEN n ELSE 0
  BY <1>3 DEF In, Out, Cross
<1>6. /\ Incoming(messages') \in Nat /\ Outgoing(messages') \in Nat
      /\ Crossing(messages', 1) \in Nat /\ Crossing(messages', 2) \in Nat
      /\ SumOf(synths[1]) \in Nat /\ SumOf(synths[2]) \in Nat
  BY <1>2, SumsTyped, Start, InTransitType
<1> HIDE DEF l, n
<1>7. /\ synths' \in [Layer -> [Account -> Nat]]
      /\ SumOf(synths'[1]) + SumOf(synths'[2]) = SumOf(synths[1]) + SumOf(synths[2]) + n
  <2>1. synths[l][m.of] \in Nat
    BY <1>1, <1>4 DEF Balances
  <2>2. n \in Int /\ synths[l][m.of] + n >= 0
    BY <1>4, <2>1
  <2>3. QED
    BY <1>1, <1>3, <1>4, <2>2, SynthsAdd
<1>8. Balances'
  <2>1. counters \in [Layer -> [sent : Nat, received : Nat]]
    BY <1>1 DEF Balances
  <2>2. counters[l].received + n \in Nat
    BY <1>4, <2>1
  <2>3. counters' = [counters EXCEPT ![l] =
                       [counters[l] EXCEPT !.received = counters[l].received + n]]
    BY <1>3
  <2>4. [counters[l] EXCEPT !.received = counters[l].received + n]
          \in [sent : Nat, received : Nat]
    BY <1>4, <2>1, <2>2
  <2>5. counters' \in [Layer -> [sent : Nat, received : Nat]]
    BY <1>4, <2>1, <2>3, <2>4
  <2>6. QED
    BY <1>1, <1>3, <1>7, <2>5 DEF Balances
<1>9. Backed' /\ EntriesBacked'
  <2>1. Incoming(messages') = Incoming(messages) /\ Outgoing(messages') = Outgoing(messages)
    BY <1>2, <1>5, <1>6
  <2>2. EntriesOnTheWay' = EntriesOnTheWay
    BY <1>3, DoneWithoutEntries
  <2>3. m.entries = {} /\ messages' = messages \ {m}
    BY <1>2, <1>3 DEF WellFormed, Addressed, Done
  <2>4. \A x \in messages : x \in messages' \/ x.entries = {}
    BY <2>3
  <2>5. QED
    BY <1>2, <1>3, <2>1, <2>2, <2>3, <2>4, HZNUntouched
<1>10. SynthsKept'
  <2>1. ASSUME NEW k
        PROVE  Crossing(messages, k) = Crossing(messages', k) + (IF k = m.layer THEN n ELSE 0)
    BY <1>2, <1>5
  <2>2. SumOf(synths'[1]) + SumOf(synths'[2]) + Crossing(messages', 1) + Crossing(messages', 2)
          = SumOf(FirstSynths[1]) + SumOf(FirstSynths[2])
    <3>1. SumOf(synths[1]) + SumOf(synths[2]) + Crossing(messages, 1) + Crossing(messages, 2)
            = SumOf(FirstSynths[1]) + SumOf(FirstSynths[2])
      BY <1>1, SynthsKeptIs
    <3>2. /\ Crossing(messages, 1) = Crossing(messages', 1) + (IF 1 = m.layer THEN n ELSE 0)
          /\ Crossing(messages, 2) = Crossing(messages', 2) + (IF 2 = m.layer THEN n ELSE 0)
      BY <2>1
    <3>3. QED
      BY <1>4, <1>6, <1>7, <3>1, <3>2
  <2>3. ASSUME NEW k \in Layer
        PROVE  counters'[k].sent = counters'[Other(k)].received + Crossing(messages', k)
    <3>1. counters[k].sent = counters[Other(k)].received + Crossing(messages, k)
      BY <1>1, SynthsKeptIs
    <3>2. /\ counters'[k].sent = counters[k].sent
          /\ counters'[Other(k)].received
               = counters[Other(k)].received + (IF k = m.layer THEN n ELSE 0)
          /\ counters[Other(k)].received \in Nat
      BY <1>1, <1>3, <1>4 DEF Balances, Layer, Other
    <3>3. /\ Crossing(messages, k) = Crossing(messages', k) + (IF k = m.layer THEN n ELSE 0)
          /\ Crossing(messages', k) \in Nat
      BY <1>6, <2>1 DEF Layer
    <3>4. QED
      BY <1>4, <3>1, <3>2, <3>3
  <2>4. QED
    BY <2>2, <2>3, SynthsKeptNext
<1>11. QED
  BY <1>2, <1>8, <1>9, <1>10 DEF IInv

LEMMA CloseArrives ==
  ASSUME IInv, NEW m \in messages, Done(m), finalizeFeePeriodClose(m)
  PROVE  IInv'
<1>1. Balances /\ SynthsKept
  BY Start
<1>2. /\ Links' /\ Sent(messages', bounds'.sent) /\ WellFormed(m)
      /\ bounds'.forwarded = bounds.forwarded
      /\ Incoming(messages) = Incoming(messages') + In(m)
      /\ Outgoing(messages) = Outgoing(messages') + Out(m)
      /\ \A k : Crossing(messages, k) = Crossing(messages', k) + Cross(m, k)
      /\ Amounts(messages')
  BY Executing DEF Done
<1>3. m.what = "close" /\ UNCHANGED <<hzn, entries, synths, counters>>
  BY DEF finalizeFeePeriodClose, tokenVars
<1>4. In(m) = 0 /\ Out(m) = 0 /\ \A k : Cross(m, k) = 0
  BY <1>3 DEF In, Out, Cross
<1>5. /\ Incoming(messages') \in Nat /\ Outgoing(messages') \in Nat
      /\ \A k : Crossing(messages', k) \in Nat
  BY <1>2, InTransitType
<1>6. Balances'
  BY <1>1, <1>3 DEF Balances
<1>7. Backed' /\ EntriesBacked'
  <2>1. Incoming(messages') = Incoming(messages) /\ Outgoing(messages') = Outgoing(messages)
    BY <1>2, <1>4, <1>5
  <2>2. EntriesOnTheWay' = EntriesOnTheWay
    BY <1>3, DoneWithoutEntries
  <2>3. m.entries = {} /\ messages' = messages \ {m}
    BY <1>2, <1>3 DEF WellFormed, Addressed, Done
  <2>4. \A x \in messages : x \in messages' \/ x.entries = {}
    BY <2>3
  <2>5. QED
    BY <1>2, <1>3, <2>1, <2>2, <2>3, <2>4, HZNUntouched
<1>8. SynthsKept'
  <2>1. ASSUME NEW k
        PROVE  Crossing(messages', k) = Crossing(messages, k)
    <3>1. /\ Crossing(messages, k) = Crossing(messages', k) + Cross(m, k)
          /\ Cross(m, k) = 0 /\ Crossing(messages', k) \in Nat
      BY <1>2, <1>4, <1>5
    <3>2. QED
      BY <3>1
  <2>2. QED
    BY <1>1, <1>3, <2>1, SynthsUntouched
<1>9. QED
  BY <1>2, <1>6, <1>7, <1>8 DEF IInv

-----------------------------------------------------------------------------
(* Vesting entries that move *)

Puts(l, a, es) == entries' = [entries EXCEPT ![l][a] = @ \cup es]
Takes(l, a, es) == entries' = [entries EXCEPT ![l][a] = @ \ es]

LEMMA EntriesPut ==
  ASSUME Balances, NEW l \in Layer, NEW a \in Account, NEW es \in SUBSET Entry, Puts(l, a, es)
  PROVE  /\ entries' \in [Layer -> [Account -> SUBSET Entry]]
         /\ entries'[l][a] = entries[l][a] \cup es
         /\ \A k \in Layer, b \in Account : k # l \/ b # a => entries'[k][b] = entries[k][b]
         /\ EntriesOf(l)' = EntriesOf(l) \cup es
         /\ \A k \in Layer : k # l => EntriesOf(k)' = EntriesOf(k)
<1>1. entries \in [Layer -> [Account -> SUBSET Entry]]
  BY DEF Balances
<1>2. /\ entries' \in [Layer -> [Account -> SUBSET Entry]]
      /\ entries'[l][a] = entries[l][a] \cup es
      /\ \A k \in Layer, b \in Account : k # l \/ b # a => entries'[k][b] = entries[k][b]
  BY <1>1 DEF Puts
<1>3. EntriesOf(l)' = EntriesOf(l) \cup es
  <2>1. ASSUME NEW e
        PROVE  e \in EntriesOf(l)' <=> e \in EntriesOf(l) \cup es
    BY <1>2 DEF EntriesOf
  <2>2. QED
    BY <2>1
<1>4. \A k \in Layer : k # l => EntriesOf(k)' = EntriesOf(k)
  BY <1>2 DEF EntriesOf
<1>5. QED
  BY <1>2, <1>3, <1>4

LEMMA EntriesTaken ==
  ASSUME Balances, EntriesBacked, NEW l \in Layer, NEW a \in Account,
         NEW es \in SUBSET entries[l][a], Takes(l, a, es)
  PROVE  /\ entries' \in [Layer -> [Account -> SUBSET Entry]]
         /\ entries'[l][a] = entries[l][a] \ es
         /\ \A k \in Layer, b \in Account : k # l \/ b # a => entries'[k][b] = entries[k][b]
         /\ EntriesOf(l) = EntriesOf(l)' \cup es /\ EntriesOf(l)' \cap es = {}
         /\ \A k \in Layer : k # l => EntriesOf(k)' = EntriesOf(k)
<1>1. entries \in [Layer -> [Account -> SUBSET Entry]]
  BY DEF Balances
<1>2. /\ entries' \in [Layer -> [Account -> SUBSET Entry]]
      /\ entries'[l][a] = entries[l][a] \ es
      /\ \A k \in Layer, b \in Account : k # l \/ b # a => entries'[k][b] = entries[k][b]
  BY <1>1 DEF Takes
<1>3. \A b \in Account : b # a => entries[l][b] \cap entries[l][a] = {}
  BY DEF EntriesBacked
<1>4. EntriesOf(l) = EntriesOf(l)' \cup es
  <2>1. ASSUME NEW e
        PROVE  e \in EntriesOf(l) <=> e \in EntriesOf(l)' \cup es
    BY <1>2 DEF EntriesOf
  <2>2. QED
    BY <2>1
<1>5. EntriesOf(l)' \cap es = {}
  <2>1. ASSUME NEW e \in es, NEW b \in Account
        PROVE  e \notin entries'[l][b]
    BY <1>2, <1>3
  <2>2. QED
    BY <2>1 DEF EntriesOf
<1>6. \A k \in Layer : k # l => EntriesOf(k)' = EntriesOf(k)
  BY <1>2 DEF EntriesOf
<1>7. QED
  BY <1>2, <1>4, <1>5, <1>6

(* What of the entries does not depend on balances.                        *)
LEMMA EntriesBackedNext ==
  ASSUME \A l, k \in Layer, a, b \in Account :
           entries'[l][a] \cap entries'[k][b] # {} => l = k /\ a = b,
         \A m, n \in messages' : m.entries \cap n.entries # {} => m = n,
         \A m \in messages', l \in Layer, a \in Account : m.entries \cap entries'[l][a] = {},
         \A m \in messages' : m.what = "escrow" => m.amount = Worth(m.entries),
         \A l \in Layer : hzn'[l][Vesting] = Worth(EntriesOf(l)')
  PROVE  EntriesBacked'
BY DEF EntriesBacked, Worth, Vesting

LEMMA EntriesBackedIs ==
  ASSUME EntriesBacked
  PROVE  /\ \A l, k \in Layer, a, b \in Account :
              entries[l][a] \cap entries[k][b] # {} => l = k /\ a = b
         /\ \A m, n \in messages : m.entries \cap n.entries # {} => m = n
         /\ \A m \in messages, l \in Layer, a \in Account : m.entries \cap entries[l][a] = {}
         /\ \A m \in messages : m.what = "escrow" => m.amount = Worth(m.entries)
         /\ \A l \in Layer : hzn[l][Vesting] = Worth(EntriesOf(l))
BY DEF EntriesBacked, Worth, Vesting

LEMMA EntriesOfType ==
  ASSUME Balances, NEW l \in Layer
  PROVE  EntriesOf(l) \in SUBSET Entry
BY DEF Balances, EntriesOf

LEMMA EscrowArrives ==
  ASSUME IInv, NEW m \in messages, Done(m), finalizeEscrowMigration(m)
  PROVE  IInv'
<1>1. /\ Balances /\ SynthsKept /\ EntriesBacked
      /\ hzn[1][Pool] = SumOf(hzn[2]) + Incoming(messages) + Worth(EntriesOnTheWay)
                          + Outgoing(messages) + bounds.forwarded
  BY Start
<1>2. /\ Links' /\ Sent(messages', bounds'.sent) /\ WellFormed(m)
      /\ bounds'.forwarded = bounds.forwarded
      /\ Incoming(messages) = Incoming(messages') + In(m)
      /\ Outgoing(messages) = Outgoing(messages') + Out(m)
      /\ \A l : Crossing(messages, l) = Crossing(messages', l) + Cross(m, l)
      /\ Amounts(messages')
  BY Executing DEF Done
<1>3. /\ m.what = "escrow" /\ UNCHANGED <<synths, counters>> /\ messages' = messages \ {m}
      /\ Mints(Vesting, m.amount) /\ Puts(2, m.of, m.entries)
  BY DEF finalizeEscrowMigration, Mints, Puts, Vesting, Done
<1>4. /\ m.of \in Account /\ m.amount \in Nat /\ m.entries \in SUBSET Entry
      /\ Vesting \in Holder /\ 1 \in Layer /\ 2 \in Layer
  <2>1. Vesting \in Holder
    BY Apart DEF Vesting
  <2>2. QED
    BY <1>2, <1>3, <2>1 DEF WellFormed, Addressed, Layer
<1>5. In(m) = 0 /\ Out(m) = 0 /\ \A l : Cross(m, l) = 0
  BY <1>3 DEF In, Out, Cross
<1>6. /\ \A l, k \in Layer, a, b \in Account :
           entries[l][a] \cap entries[k][b] # {} => l = k /\ a = b
      /\ \A x, n \in messages : x.entries \cap n.entries # {} => x = n
      /\ \A x \in messages, l \in Layer, a \in Account : x.entries \cap entries[l][a] = {}
      /\ \A x \in messages : x.what = "escrow" => x.amount = Worth(x.entries)
      /\ \A l \in Layer : hzn[l][Vesting] = Worth(EntriesOf(l))
  BY <1>1, EntriesBackedIs
<1>7. /\ hzn' \in [Layer -> [Holder -> Nat]] /\ hzn'[1] = hzn[1]
      /\ hzn'[2][Vesting] = hzn[2][Vesting] + m.amount
      /\ SumOf(hzn'[2]) = SumOf(hzn[2]) + m.amount
  <2>1. hzn[2][Vesting] \in Nat
    BY <1>1, <1>4 DEF Balances
  <2>2. m.amount \in Int /\ hzn[2][Vesting] + m.amount >= 0
    BY <1>4, <2>1
  <2>3. QED
    BY <1>1, <1>3, <1>4, <2>2, SecondLayerAdds
<1>8. /\ entries' \in [Layer -> [Account -> SUBSET Entry]]
      /\ entries'[2][m.of] = entries[2][m.of] \cup m.entries
      /\ \A k \in Layer, b \in Account : k # 2 \/ b # m.of => entries'[k][b] = entries[k][b]
      /\ EntriesOf(2)' = EntriesOf(2) \cup m.entries
      /\ EntriesOf(1)' = EntriesOf(1)
  BY <1>1, <1>3, <1>4, EntriesPut
<1>9. Balances'
  BY <1>1, <1>3, <1>7, <1>8 DEF Balances
<1>10. m.amount = Worth(m.entries)
  BY <1>3, <1>6
<1>11. Worth(EntriesOf(2)') = Worth(EntriesOf(2)) + m.amount
  <2>1. PICK A : A = EntriesOf(2)
    OBVIOUS
  <2>2. PICK B : B = m.entries
    OBVIOUS
  <2>3. A \in SUBSET Entry /\ B \in SUBSET Entry
    BY <1>1, <1>4, <2>1, <2>2, EntriesOfType
  <2>4. A \cap B = {}
    BY <1>4, <1>6, <2>1, <2>2 DEF EntriesOf
  <2>5. Worth(A \cup B) = Worth(A) + Worth(B)
    BY <2>3, <2>4, WorthUnion
  <2>6. EntriesOf(2)' = A \cup B
    BY <1>8, <2>1, <2>2
  <2>7. QED
    BY <1>10, <2>1, <2>2, <2>5, <2>6
<1>12. Worth(EntriesOnTheWay) = Worth(EntriesOnTheWay') + m.amount
  <2>1. PICK A : A = EntriesOnTheWay'
    OBVIOUS
  <2>2. PICK B : B = m.entries
    OBVIOUS
  <2>3. A \in SUBSET Entry /\ B \in SUBSET Entry
    <3>1. \A x \in messages' : x.entries \subseteq Entry
      BY <1>2 DEF Sent, WellFormed
    <3>2. QED
      BY <1>4, <2>1, <2>2, <3>1 DEF EntriesOnTheWay
  <2>4. A \cap B = {}
    <3>1. \A x \in messages' : x.entries \cap B = {}
      BY <1>3, <1>6, <2>2
    <3>2. QED
      BY <2>1, <3>1 DEF EntriesOnTheWay
  <2>5. Worth(A \cup B) = Worth(A) + Worth(B)
    BY <2>3, <2>4, WorthUnion
  <2>6. EntriesOnTheWay = A \cup B
    <3>1. ASSUME NEW e
          PROVE  e \in EntriesOnTheWay <=> e \in A \cup B
      BY <1>3, <2>1, <2>2 DEF EntriesOnTheWay
    <3>2. QED
      BY <3>1
  <2>7. QED
    BY <1>10, <2>1, <2>2, <2>5, <2>6
<1>13. EntriesBacked'
  <2>1. \A l, k \in Layer, a, b \in Account :
          entries'[l][a] \cap entries'[k][b] # {} => l = k /\ a = b
    BY <1>4, <1>6, <1>8
  <2>2. \A x, n \in messages' : x.entries \cap n.entries # {} => x = n
    BY <1>3, <1>6
  <2>3. \A x \in messages', l \in Layer, a \in Account : x.entries \cap entries'[l][a] = {}
    <3>1. ASSUME NEW x \in messages', NEW l \in Layer, NEW a \in Account
          PROVE  x.entries \cap entries'[l][a] = {}
      <4>1. x \in messages /\ x # m
        BY <1>3
      <4>2. x.entries \cap entries[l][a] = {} /\ x.entries \cap m.entries = {}
        BY <1>6, <4>1
      <4>3. entries'[l][a] \subseteq entries[l][a] \cup m.entries
        BY <1>4, <1>8
      <4>4. QED
        BY <4>2, <4>3
    <3>2. QED
      BY <3>1
  <2>4. \A x \in messages' : x.what = "escrow" => x.amount = Worth(x.entries)
    BY <1>3, <1>6
  <2>5. \A l \in Layer : hzn'[l][Vesting] = Worth(EntriesOf(l)')
    <3>1. hzn'[1][Vesting] = Worth(EntriesOf(1)')
      BY <1>4, <1>6, <1>7, <1>8
    <3>2. hzn'[2][Vesting] = Worth(EntriesOf(2)')
      BY <1>4, <1>6, <1>7, <1>11
    <3>3. QED
      BY <3>1, <3>2 DEF Layer
  <2>6. QED
    BY <2>1, <2>2, <2>3, <2>4, <2>5, EntriesBackedNext
<1>14. Backed'
  <2>1. /\ SumOf(hzn[2]) \in Nat /\ Worth(EntriesOnTheWay) \in Nat
        /\ Incoming(messages') \in Nat /\ Outgoing(messages') \in Nat
        /\ bounds.forwarded \in Nat
    BY <1>2, SumsTyped, Start, InTransitType
  <2>2. Worth(EntriesOnTheWay') \in Nat
    <3>1. EntriesOnTheWay' \in SUBSET Entry
      BY <1>2 DEF EntriesOnTheWay, Sent, WellFormed
    <3>2. QED
      BY <3>1, WorthType
  <2>3. hzn'[1][Pool] = SumOf(hzn'[2]) + Incoming(messages') + Worth(EntriesOnTheWay')
                          + Outgoing(messages') + bounds'.forwarded
    BY <1>1, <1>2, <1>4, <1>5, <1>7, <1>12, <2>1, <2>2
  <2>4. QED
    BY <2>3, BackedNext
<1>15. SynthsKept'
  <2>1. ASSUME NEW k
        PROVE  Crossing(messages', k) = Crossing(messages, k)
    <3>1. /\ Crossing(messages, k) = Crossing(messages', k) + Cross(m, k)
          /\ Cross(m, k) = 0 /\ Crossing(messages', k) \in Nat
      BY <1>2, <1>5, InTransitType
    <3>2. QED
      BY <3>1
  <2>2. QED
    BY <1>1, <1>3, <2>1, SynthsUntouched
<1>16. QED
  BY <1>2, <1>9, <1>13, <1>14, <1>15 DEF IInv

LEMMA WorthOne ==
  ASSUME NEW e \in Entry
  PROVE  Worth({e}) = EntryAmount[e] /\ EntryAmount[e] \in Nat
<1> DEFINE S == {e}
           g == [x \in S |-> EntryAmount[x]]
<1>1. EntryAmount[e] \in Nat
  BY BridgeAssumption
<1>2. g \in [S -> Nat] /\ g[e] = EntryAmount[e] /\ IsFiniteSet(S) /\ e \in S
  BY <1>1, FS_Singleton
<1>3. SumOver(g, S) = g[e] + SumOver(g, S \ {e}) /\ SumOver(g, S \ {e}) \in Nat
  BY <1>2, SumOverSplit
<1>4. UnitsOver(g, S \ {e}) = {}
  BY DEF UnitsOver
<1>5. SumOver(g, S \ {e}) = 0
  BY <1>4, FS_EmptySet DEF SumOver
<1>6. SumOver(EntryAmount, S) = SumOver(g, S)
  <2>1. \A x \in S : EntryAmount[x] = g[x]
    OBVIOUS
  <2>2. QED
    BY <2>1, SumOverAgree
<1>7. Worth({e}) = SumOver(EntryAmount, S)
  BY DEF Worth
<1> HIDE DEF g, S
<1>8. QED
  BY <1>1, <1>2, <1>3, <1>5, <1>6, <1>7

Vested(from, to, n) == hzn' = [hzn EXCEPT ![2] = Moved(@, from, to, n)]

LEMMA SecondLayerMoves ==
  ASSUME Balances, NEW from \in Holder, NEW to \in Holder, from # to, NEW n \in Nat,
         hzn[2][from] >= n, Vested(from, to, n)
  PROVE  /\ hzn' \in [Layer -> [Holder -> Nat]] /\ hzn'[1] = hzn[1]
         /\ hzn'[2][from] = hzn[2][from] - n
         /\ SumOf(hzn'[2]) = SumOf(hzn[2])
<1>1. hzn \in [Layer -> [Holder -> Nat]] /\ 1 \in Layer /\ 2 \in Layer
  BY DEF Balances, Layer
<1>2. PICK f \in [Holder -> Nat] : f = hzn[2]
  BY <1>1
<1>3. PICK g : g = Moved(f, from, to, n)
  OBVIOUS
<1>4. to \in Holder \ {from}
  OBVIOUS
<1>5. g \in [Holder -> Nat] /\ g[from] = f[from] - n
  BY <1>2, <1>3, <1>4, MovedBalance
<1>6. SumOf(g) = SumOf(f)
  BY <1>2, <1>3, <1>4, MovedSum, HoldersFinite
<1>7. hzn' = [hzn EXCEPT ![2] = g]
  BY <1>2, <1>3 DEF Vested
<1>8. QED
  BY <1>1, <1>2, <1>5, <1>6, <1>7

LEMMA VestKeeps ==
  ASSUME IInv, NEW a \in Account, NEW e \in Entry, Vest(a, e)
  PROVE  IInv'
<1>1. /\ Balances /\ SynthsKept /\ EntriesBacked /\ Links
      /\ hzn[1][Pool] = SumOf(hzn[2]) + Incoming(messages) + Worth(EntriesOnTheWay)
                          + Outgoing(messages) + bounds.forwarded
  BY Start
<1>2. PICK es : es = {e}
  OBVIOUS
<1>3. /\ es \in SUBSET entries[2][a] /\ Takes(2, a, es)
      /\ Vested(Vesting, a, EntryAmount[e])
      /\ UNCHANGED <<synths, counters, messages, linkVars, proc, drained, bounds>>
  BY <1>2 DEF Vest, Takes, Vested, Vesting
<1>4. 1 \in Layer /\ 2 \in Layer /\ Layer = {1, 2}
  BY DEF Layer
<1>5. /\ entries' \in [Layer -> [Account -> SUBSET Entry]]
      /\ entries'[2][a] = entries[2][a] \ es
      /\ \A k \in Layer, b \in Account : k # 2 \/ b # a => entries'[k][b] = entries[k][b]
      /\ EntriesOf(2) = EntriesOf(2)' \cup es /\ EntriesOf(2)' \cap es = {}
      /\ EntriesOf(1)' = EntriesOf(1)
  BY <1>1, <1>3, <1>4, EntriesTaken
<1>6. /\ Worth(EntriesOf(2)) = Worth(EntriesOf(2)') + EntryAmount[e]
      /\ Worth(EntriesOf(2)') \in Nat /\ EntryAmount[e] \in Nat
  <2>1. PICK A : A = EntriesOf(2)'
    OBVIOUS
  <2>2. A \in SUBSET Entry /\ es \in SUBSET Entry /\ A \cap es = {}
    BY <1>1, <1>2, <1>4, <1>5, <2>1, EntriesOfType
  <2>3. Worth(A \cup es) = Worth(A) + Worth(es)
    BY <2>2, WorthUnion
  <2>4. Worth(es) = EntryAmount[e] /\ EntryAmount[e] \in Nat /\ Worth(A) \in Nat
    BY <1>2, <2>2, WorthOne, WorthType
  <2>5. EntriesOf(2) = A \cup es
    BY <1>5, <2>1
  <2>6. QED
    BY <2>1, <2>3, <2>4, <2>5
<1>7. /\ \A l, k \in Layer, b, c \in Account :
           entries[l][b] \cap entries[k][c] # {} => l = k /\ b = c
      /\ \A x, n \in messages : x.entries \cap n.entries # {} => x = n
      /\ \A x \in messages, l \in Layer, b \in Account : x.entries \cap entries[l][b] = {}
      /\ \A x \in messages : x.what = "escrow" => x.amount = Worth(x.entries)
      /\ \A l \in Layer : hzn[l][Vesting] = Worth(EntriesOf(l))
  BY <1>1, EntriesBackedIs
<1>8. hzn[2][Vesting] >= EntryAmount[e]
  BY <1>4, <1>6, <1>7
<1>9. a \in Holder /\ Vesting \in Holder /\ Vesting # a
  <2>1. Vesting \in Holder
    BY Apart DEF Vesting
  <2>2. QED
    BY <2>1, Apart
<1>10. /\ hzn' \in [Layer -> [Holder -> Nat]] /\ hzn'[1] = hzn[1]
       /\ hzn'[2][Vesting] = hzn[2][Vesting] - EntryAmount[e]
       /\ SumOf(hzn'[2]) = SumOf(hzn[2])
  BY <1>1, <1>3, <1>6, <1>8, <1>9, SecondLayerMoves
<1>11. Links' /\ Balances'
  BY <1>1, <1>3, <1>5, <1>10 DEF Links, linkVars, Balances
<1>12. /\ Sent(messages', bounds'.sent) /\ EntriesOnTheWay' = EntriesOnTheWay
       /\ Incoming(messages') = Incoming(messages)
       /\ Outgoing(messages') = Outgoing(messages)
       /\ \A k : Crossing(messages', k) = Crossing(messages, k)
       /\ bounds'.forwarded = bounds.forwarded
  BY <1>3, Silent
<1>13. EntriesBacked'
  <2>1. \A l \in Layer, b \in Account : entries'[l][b] \subseteq entries[l][b]
    BY <1>5
  <2>2. \A l, k \in Layer, b, c \in Account :
          entries'[l][b] \cap entries'[k][c] # {} => l = k /\ b = c
    <3>1. ASSUME NEW l \in Layer, NEW k \in Layer, NEW b \in Account, NEW c \in Account,
                 entries'[l][b] \cap entries'[k][c] # {}
          PROVE  l = k /\ b = c
      <4>1. entries[l][b] \cap entries[k][c] # {}
        BY <2>1, <3>1
      <4>2. QED
        BY <1>7, <4>1
    <3>2. QED
      BY <3>1
  <2>3. \A x, n \in messages' : x.entries \cap n.entries # {} => x = n
    BY <1>3, <1>7
  <2>4. \A x \in messages', l \in Layer, b \in Account : x.entries \cap entries'[l][b] = {}
    <3>1. ASSUME NEW x \in messages', NEW l \in Layer, NEW b \in Account
          PROVE  x.entries \cap entries'[l][b] = {}
      <4>1. x.entries \cap entries[l][b] = {}
        BY <1>3, <1>7
      <4>2. QED
        BY <2>1, <4>1
    <3>2. QED
      BY <3>1
  <2>5. \A x \in messages' : x.what = "escrow" => x.amount = Worth(x.entries)
    BY <1>3, <1>7
  <2>6. \A l \in Layer : hzn'[l][Vesting] = Worth(EntriesOf(l)')
    <3>1. hzn'[1][Vesting] = Worth(EntriesOf(1)')
      BY <1>4, <1>5, <1>7, <1>10
    <3>2. hzn'[2][Vesting] = Worth(EntriesOf(2)')
      BY <1>4, <1>6, <1>7, <1>10
    <3>3. QED
      BY <1>4, <3>1, <3>2
  <2>7. QED
    BY <2>2, <2>3, <2>4, <2>5, <2>6, EntriesBackedNext
<1>14. Backed'
  <2>1. hzn'[1][Pool] = SumOf(hzn'[2]) + Incoming(messages') + Worth(EntriesOnTheWay')
                          + Outgoing(messages') + bounds'.forwarded
    BY <1>1, <1>10, <1>12
  <2>2. QED
    BY <2>1, BackedNext
<1>15. SynthsKept'
  BY <1>1, <1>3, <1>12, SynthsUntouched
<1>16. QED
  BY <1>11, <1>12, <1>13, <1>14, <1>15 DEF IInv

(* Both kinds of HZN, what was vesting and what was not, are kept.         *)
LEMMA BothKept ==
  ASSUME Balances, NEW a \in Account, NEW w \in Nat, NEW n \in Nat,
         hzn[1][Vesting] >= w, hzn[1][a] >= n,
         hzn' = [hzn EXCEPT ![1] = Moved(Moved(@, Vesting, Pool, w), a, Pool, n)]
  PROVE  /\ hzn' \in [Layer -> [Holder -> Nat]] /\ hzn'[2] = hzn[2]
         /\ hzn'[1][Pool] = hzn[1][Pool] + w + n
         /\ hzn'[1][Vesting] = hzn[1][Vesting] - w
<1>1. hzn \in [Layer -> [Holder -> Nat]] /\ 1 \in Layer /\ 2 \in Layer
  BY DEF Balances, Layer
<1>2. /\ Vesting \in Holder /\ Pool \in Holder \ {Vesting} /\ a \in Holder
      /\ Pool \in Holder \ {a} /\ a # Vesting /\ a # Pool /\ Pool # Vesting
  BY Apart DEF Pool, Vesting
<1>3. PICK f \in [Holder -> Nat] : f = hzn[1]
  BY <1>1
<1>4. PICK g : g = Moved(f, Vesting, Pool, w)
  OBVIOUS
<1>5. PICK h : h = Moved(g, a, Pool, n)
  OBVIOUS
<1>6. /\ g \in [Holder -> Nat] /\ g[Vesting] = f[Vesting] - w /\ g[Pool] = f[Pool] + w
      /\ \A x \in Holder \ {Vesting, Pool} : g[x] = f[x]
  BY <1>2, <1>3, <1>4, MovedBalance
<1>7. g[a] >= n
  BY <1>2, <1>3, <1>6
<1>8. /\ h \in [Holder -> Nat] /\ h[Pool] = g[Pool] + n
      /\ \A x \in Holder \ {a, Pool} : h[x] = g[x]
  BY <1>2, <1>5, <1>6, <1>7, MovedBalance
<1>9. h[Pool] = f[Pool] + w + n /\ h[Vesting] = f[Vesting] - w
  BY <1>2, <1>6, <1>8
<1>10. hzn' = [hzn EXCEPT ![1] = h]
  BY <1>3, <1>4, <1>5
<1>11. QED
  BY <1>1, <1>3, <1>8, <1>9, <1>10

(* What the lists of a call burn: entries of the account, none twice.      *)
Burned(a, lists) == {burnForMigration(a, lists, i) : i \in DOMAIN lists}
BurnedOnce(burned) ==
  \A x, y \in burned : x # y => x.entries \cap y.entries = {}

LEMMA BurnedOnceEach ==
  ASSUME NEW a, NEW k \in Nat, NEW S, NEW lists \in [1 .. k -> SUBSET S]
  PROVE  /\ Burned(a, lists) \subseteq [entries : SUBSET entries[1][a], zeroSlot : BOOLEAN]
         /\ BurnedOnce(Burned(a, lists))
<1> DEFINE b(i) == burnForMigration(a, lists, i)
           live(i) == entries[1][a] \ UNION {lists[j] : j \in 1 .. (i - 1)}
<1>1. Burned(a, lists) = {b(i) : i \in 1 .. k}
  BY DEF Burned
<1>2. \A i \in 1 .. k : /\ b(i) \in [entries : SUBSET entries[1][a], zeroSlot : BOOLEAN]
                        /\ b(i).entries = lists[i] \cap live(i)
  BY DEF burnForMigration
<1>3. ASSUME NEW i \in 1 .. k, NEW j \in 1 .. k, i < j
      PROVE  b(i).entries \cap b(j).entries = {}
  <2>1. i \in 1 .. (j - 1)
    BY <1>3
  <2>2. lists[i] \cap live(j) = {}
    BY <2>1
  <2> HIDE DEF b, live
  <2>3. QED
    BY <1>2, <2>2
<1> HIDE DEF b, live
<1>4. ASSUME NEW i \in 1 .. k, NEW j \in 1 .. k, b(i) # b(j)
      PROVE  b(i).entries \cap b(j).entries = {}
  <2>1. i # j
    BY <1>4
  <2>2. i < j \/ j < i
    BY <2>1
  <2>3. QED
    BY <1>3, <2>2
<1>5. BurnedOnce(Burned(a, lists))
  BY <1>1, <1>4 DEF BurnedOnce
<1>6. QED
  BY <1>1, <1>2, <1>5

(* The messages that carry what lists burnt.                               *)
LEMMA EscrowSent ==
  ASSUME IInv, NEW a \in Account, CanSend(1),
         NEW burned \in SUBSET [entries : SUBSET Entry, zeroSlot : BOOLEAN], BurnedOnce(burned),
         NEW E, E = EscrowMessages(a, burned)
  PROVE  /\ IsFiniteSet(E)
         /\ \A m \in E : /\ WellFormed(m) /\ m.tx = bounds.sent + 1 /\ m.what = "escrow"
                         /\ \E b \in burned : m.entries = b.entries
                         /\ m.amount = Worth(m.entries)
         /\ \A b \in burned : b.entries # {} => \E m \in E : m.entries = b.entries
         /\ \A m, n \in E : m.entries \cap n.entries # {} => m = n
<1> DEFINE M(b) == [Message(1, "escrow", a, Worth(b.entries), b.entries)
                      EXCEPT !.zeroSlot = b.zeroSlot]
           some == {x \in burned : x.entries # {}}
<1>1. E = {M(b) : b \in some}
  BY DEF EscrowMessages, Worth
<1>2. ASSUME NEW b \in some, NEW m, m = M(b)
      PROVE  /\ WellFormed(m) /\ m.tx = bounds.sent + 1 /\ m.what = "escrow"
             /\ m.entries = b.entries /\ m.amount = Worth(b.entries)
  <2>1. /\ b.entries \in SUBSET Entry /\ b.zeroSlot \in BOOLEAN
        /\ Worth(b.entries) \in Nat
    BY WorthType
  <2>2. a \in Holder /\ "escrow" \in What /\ 1 \in Layer /\ Links
    BY Apart DEF What, Layer, IInv
  <2>3. PICK p : p = Message(1, "escrow", a, Worth(b.entries), b.entries)
    OBVIOUS
  <2>4. /\ p.tx = bounds.sent + 1 /\ p.layer = 1 /\ {p.from, p.to} \subseteq Generation
        /\ p.what = "escrow" /\ p.of = a /\ p.amount = Worth(b.entries) /\ p.entries = b.entries
    BY <2>1, <2>2, <2>3, MessageFields
  <2>5. m = [p EXCEPT !.zeroSlot = b.zeroSlot]
    BY <1>2, <2>3
  <2>6. /\ m.tx = p.tx /\ m.layer = p.layer /\ m.from = p.from /\ m.to = p.to
        /\ m.what = p.what /\ m.of = p.of /\ m.amount = p.amount /\ m.entries = p.entries
        /\ m.zeroSlot = b.zeroSlot
    BY <2>3, <2>5 DEF Message
  <2>7. WellFormed(m)
    BY <2>1, <2>2, <2>4, <2>6 DEF WellFormed, Addressed
  <2>8. QED
    BY <2>4, <2>6, <2>7
<1>3. IsFiniteSet(some)
  <2>1. IsFiniteSet(SUBSET Entry)
    BY BridgeAssumption, FS_SUBSET
  <2>2. IsFiniteSet({x.entries : x \in some}) /\ {x.entries : x \in some} \subseteq SUBSET Entry
    BY <2>1, FS_Subset
  <2> DEFINE g == [x \in some |-> x.entries]
             R == {x.entries : x \in some}
  <2>3. g \in Injection(some, R)
    BY DEF Injection, IsInjective, BurnedOnce
  <2>4. QED
    BY <2>2, <2>3, FS_Injection
<1>4. IsFiniteSet(E)
  <2> DEFINE g == [b \in some |-> M(b)]
  <2>1. g \in Surjection(some, E)
    BY <1>1 DEF Surjection
  <2>2. QED
    BY <1>3, <2>1, FS_Surjection
<1> HIDE DEF M
<1>5. \A m, n \in E : m.entries \cap n.entries # {} => m = n
  <2>1. ASSUME NEW m \in E, NEW n \in E, m.entries \cap n.entries # {}
        PROVE  m = n
    <3>1. PICK b \in some, c \in some : m = M(b) /\ n = M(c)
      BY <1>1
    <3>2. m.entries = b.entries /\ n.entries = c.entries
      BY <1>2, <3>1
    <3>3. b = c
      BY <2>1, <3>2 DEF BurnedOnce
    <3>4. QED
      BY <3>1, <3>3
  <2>2. QED
    BY <2>1
<1>6. QED
  BY <1>1, <1>2, <1>4, <1>5

LEMMA EscrowAdded ==
  ASSUME NEW E, \A m \in E : m.what = "escrow", NEW P, P = messages \cup E
  PROVE  /\ Incoming(P) = Incoming(messages)
         /\ Outgoing(P) = Outgoing(messages)
         /\ \A k : Crossing(P, k) = Crossing(messages, k)
<1>1. Incoming(P) = Incoming(messages) /\ Outgoing(P) = Outgoing(messages)
  BY EscrowOnly
<1>2. \A k : Crossing(P, k) = Crossing(messages, k)
  BY EscrowOnly
<1>3. QED
  BY <1>1, <1>2

(* The messages of a call that deposits and migrates: what is added.       *)
LEMMA MigrationSent ==
  ASSUME IInv, NEW a \in Account, NEW n \in Nat, CanSend(1),
         NEW E, IsFiniteSet(E),
         \A m \in E : WellFormed(m) /\ m.tx = bounds.sent + 1 /\ m.what = "escrow",
         Send(E \cup {Message(1, "deposit", a, k, {}) : k \in {n} \ {0}}), drained' \in BOOLEAN
  PROVE  /\ Links' /\ Sent(messages', bounds'.sent) /\ bounds'.forwarded = bounds.forwarded
         /\ messages \cup E \subseteq messages'
         /\ \A m \in messages' : m \in messages \cup E \/ (m.entries = {} /\ m.what # "escrow")
         /\ Incoming(messages') = Incoming(messages) + n
         /\ Outgoing(messages') = Outgoing(messages)
         /\ \A k : Crossing(messages', k) = Crossing(messages, k)
<1>1. /\ IsFiniteSet(E)
      /\ \A m \in E : WellFormed(m) /\ m.tx = bounds.sent + 1 /\ m.what = "escrow"
  OBVIOUS
<1>2. PICK d : d = Message(1, "deposit", a, n, {})
  OBVIOUS
<1>3. /\ d.tx = bounds.sent + 1 /\ d.layer = 1 /\ {d.from, d.to} \subseteq Generation
      /\ d.what = "deposit" /\ d.of = a /\ d.amount = n /\ d.entries = {}
      /\ d.zeroSlot \in BOOLEAN
  <2>1. a \in Holder /\ "deposit" \in What /\ 1 \in Layer /\ Links /\ {} \in SUBSET Entry
    BY Apart DEF What, Layer, IInv
  <2>2. QED
    BY <1>2, <2>1, MessageFields
<1>4. WellFormed(d)
  <2>1. a \in Holder
    BY Apart
  <2>2. QED
    BY <1>3, <2>1 DEF WellFormed, Addressed, Layer, What
<1>5. PICK P : P = messages \cup E
  OBVIOUS
<1>6. Sent(messages, bounds.sent) /\ Amounts(messages)
  BY Start
<1>7. /\ Incoming(P) = Incoming(messages) /\ Outgoing(P) = Outgoing(messages)
      /\ \A k : Crossing(P, k) = Crossing(messages, k)
  <2>1. \A m \in E : m.what = "escrow"
    BY <1>1
  <2>2. QED
    BY <1>5, <2>1, EscrowAdded
<1>8. Amounts(P)
  <2>1. IsFiniteSet(P)
    BY <1>1, <1>5, <1>6, FS_Union DEF Amounts
  <2>2. \A m \in P : m.amount \in Nat
    BY <1>1, <1>5, <1>6 DEF Amounts, WellFormed
  <2>3. QED
    BY <2>1, <2>2 DEF Amounts
<1>9. /\ Incoming(P) \in Nat /\ Outgoing(P) \in Nat
      /\ \A k : Crossing(P, k) \in Nat
  BY <1>8, InTransitType
<1>10. CASE n = 0
  <2>1. {Message(1, "deposit", a, k, {}) : k \in {n} \ {0}} = {}
    BY <1>10
  <2>2. Send(E)
    BY <2>1
  <2>3. /\ Links' /\ Sent(messages', bounds'.sent)
        /\ messages' = messages \cup E
        /\ bounds'.forwarded = bounds.forwarded
    BY <1>1, <2>2, Sending
  <2>4. messages' = P
    BY <1>5, <2>3
  <2>5. /\ Incoming(messages') = Incoming(messages) + n
        /\ Outgoing(messages') = Outgoing(messages)
        /\ \A k : Crossing(messages', k) = Crossing(messages, k)
    BY <1>7, <1>9, <1>10, <2>4
  <2>6. QED
    BY <2>3, <2>5
<1>11. CASE n # 0
  <2>1. {Message(1, "deposit", a, k, {}) : k \in {n} \ {0}} = {d}
    BY <1>2, <1>11
  <2>2. PICK N : N = E \cup {d}
    OBVIOUS
  <2>3. Send(N)
    BY <2>1, <2>2
  <2>4. IsFiniteSet(N)
    BY <1>1, <2>2, FS_AddElement
  <2>5. \A m \in N : WellFormed(m) /\ m.tx = bounds.sent + 1
    BY <1>1, <1>3, <1>4, <2>2
  <2>6. /\ Links' /\ Sent(messages', bounds'.sent)
        /\ messages' = messages \cup N /\ N \cap messages = {}
        /\ bounds'.forwarded = bounds.forwarded
    BY <2>3, <2>4, <2>5, Sending
  <2>7. messages' = P \cup {d} /\ d \notin P
    <3>1. d \notin E
      BY <1>1, <1>3
    <3>2. d \notin messages
      BY <2>2, <2>6
    <3>3. QED
      BY <1>5, <2>2, <2>6, <3>1, <3>2
  <2>8. /\ Incoming(messages') = Incoming(P) + In(d)
        /\ Outgoing(messages') = Outgoing(P) + Out(d)
        /\ \A k : Crossing(messages', k) = Crossing(P, k) + Cross(d, k)
    BY <1>4, <1>8, <2>7, OneMore
  <2>9. In(d) = n /\ Out(d) = 0 /\ \A k : Cross(d, k) = 0
    BY <1>3 DEF In, Out, Cross
  <2>10. Incoming(messages') = Incoming(messages) + n /\ Outgoing(messages') = Outgoing(messages)
    BY <1>7, <1>9, <2>8, <2>9
  <2>11. ASSUME NEW k
         PROVE  Crossing(messages', k) = Crossing(messages, k)
    <3>1. /\ Crossing(messages', k) = Crossing(P, k) + Cross(d, k)
          /\ Cross(d, k) = 0 /\ Crossing(P, k) \in Nat
          /\ Crossing(P, k) = Crossing(messages, k)
      BY <1>7, <1>9, <2>8, <2>9
    <3>2. QED
      BY <3>1
  <2>12. \A m \in messages' : m \in messages \cup E \/ (m.entries = {} /\ m.what # "escrow")
    BY <1>3, <1>5, <2>7
  <2>13. messages \cup E \subseteq messages'
    BY <1>5, <2>7
  <2>14. QED
    BY <2>6, <2>10, <2>11, <2>12, <2>13
<1>12. QED
  BY <1>10, <1>11

LEMMA MigrationKeeps ==
  ASSUME IInv, NEW a \in Account, NEW n \in Amount \cup {0},
         NEW k \in Nat, NEW lists \in [1 .. k -> SUBSET (Entry \cup {NoEntry})],
         depositAndMigrateEscrow(a, n, lists)
  PROVE  IInv'
<1>1. /\ Balances /\ SynthsKept /\ EntriesBacked /\ n \in Nat
      /\ hzn[1][Pool] = SumOf(hzn[2]) + Incoming(messages) + Worth(EntriesOnTheWay)
                          + Outgoing(messages) + bounds.forwarded
      /\ hzn[1][Pool] \in Nat /\ bounds.forwarded \in Nat
  <2>1. n \in Nat
    BY BridgeAssumption
  <2>2. QED
    BY <2>1, Start
<1>2. 1 \in Layer /\ 2 \in Layer /\ Layer = {1, 2}
  BY DEF Layer
<1>3. PICK burned, es : burned = Burned(a, lists) /\ es = UNION {b.entries : b \in burned}
  OBVIOUS
<1>4. /\ es \in SUBSET entries[1][a] /\ entries[1][a] \in SUBSET Entry /\ es \in SUBSET Entry
      /\ burned \in SUBSET [entries : SUBSET Entry, zeroSlot : BOOLEAN] /\ BurnedOnce(burned)
  <2>1. /\ burned \subseteq [entries : SUBSET entries[1][a], zeroSlot : BOOLEAN]
        /\ BurnedOnce(burned)
    BY <1>3, BurnedOnceEach
  <2>2. entries[1][a] \in SUBSET Entry
    BY <1>1, <1>2 DEF Balances
  <2>3. QED
    BY <1>3, <2>1, <2>2
<1>5. PICK E : E = EscrowMessages(a, burned)
  OBVIOUS
<1>6. PICK w : w = Worth(es)
  OBVIOUS
<1>7. /\ CanSend(1) /\ hzn[1][a] >= n /\ Takes(1, a, es)
      /\ hzn' = [hzn EXCEPT ![1] = Moved(Moved(@, Vesting, Pool, w), a, Pool, n)]
      /\ Send(E \cup {Message(1, "deposit", a, c, {}) : c \in {n} \ {0}})
      /\ UNCHANGED <<synths, counters>> /\ drained' \in BOOLEAN
  <2>1. {burnForMigration(a, lists, i) : i \in DOMAIN lists} = burned
    BY <1>3 DEF Burned
  <2>2. /\ CanSend(1) /\ hzn[1][a] >= n
        /\ entries' = [entries EXCEPT ![1][a] = @ \ es]
        /\ hzn' = [hzn EXCEPT ![1] =
             Moved(Moved(@, "RewardEscrowV2", "SynthetixBridgeEscrow", SumOver(EntryAmount, es)),
                   a, "SynthetixBridgeEscrow", n)]
        /\ Send(E \cup {Message(1, "deposit", a, c, {}) : c \in {n} \ {0}})
        /\ UNCHANGED <<synths, counters, drained>>
    BY <1>3, <1>5, <2>1 DEF depositAndMigrateEscrow
  <2>3. drained' \in BOOLEAN
    BY <2>2 DEF IInv, Links
  <2>4. QED
    BY <1>6, <2>2, <2>3 DEF Takes, Worth, Vesting, Pool
<1>8. /\ Links' /\ Sent(messages', bounds'.sent) /\ bounds'.forwarded = bounds.forwarded
      /\ messages \cup E \subseteq messages'
      /\ \A m \in messages' : m \in messages \cup E \/ (m.entries = {} /\ m.what # "escrow")
      /\ Incoming(messages') = Incoming(messages) + n
      /\ Outgoing(messages') = Outgoing(messages)
      /\ \A c : Crossing(messages', c) = Crossing(messages, c)
  <2>1. /\ IsFiniteSet(E)
        /\ \A m \in E : WellFormed(m) /\ m.tx = bounds.sent + 1 /\ m.what = "escrow"
    BY <1>4, <1>5, <1>7, EscrowSent
  <2>2. QED
    BY <1>1, <1>7, <2>1, MigrationSent
<1>9. /\ \A m \in E : /\ m.what = "escrow" /\ m.amount = Worth(m.entries)
                      /\ \E b \in burned : m.entries = b.entries
      /\ \A b \in burned : b.entries # {} => \E m \in E : m.entries = b.entries
      /\ \A x, y \in E : x.entries \cap y.entries # {} => x = y
  BY <1>4, <1>5, <1>7, EscrowSent
<1>10. \A m \in E : m.entries \subseteq es
  BY <1>3, <1>9
<1>11. /\ \A l, o \in Layer, b, c \in Account :
            entries[l][b] \cap entries[o][c] # {} => l = o /\ b = c
       /\ \A x, y \in messages : x.entries \cap y.entries # {} => x = y
       /\ \A x \in messages, l \in Layer, b \in Account : x.entries \cap entries[l][b] = {}
       /\ \A x \in messages : x.what = "escrow" => x.amount = Worth(x.entries)
       /\ \A l \in Layer : hzn[l][Vesting] = Worth(EntriesOf(l))
  BY <1>1, EntriesBackedIs
<1>12. /\ entries' \in [Layer -> [Account -> SUBSET Entry]]
       /\ entries'[1][a] = entries[1][a] \ es
       /\ \A o \in Layer, b \in Account : o # 1 \/ b # a => entries'[o][b] = entries[o][b]
       /\ EntriesOf(1) = EntriesOf(1)' \cup es /\ EntriesOf(1)' \cap es = {}
       /\ EntriesOf(2)' = EntriesOf(2)
  BY <1>1, <1>2, <1>4, <1>7, EntriesTaken
<1>13. Worth(EntriesOf(1)) = Worth(EntriesOf(1)') + w /\ Worth(EntriesOf(1)') \in Nat /\ w \in Nat
  <2>1. PICK A : A = EntriesOf(1)'
    OBVIOUS
  <2>2. A \in SUBSET Entry /\ A \cap es = {}
    BY <1>1, <1>2, <1>12, <2>1, EntriesOfType
  <2>3. Worth(A \cup es) = Worth(A) + Worth(es) /\ Worth(A) \in Nat /\ Worth(es) \in Nat
    BY <1>4, <2>2, WorthUnion, WorthType
  <2>4. EntriesOf(1) = A \cup es
    BY <1>12, <2>1
  <2>5. QED
    BY <1>6, <2>1, <2>3, <2>4
<1>14. EntriesOnTheWay' = EntriesOnTheWay \cup es
  <2>1. ASSUME NEW e
        PROVE  e \in EntriesOnTheWay' <=> e \in EntriesOnTheWay \cup es
    <3>1. ASSUME e \in EntriesOnTheWay'
          PROVE  e \in EntriesOnTheWay \cup es
      <4>1. PICK m \in messages' : e \in m.entries
        BY <3>1 DEF EntriesOnTheWay
      <4>2. m \in messages \/ m \in E
        BY <1>8, <4>1
      <4>3. QED
        BY <1>10, <4>1, <4>2 DEF EntriesOnTheWay
    <3>2. ASSUME e \in EntriesOnTheWay
          PROVE  e \in EntriesOnTheWay'
      <4>1. PICK m \in messages : e \in m.entries
        BY <3>2 DEF EntriesOnTheWay
      <4>2. m \in messages'
        BY <1>8
      <4>3. QED
        BY <4>1, <4>2 DEF EntriesOnTheWay
    <3>3. ASSUME e \in es
          PROVE  e \in EntriesOnTheWay'
      <4>1. PICK b \in burned : e \in b.entries
        BY <1>3, <3>3
      <4>2. PICK m \in E : e \in m.entries
        BY <1>9, <4>1
      <4>3. m \in messages'
        BY <1>8
      <4>4. QED
        BY <4>2, <4>3 DEF EntriesOnTheWay
    <3>4. QED
      BY <3>1, <3>2, <3>3
  <2>2. QED
    BY <2>1
<1>15. /\ Worth(EntriesOnTheWay') = Worth(EntriesOnTheWay) + w
       /\ Worth(EntriesOnTheWay) \in Nat
  <2>1. PICK A : A = EntriesOnTheWay
    OBVIOUS
  <2>2. A \in SUBSET Entry
    BY <2>1, SumsTyped, Start
  <2>3. A \cap es = {}
    <3>1. \A m \in messages : m.entries \cap es = {}
      BY <1>2, <1>4, <1>11
    <3>2. QED
      BY <2>1, <3>1 DEF EntriesOnTheWay
  <2>4. Worth(A \cup es) = Worth(A) + Worth(es) /\ Worth(A) \in Nat
    BY <1>4, <2>2, <2>3, WorthUnion, WorthType
  <2>5. EntriesOnTheWay' = A \cup es
    BY <1>14, <2>1
  <2>6. QED
    BY <1>6, <2>1, <2>4, <2>5
<1>16. hzn[1][Vesting] >= w
  BY <1>2, <1>11, <1>13
<1>17. /\ hzn' \in [Layer -> [Holder -> Nat]] /\ hzn'[2] = hzn[2]
       /\ hzn'[1][Pool] = hzn[1][Pool] + w + n
       /\ hzn'[1][Vesting] = hzn[1][Vesting] - w
  BY <1>1, <1>7, <1>13, <1>16, BothKept
<1>18. Balances'
  BY <1>1, <1>7, <1>12, <1>17 DEF Balances
<1>19. Backed'
  <2>1. SumOf(hzn[2]) \in Nat /\ Incoming(messages) \in Nat /\ Outgoing(messages) \in Nat
    BY SumsTyped, Start
  <2>2. /\ Incoming(messages') = Incoming(messages) + n
        /\ Outgoing(messages') = Outgoing(messages)
        /\ bounds'.forwarded = bounds.forwarded
    BY <1>8
  <2>3. /\ hzn[1][Pool] = SumOf(hzn[2]) + Incoming(messages) + Worth(EntriesOnTheWay)
                             + Outgoing(messages) + bounds.forwarded
        /\ bounds.forwarded \in Nat /\ n \in Nat /\ w \in Nat
    BY <1>1, <1>13
  <2>4. hzn'[1][Pool] = hzn[1][Pool] + w + n /\ SumOf(hzn'[2]) = SumOf(hzn[2])
    BY <1>17
  <2>5. hzn'[1][Pool] = SumOf(hzn'[2]) + Incoming(messages') + Worth(EntriesOnTheWay')
                          + Outgoing(messages') + bounds'.forwarded
    <3>1. PICK i, o, t, z, f : /\ i = Incoming(messages) /\ o = Outgoing(messages)
                               /\ t = Worth(EntriesOnTheWay) /\ z = SumOf(hzn[2])
                               /\ f = bounds.forwarded
      OBVIOUS
    <3>2. i \in Nat /\ o \in Nat /\ t \in Nat /\ z \in Nat /\ f \in Nat
      BY <1>15, <2>1, <2>3, <3>1
    <3>3. hzn[1][Pool] = z + i + t + o + f
      BY <2>3, <3>1
    <3>4. /\ Incoming(messages') = i + n /\ Outgoing(messages') = o /\ bounds'.forwarded = f
          /\ Worth(EntriesOnTheWay') = t + w /\ SumOf(hzn'[2]) = z
          /\ hzn'[1][Pool] = z + i + t + o + f + w + n
      BY <1>15, <2>2, <2>4, <3>1, <3>3
    <3>5. z + i + t + o + f + w + n = z + (i + n) + (t + w) + o + f
      BY <2>3, <3>2
    <3>6. QED
      <4>1. /\ i + n \in Nat /\ t + w \in Nat
            /\ hzn'[1][Pool] = z + (i + n) + (t + w) + o + f
        BY <2>3, <3>2, <3>4, <3>5
      <4>2. QED
        BY <3>4, <4>1
  <2>6. QED
    BY <2>5, BackedNext
<1>20. SynthsKept'
  BY <1>1, <1>7, <1>8, SynthsUntouched
<1>21. EntriesBacked'
  <2>1. \A l \in Layer, b \in Account : entries'[l][b] \subseteq entries[l][b]
    BY <1>12
  <2>2. \A l, o \in Layer, b, c \in Account :
          entries'[l][b] \cap entries'[o][c] # {} => l = o /\ b = c
    <3>1. ASSUME NEW l \in Layer, NEW o \in Layer, NEW b \in Account, NEW c \in Account,
                 entries'[l][b] \cap entries'[o][c] # {}
          PROVE  l = o /\ b = c
      <4>1. entries[l][b] \cap entries[o][c] # {}
        BY <2>1, <3>1
      <4>2. QED
        BY <1>11, <4>1
    <3>2. QED
      BY <3>1
  <2>3. ASSUME NEW x \in messages', NEW y \in messages', x.entries \cap y.entries # {}
        PROVE  x = y
    <3>1. x \in messages \cup E /\ y \in messages \cup E
      BY <1>8, <2>3
    <3>2. CASE x \in messages /\ y \in messages
      BY <1>11, <2>3, <3>2
    <3>3. CASE x \in E /\ y \in E
      BY <1>9, <2>3, <3>3
    <3>4. \A u \in messages, v \in E : u.entries \cap v.entries = {}
      <4>1. \A u \in messages : u.entries \cap es = {}
        BY <1>2, <1>4, <1>11
      <4>2. QED
        BY <1>10, <4>1
    <3>5. QED
      BY <2>3, <3>1, <3>2, <3>3, <3>4
  <2>4. ASSUME NEW x \in messages', NEW l \in Layer, NEW b \in Account
        PROVE  x.entries \cap entries'[l][b] = {}
    <3>1. CASE x \in messages
      <4>1. x.entries \cap entries[l][b] = {}
        BY <1>11, <3>1
      <4>2. QED
        BY <2>1, <4>1
    <3>2. CASE x \in E
      <4>1. x.entries \subseteq es
        BY <1>10, <3>2
      <4>2. es \cap entries'[l][b] = {}
        <5>1. CASE l = 1 /\ b = a
          BY <1>12, <5>1
        <5>2. CASE ~(l = 1 /\ b = a)
          <6>1. entries[1][a] \cap entries[l][b] = {}
            BY <1>2, <1>11, <5>2
          <6>2. QED
            BY <1>4, <2>1, <6>1
        <5>3. QED
          BY <5>1, <5>2
      <4>3. QED
        BY <4>1, <4>2
    <3>3. QED
      BY <1>8, <3>1, <3>2
  <2>5. \A x \in messages' : x.what = "escrow" => x.amount = Worth(x.entries)
    BY <1>8, <1>9, <1>11
  <2>6. \A l \in Layer : hzn'[l][Vesting] = Worth(EntriesOf(l)')
    <3>1. hzn'[1][Vesting] = Worth(EntriesOf(1)')
      BY <1>2, <1>11, <1>13, <1>17
    <3>2. hzn'[2][Vesting] = Worth(EntriesOf(2)')
      BY <1>2, <1>11, <1>12, <1>17
    <3>3. QED
      BY <1>2, <3>1, <3>2
  <2>7. QED
    BY <2>2, <2>3, <2>4, <2>5, <2>6, EntriesBackedNext
<1>22. QED
  BY <1>8, <1>18, <1>19, <1>20, <1>21 DEF IInv

-----------------------------------------------------------------------------
(* The invariant holds at the start, and each step keeps it *)

LEMMA Starts ==
  ASSUME Init
  PROVE  IInv
<1>1. 1 \in Layer /\ 2 \in Layer /\ Layer = {1, 2} /\ Other(1) \in Layer /\ Other(2) \in Layer
  BY DEF Layer, Other
<1>2. /\ messages = {} /\ bounds = [sent |-> 0, replaced |-> 0, crashes |-> 0, forwarded |-> 0]
      /\ hzn = [l \in Layer |-> IF l = 1 THEN FirstHZN ELSE [h \in Holder |-> 0]]
      /\ entries = [l \in Layer |-> IF l = 1 THEN FirstEntries ELSE [a \in Account |-> {}]]
      /\ synths = FirstSynths
      /\ counters = [l \in Layer |-> [sent |-> 0, received |-> 0]]
  BY DEF Init
<1>3. hzn \in [Layer -> [Holder -> Nat]]
  BY <1>2, BridgeAssumption
<1>4. entries \in [Layer -> [Account -> SUBSET Entry]]
  BY <1>2, BridgeAssumption
<1>5. Balances
  BY <1>2, <1>3, <1>4, BridgeAssumption DEF Balances
<1>6. Links
  <2>1. 1 \in Generation
    BY BridgeAssumption DEF Generation
  <2>2. /\ bridge = [l \in Layer |-> 1] /\ resolver = [l \in Layer |-> None]
        /\ known = [l \in Layer |-> None] /\ initiationActive = [l \in Layer |-> TRUE]
        /\ approved = {} /\ proc = Off /\ drained = TRUE
    BY DEF Init
  <2>3. bounds \in [sent : Nat, replaced : Nat, crashes : Nat, forwarded : Nat]
        /\ bounds.replaced = 0
    BY <1>2
  <2>4. \A l \in Layer : bridge[l] <= bounds.replaced + 1
    BY <2>2, <2>3
  <2>5. QED
    BY <2>1, <2>2, <2>3, <2>4 DEF Links
<1>7. Sent(messages, bounds.sent)
  BY <1>2, FS_EmptySet DEF Sent
<1>8. \A kinds, l : OnTheWay(kinds, l) = 0
  <2>1. ASSUME NEW kinds, NEW l
        PROVE  OnTheWay(kinds, l) = 0
    <3>1. Matching(messages, kinds, l) = {}
      BY <1>2 DEF Matching
    <3>2. UnitsOver([m \in Matching(messages, kinds, l) |-> m.amount],
                    Matching(messages, kinds, l)) = {}
      BY <3>1 DEF UnitsOver
    <3>3. Carried(messages, kinds, l) = 0
      BY <3>2, FS_EmptySet DEF Carried, SumOver
    <3>4. QED
      BY <3>3, OnTheWayIsCarried
  <2>2. QED
    BY <2>1
<1>9. EntriesOnTheWay = {}
  BY <1>2 DEF EntriesOnTheWay
<1>10. Backed
  <2>1. SumOf(hzn[2]) = 0
    <3>1. hzn[2] \in [Holder -> Nat] /\ \A h \in Holder : hzn[2][h] = 0
      BY <1>1, <1>2
    <3>2. QED
      BY <3>1, SumOfZero
  <2>2. SumOver(EntryAmount, EntriesOnTheWay) = 0
    BY <1>9, WorthNothing DEF Worth
  <2>3. hzn[1]["SynthetixBridgeEscrow"] = 0 /\ bounds.forwarded = 0
    BY <1>1, <1>2, BridgeAssumption
  <2>4. QED
    BY <1>8, <2>1, <2>2, <2>3 DEF Backed
<1>11. EntriesBacked
  <2>1. entries[1] = FirstEntries /\ \A a \in Account : entries[2][a] = {}
    BY <1>1, <1>2
  <2>2. \A l, k \in Layer, a, b \in Account :
          entries[l][a] \cap entries[k][b] # {} => l = k /\ a = b
    BY <1>1, <2>1, BridgeAssumption
  <2>3. hzn[1]["RewardEscrowV2"] = SumOver(EntryAmount, EntriesOf(1))
    <3>1. EntriesOf(1) = UNION {FirstEntries[a] : a \in Account}
      BY <2>1 DEF EntriesOf
    <3>2. hzn[1] = FirstHZN
      BY <1>1, <1>2
    <3>3. QED
      BY <3>1, <3>2, BridgeAssumption
  <2>4. hzn[2]["RewardEscrowV2"] = SumOver(EntryAmount, EntriesOf(2))
    <3>1. EntriesOf(2) = {}
      BY <2>1 DEF EntriesOf
    <3>2. hzn[2]["RewardEscrowV2"] = 0
      BY <1>1, <1>2, Apart
    <3>3. SumOver(EntryAmount, EntriesOf(2)) = 0
      BY <3>1, WorthNothing DEF Worth
    <3>4. QED
      BY <3>2, <3>3
  <2>5. \A l \in Layer : hzn[l]["RewardEscrowV2"] = SumOver(EntryAmount, EntriesOf(l))
    BY <1>1, <2>3, <2>4
  <2>6. QED
    BY <1>2, <2>2, <2>5 DEF EntriesBacked
<1>12. SynthsKept
  <2>1. synths[1] \in [Account -> Nat] /\ synths[2] \in [Account -> Nat]
    BY <1>1, <1>5 DEF Balances
  <2>2. SumOf(synths[1]) \in Nat /\ SumOf(synths[2]) \in Nat
    BY <2>1, HoldersFinite, SumOfType
  <2>3. \A l \in Layer : counters[l].sent = 0 /\ counters[Other(l)].received = 0
    BY <1>1, <1>2
  <2>4. SumOf(synths[1]) + SumOf(synths[2]) + 0 + 0
          = SumOf(FirstSynths[1]) + SumOf(FirstSynths[2])
    BY <1>2, <2>2
  <2>5. QED
    BY <1>8, <2>3, <2>4 DEF SynthsKept
<1>13. QED
  BY <1>5, <1>6, <1>7, <1>10, <1>11, <1>12 DEF IInv

LEMMA ExecuteKeeps ==
  ASSUME IInv, NEW m \in messages, Execute(m)
  PROVE  IInv'
<1>1. Done(m)
  BY DEF Execute, Done
<1>2. \/ finalizeDeposit(m) \/ finalizeEscrowMigration(m) \/ finalizeWithdrawal(m)
      \/ finalizeSynthTransfer(m) \/ finalizeFeePeriodClose(m)
  BY DEF Execute
<1>3. QED
  BY <1>1, <1>2, DepositArrives, EscrowArrives, WithdrawalArrives, SynthsArrive, CloseArrives

LEMMA InitiateKeeps ==
  ASSUME IInv, Initiate
  PROVE  IInv'
<1>1. ASSUME NEW a \in Account, NEW b \in Account, NEW n \in Amount
      PROVE  /\ Deposit("deposit", a, b, n) => IInv'
             /\ Deposit("reward", a, "RewardsDistribution", n) => IInv'
             /\ Withdraw(a, b, n) => IInv'
             /\ \A l \in Layer : initiateSynthTransfer(l, a, b, n) => IInv'
  <2>1. b \in Holder /\ "RewardsDistribution" \in Holder
    BY Apart
  <2>2. Deposit("deposit", a, b, n) => IInv'
    <3>1. "deposit" \in {"deposit", "reward"} /\ "deposit" # "reward"
      OBVIOUS
    <3>2. QED
      BY <2>1, <3>1, DepositKeeps
  <2>3. Deposit("reward", a, "RewardsDistribution", n) => IInv'
    <3>1. "reward" \in {"deposit", "reward"} /\ "deposit" # "reward"
      OBVIOUS
    <3>2. QED
      BY <2>1, <3>1, DepositKeeps
  <2>4. Withdraw(a, b, n) => IInv'
    BY WithdrawKeeps
  <2>5. \A l \in Layer : initiateSynthTransfer(l, a, b, n) => IInv'
    BY SynthTransferKeeps
  <2>6. QED
    BY <2>2, <2>3, <2>4, <2>5
<1>2. ASSUME NEW n \in Amount, notifyRewardAmount(n) \/ notifyFails(n)
      PROVE  IInv'
  BY <1>2, NotifyKeeps, NotifyFailsKeeps
<1>3. ASSUME NEW a \in Account, NEW n \in Amount \cup {0},
             NEW k \in 1 .. MaxLists,
             NEW lists \in [1 .. k -> SUBSET (Entry \cup {NoEntry}) \ {{}}],
             depositAndMigrateEscrow(a, n, lists)
      PROVE  IInv'
  <2>1. k \in Nat
    BY <1>3, BridgeAssumption
  <2>2. lists \in [1 .. k -> SUBSET (Entry \cup {NoEntry})]
    BY <1>3
  <2>3. QED
    BY <1>3, <2>1, <2>2, MigrationKeeps
<1>4. ASSUME closeFeePeriod
      PROVE  IInv'
  BY <1>4, CloseKeeps
<1>5. QED
  BY <1>1, <1>2, <1>3, <1>4 DEF Initiate

LEMMA Keeps ==
  ASSUME IInv, [Next]_vars
  PROVE  IInv'
<1>1. CASE Initiate
  BY <1>1, InitiateKeeps
<1>2. CASE Messenger
  BY <1>2, ExecuteKeeps DEF Messenger
<1>3. CASE World
  BY <1>3, VestKeeps, ForwardKeeps, LinkStepsKeep DEF World
<1>4. CASE Connect \/ Crash
  BY <1>4, LinkStepsKeep
<1>5. CASE UNCHANGED vars
  <2>1. UNCHANGED <<tokenVars, messages>> /\ bounds' = bounds
    BY <1>5 DEF vars
  <2>2. Links'
    BY <1>5 DEF vars, linkVars, IInv, Links
  <2>3. QED
    BY <2>1, <2>2, BooksUntouched
<1>6. QED
  BY <1>1, <1>2, <1>3, <1>4, <1>5 DEF Next

(* Messages neither create nor lose HZN, entries or synths, whatever order *)
(* they arrive in, whichever bridges are replaced, and wherever            *)
(* connect-bridge is killed (NothingCreated).                              *)
THEOREM BridgeCreatesNothing == Spec => []NothingCreated
<1>1. Init => IInv
  BY Starts
<1>2. IInv /\ [Next]_vars => IInv'
  BY Keeps
<1>3. IInv => NothingCreated
  BY DEF IInv, Balances, Links, Sent, WellFormed, NothingCreated, TypeOK
<1>4. QED
  BY <1>1, <1>2, <1>3, PTL DEF Spec
=============================================================================
