------------------------ MODULE OwnerCommands_proofs ------------------------
(***************************************************************************)
(* Theorems about OwnerCommands, for any contracts, actions, batches and   *)
(* bounds: what owner-actions.json marks was sent, an action is sent once  *)
(* and once more for each run that was killed, and an account or a safe    *)
(* performs the actions in the order in which deployments left them.       *)
(***************************************************************************)
EXTENDS OwnerCommands, FiniteSetTheorems, TLAPS

(* What the proofs need of the types.                                      *)
Owning == {"actions", "mark", "accept", "submit", "write"}
ProcOK ==
  \/ proc = Off
  \/ proc \in [does : {"nominate"}, at : Nat \ {0}]
  \/ proc \in [does : Owning, at : Nat \ {0}, marked : SUBSET Actions, batch : Seq(Calls)]
FileOK ==
  /\ ownerActions \in Seq(Actions) /\ IsInjective(ownerActions)
  /\ complete \subseteq ToSet(ownerActions)
ChainOK ==
  /\ owner \in [ToSet(Contract) -> {"deployer", "new", "other"}]
  /\ nominated \subseteq {c \in ToSet(Contract) : owner[c] # "new"}
  /\ performed \in Seq(Calls) /\ sent \in [Calls -> Nat]
QueueOK ==
  /\ \A p \in queue : p \in [run : Nat, relayed : BOOLEAN, batches : Seq(Seq(Calls))]
  /\ mode = "account" => queue = {}
BoundsOK ==
  /\ bounds \in [left : Nat, runs : Nat, crashes : Nat]
  /\ bounds.left <= Len(Left)
  /\ mode \in {"account", "safe", "relay"}
Types == ProcOK /\ FileOK /\ ChainOK /\ QueueOK /\ BoundsOK

(* What a run of owner has in memory: what it marks is what the file marks *)
(* and what it sends, which no call is in twice.                           *)
AccountMemory ==
  /\ proc.batch = <<>> /\ proc.does \in {"actions", "mark", "accept"}
  /\ proc.does # "mark" => proc.marked = complete
  /\ proc.does = "mark" =>
       \E k \in ToSet(ownerActions) \ complete : proc.marked = complete \cup {k}
CollectorMemory ==
  /\ proc.does # "mark" /\ IsInjective(proc.batch)
  /\ proc.marked = complete \cup (ToSet(proc.batch) \cap Actions)
  /\ ToSet(proc.batch) \cap complete = {}
  /\ ToSet(proc.batch) \cap Actions \subseteq ToSet(ownerActions)
  /\ proc.does = "actions" => ToSet(proc.batch) \subseteq Actions
  /\ proc.does = "accept" =>
       \A i \in DOMAIN Contract : accept(Contract[i]) \in ToSet(proc.batch) => i < proc.at
Memory ==
  proc.does \in Owning => IF mode = "account" THEN AccountMemory ELSE CollectorMemory

(* What is marked, or will be by what is sent already, was sent.           *)
Done == IF proc.does \in {"mark", "write"} THEN proc.marked ELSE complete
DoneWasSent ==
  \A k \in Done : sent[k] > 0 /\ (mode = "account" => k \in ToSet(performed))

(* An action is sent once after it appears, and again after it was opened  *)
(* again: by a run of nominate that comes to it, as long as there is one   *)
(* to come, or by a crash.                                                 *)
One(b) == IF b THEN 1 ELSE 0
Due(k) == k \in ToSet(ownerActions) \ Done
StillToNominate ==
  \E c \in ToSet(Contract) :
    ToNominate(c) /\ (owner[c] = "deployer" \/ nominate(c) \notin ToSet(ownerActions))
Ahead(c) == \E i \in DOMAIN Contract : i >= proc.at /\ Contract[i] = c
MayReopen(c) == IF proc.does = "nominate" THEN Ahead(c) ELSE StillToNominate
Reopens(k) == \E c \in ToSet(Contract) : k = nominate(c) /\ MayReopen(c)
Budget ==
  \A k \in Actions : sent[k] + One(Due(k)) + One(Reopens(k)) <= 1 + bounds.crashes
(* What is not in the file was never sent, and the actions that deployments *)
(* are still to leave are not in it.                                       *)
SentFromFile == \A k \in Actions : k \notin ToSet(ownerActions) => sent[k] = 0
LeftInOrder == \A i \in DOMAIN Left : perform(Left[i]) \in ToSet(ownerActions) => i <= bounds.left
(* What a run of nominate has passed needs no other run.                   *)
Passed ==
  proc.does = "nominate" =>
    \A i \in DOMAIN Contract : i < proc.at =>
      LET c == Contract[i] IN
      ToNominate(c) => owner[c] # "deployer" /\ nominate(c) \in ToSet(ownerActions)

IInv == Types /\ Memory /\ DoneWasSent /\ Budget /\ SentFromFile /\ LeftInOrder /\ Passed

-----------------------------------------------------------------------------
LEMMA CallsDiffer ==
  /\ \A a, c : perform(a) # nominate(c) /\ nominate(a) # accept(c) /\ perform(a) # accept(c)
  /\ \A a, b : perform(a) = perform(b) => a = b
  /\ \A a, b : nominate(a) = nominate(b) => a = b
BY DEF perform, nominate, accept

LEMMA CallTypes ==
  /\ Actions \subseteq Calls
  /\ \A c \in ToSet(Contract) : nominate(c) \in Actions /\ accept(c) \in Calls /\ accept(c) \notin Actions
  /\ \A i \in DOMAIN Left : perform(Left[i]) \in Actions
BY CallsDiffer DEF Actions, Calls, ToSet

LEMMA ToSetAppend ==
  ASSUME NEW S, NEW s \in Seq(S), NEW e \in S
  PROVE  /\ Append(s, e) \in Seq(S) /\ ToSet(Append(s, e)) = ToSet(s) \cup {e}
         /\ DOMAIN Append(s, e) = 1..(Len(s) + 1) /\ DOMAIN s = 1..Len(s) /\ Len(s) \in Nat
         /\ \A i \in DOMAIN s : Append(s, e)[i] = s[i]
         /\ Append(s, e)[Len(s) + 1] = e
<1>1. Append(s, e) \in Seq(S) /\ DOMAIN Append(s, e) = 1..(Len(s) + 1) /\ DOMAIN s = 1..Len(s)
      /\ Len(s) \in Nat
  OBVIOUS
<1>2. \A i \in DOMAIN s : Append(s, e)[i] = s[i]
  OBVIOUS
<1>3. Append(s, e)[Len(s) + 1] = e
  OBVIOUS
<1>4. ToSet(Append(s, e)) = ToSet(s) \cup {e}
  BY <1>1, <1>2, <1>3 DEF ToSet
<1>5. QED
  BY <1>1, <1>2, <1>3, <1>4

LEMMA ToSetType ==
  ASSUME NEW S, NEW s \in Seq(S)
  PROVE  ToSet(s) \subseteq S
BY DEF ToSet

LEMMA ToSetConcat ==
  ASSUME NEW S, NEW s \in Seq(S), NEW t \in Seq(S)
  PROVE  s \o t \in Seq(S) /\ ToSet(s \o t) = ToSet(s) \cup ToSet(t)
<1>1. s \o t \in Seq(S) /\ Len(s \o t) = Len(s) + Len(t)
      /\ DOMAIN (s \o t) = 1..(Len(s) + Len(t)) /\ DOMAIN s = 1..Len(s) /\ DOMAIN t = 1..Len(t)
      /\ Len(s) \in Nat /\ Len(t) \in Nat
  OBVIOUS
<1>2. \A i \in DOMAIN s : i \in DOMAIN (s \o t) /\ (s \o t)[i] = s[i]
  BY <1>1
<1>3. \A i \in DOMAIN t : i + Len(s) \in DOMAIN (s \o t) /\ (s \o t)[i + Len(s)] = t[i]
  BY <1>1
<1>4. \A i \in DOMAIN (s \o t) :
        \/ i \in DOMAIN s /\ (s \o t)[i] = s[i]
        \/ i - Len(s) \in DOMAIN t /\ (s \o t)[i] = t[i - Len(s)]
  BY <1>1
<1> HIDE DEF ToSet
<1>5. ASSUME NEW e \in ToSet(s) \cup ToSet(t) PROVE e \in ToSet(s \o t)
  <2>1. CASE e \in ToSet(s)
    <3>1. PICK i \in DOMAIN s : s[i] = e
      BY <2>1 DEF ToSet
    <3>2. QED
      BY <3>1, <1>2 DEF ToSet
  <2>2. CASE e \in ToSet(t)
    <3>1. PICK i \in DOMAIN t : t[i] = e
      BY <2>2 DEF ToSet
    <3>2. QED
      BY <3>1, <1>3 DEF ToSet
  <2>3. QED
    BY <1>5, <2>1, <2>2
<1>6. ASSUME NEW e \in ToSet(s \o t) PROVE e \in ToSet(s) \cup ToSet(t)
  <2>1. PICK i \in DOMAIN (s \o t) : (s \o t)[i] = e
    BY <1>6 DEF ToSet
  <2>2. QED
    BY <2>1, <1>4 DEF ToSet
<1>7. QED
  BY <1>1, <1>5, <1>6

-----------------------------------------------------------------------------
(* How often a call is in some batches.                                    *)
Occurs(batches, k) == {at \in Places(batches) : batches[at[1]][at[2]] = k}

LEMMA OneMore ==
  ASSUME NEW i \in Int, NEW b \in Int
  PROVE  i * b = (i - 1) * b + b
OBVIOUS

(* Every call of a list is in one of its batches, and in one place there.  *)
LEMMA BatchCover ==
  ASSUME NEW batch \in Seq(Calls), NEW n \in DOMAIN batch
  PROVE  LET i == (n - 1) \div batchSize + 1 IN
         /\ i \in DOMAIN Batches(batch)
         /\ n - (i - 1) * batchSize \in DOMAIN Batches(batch)[i]
<1> DEFINE i == (n - 1) \div batchSize + 1
           L == Len(batch)
           m == IF i * batchSize < L THEN i * batchSize ELSE L
<1>0. batchSize \in Nat \ {0} /\ L \in Nat /\ DOMAIN batch = 1..L /\ n \in 1..L
  BY OwnerAssumption
<1>1. (n - 1) \div batchSize \in Nat /\ (n - 1) \div batchSize < (L + batchSize - 1) \div batchSize
      /\ (L + batchSize - 1) \div batchSize \in Nat
  BY <1>0
<1>2. ((n - 1) \div batchSize) * batchSize <= n - 1
      /\ n - 1 < ((n - 1) \div batchSize) * batchSize + batchSize
  BY <1>0
<1>3. i \in DOMAIN Batches(batch)
      /\ Batches(batch)[i] = SubSeq(batch, (i - 1) * batchSize + 1, m)
  <2>1. i \in 1..((L + batchSize - 1) \div batchSize)
    BY <1>1
  <2> HIDE DEF i
  <2>2. QED
    BY <2>1 DEF Batches
<1>4. i - 1 = (n - 1) \div batchSize /\ i * batchSize = (i - 1) * batchSize + batchSize
  BY <1>0, <1>1
<1>5. (i - 1) * batchSize \in Nat /\ i * batchSize \in Nat
  BY <1>0, <1>1
<1> HIDE DEF i, L
<1>6. (i - 1) * batchSize + 1 <= n /\ n <= m /\ m <= L /\ m \in Nat
  BY <1>0, <1>2, <1>4, <1>5
<1>7. DOMAIN SubSeq(batch, (i - 1) * batchSize + 1, m) = 1..(m - (i - 1) * batchSize)
  <2> DEFINE from == (i - 1) * batchSize + 1
  <2>1. from \in Nat \ {0} /\ from <= m
    BY <1>5, <1>6, <1>0
  <2> HIDE DEF from
  <2>2. DOMAIN SubSeq(batch, from, m) = 1..(m - from + 1)
    BY <2>1, <1>6
  <2>3. QED
    BY <2>2, <1>5, <1>6 DEF from
<1>8. n - (i - 1) * batchSize \in 1..(m - (i - 1) * batchSize)
  BY <1>0, <1>5, <1>6
<1>9. QED
  BY <1>3, <1>7, <1>8 DEF i

LEMMA BatchPlace ==
  ASSUME NEW batch \in Seq(Calls), NEW i \in DOMAIN Batches(batch), NEW j \in DOMAIN Batches(batch)[i]
  PROVE  /\ i \in Nat /\ i >= 1 /\ j \in Nat /\ j >= 1 /\ j <= batchSize
         /\ (i - 1) * batchSize + j \in DOMAIN batch
         /\ Batches(batch)[i][j] = batch[(i - 1) * batchSize + j]
         /\ Batches(batch)[i] \in Seq(Calls)
<1> DEFINE L == Len(batch)
           N == (L + batchSize - 1) \div batchSize
           m == IF i * batchSize < L THEN i * batchSize ELSE L
           from == (i - 1) * batchSize + 1
<1>0. batchSize \in Nat \ {0} /\ L \in Nat /\ DOMAIN batch = 1..L
  BY OwnerAssumption
<1>1. N \in Nat /\ N * batchSize <= L + batchSize - 1
  BY <1>0
<1>2. i \in 1..N /\ Batches(batch)[i] = SubSeq(batch, from, m)
  BY <1>1, <1>0 DEF Batches
<1>3. (i - 1) * batchSize + batchSize <= N * batchSize
  BY <1>0, <1>1, <1>2
<1>4. i * batchSize = (i - 1) * batchSize + batchSize /\ (i - 1) * batchSize \in Nat /\ i * batchSize \in Nat
  <2>1. i \in Nat /\ i - 1 \in Nat
    BY <1>1, <1>2
  <2>2. (i - 1) * batchSize \in Nat /\ i * batchSize \in Nat
    BY <2>1, <1>0
  <2>3. QED
    BY <2>1, <2>2, <1>0, OneMore
<1> HIDE DEF L, N
<1>5. from \in Nat \ {0} /\ from <= m /\ m <= L /\ m \in Nat /\ m <= (i - 1) * batchSize + batchSize
  BY <1>0, <1>1, <1>3, <1>4
<1> HIDE DEF from, m
<1>6. SubSeq(batch, from, m) \in Seq(Calls) /\ DOMAIN SubSeq(batch, from, m) = 1..(m - from + 1)
  BY <1>5, <1>0 DEF L
<1>7. j \in 1..(m - from + 1)
  BY <1>2, <1>6
<1>8. SubSeq(batch, from, m)[j] = batch[from + j - 1]
  BY <1>5, <1>7, <1>0 DEF L
<1>9. from + j - 1 = (i - 1) * batchSize + j /\ j \in Nat /\ j >= 1 /\ j <= batchSize
      /\ (i - 1) * batchSize + j \in 1..L
  BY <1>7, <1>5, <1>4, <1>0 DEF from
<1>10. QED
  BY <1>0, <1>1, <1>2, <1>6, <1>8, <1>9

LEMMA BatchesType ==
  ASSUME NEW batch \in Seq(Calls)
  PROVE  Batches(batch) \in Seq(Seq(Calls))
<1> DEFINE L == Len(batch)
           N == (L + batchSize - 1) \div batchSize
           to(i) == IF i * batchSize < L THEN i * batchSize ELSE L
<1>0. batchSize \in Nat \ {0} /\ L \in Nat
  BY OwnerAssumption
<1>1. N \in Nat
  BY <1>0
<1>2. ASSUME NEW i \in 1..N PROVE SubSeq(batch, (i - 1) * batchSize + 1, to(i)) \in Seq(Calls)
  <2> DEFINE from == (i - 1) * batchSize + 1
  <2>1. from \in Nat \ {0} /\ i * batchSize \in Nat
    BY <1>0, <1>1
  <2>2. to(i) \in Nat /\ to(i) <= L
    BY <2>1, <1>0
  <2> HIDE DEF from, to
  <2>3. SubSeq(batch, from, to(i)) \in Seq(Calls)
    BY <2>1, <2>2
  <2>4. QED
    BY <2>3 DEF from
<1>3. Batches(batch) = [i \in 1..N |-> SubSeq(batch, (i - 1) * batchSize + 1, to(i))]
  BY DEF Batches
<1> HIDE DEF N, to
<1>4. QED
  BY <1>1, <1>2, <1>3

(* The calls of a list in which none is twice, alone or cut into batches.  *)
Cut(batch) == IF mode = "safe" THEN <<batch>> ELSE Batches(batch)
LEMMA SentOfCut ==
  ASSUME NEW batch \in Seq(Calls), IsInjective(batch), NEW k
  PROVE  Cardinality(Occurs(Cut(batch), k)) = IF k \in ToSet(batch) THEN 1 ELSE 0
<1>1. ASSUME mode = "safe", NEW at
      PROVE  at \in Occurs(Cut(batch), k) <=> \E n \in DOMAIN batch : batch[n] = k /\ at = <<1, n>>
  BY <1>1 DEF Cut, Occurs, Places
<1>2. ASSUME mode # "safe", NEW at \in Occurs(Cut(batch), k)
      PROVE  \E n \in DOMAIN batch :
               batch[n] = k /\ at = <<(n - 1) \div batchSize + 1, n - ((n - 1) \div batchSize) * batchSize>>
  <2>1. PICK i \in DOMAIN Batches(batch) : \E j \in DOMAIN Batches(batch)[i] : at = <<i, j>>
    BY <1>2 DEF Cut, Occurs, Places
  <2>2. PICK j \in DOMAIN Batches(batch)[i] : at = <<i, j>>
    BY <2>1
  <2>3. Batches(batch)[i][j] = k
    BY <1>2, <2>2 DEF Cut, Occurs
  <2> DEFINE n == (i - 1) * batchSize + j
  <2>4. /\ i \in Nat /\ i >= 1 /\ j \in Nat /\ j >= 1 /\ j <= batchSize
        /\ n \in DOMAIN batch /\ batch[n] = k
    BY BatchPlace, <2>3
  <2>5. (n - 1) \div batchSize = i - 1
    <3>1. batchSize \in Nat \ {0}
      BY OwnerAssumption
    <3> DEFINE q == (n - 1) \div batchSize
               r == (i - 1) * batchSize
    <3>2. r \in Nat /\ n - 1 = r + (j - 1) /\ n - 1 \in Nat
      BY <2>4, <3>1
    <3>3. q \in Nat /\ q * batchSize <= n - 1 /\ n - 1 < q * batchSize + batchSize
      BY <3>2, <3>1
    <3> HIDE DEF q, n
    <3>4. ~(q < i - 1)
      <4>1. q < i - 1 => q * batchSize + batchSize <= r
        BY <3>1, <3>3, <2>4
      <4> HIDE DEF r
      <4>2. QED
        BY <4>1, <3>1, <3>2, <3>3, <2>4
    <3>5. ~(q > i - 1)
      <4>1. q > i - 1 => r + batchSize <= q * batchSize
        BY <3>1, <3>3, <2>4
      <4> HIDE DEF r
      <4>2. q * batchSize \in Nat
        BY <3>1, <3>3
      <4>3. QED
        BY <4>1, <4>2, <3>1, <3>2, <3>3, <2>4
    <3>6. QED
      BY <3>3, <3>4, <3>5, <2>4 DEF q, n
  <2>6. n - (i - 1) * batchSize = j
    BY <2>4, OwnerAssumption
  <2> HIDE DEF n
  <2>7. QED
    BY <2>2, <2>4, <2>5, <2>6
<1>3. ASSUME mode # "safe", NEW n \in DOMAIN batch, batch[n] = k
      PROVE  Occurs(Cut(batch), k) # {}
  <2> DEFINE i == (n - 1) \div batchSize + 1
             j == n - (i - 1) * batchSize
  <2>1. i \in DOMAIN Batches(batch) /\ j \in DOMAIN Batches(batch)[i]
    BY BatchCover
  <2>2. (i - 1) * batchSize + j = n
    <3>0. DOMAIN batch = 1..Len(batch) /\ Len(batch) \in Nat /\ batchSize \in Nat \ {0}
      BY OwnerAssumption
    <3>1. n \in Nat /\ (n - 1) \div batchSize \in Nat
      BY <3>0
    <3>2. (i - 1) * batchSize \in Nat
      BY <3>0, <3>1
    <3> HIDE DEF i
    <3>3. QED
      BY <3>1, <3>2
  <2> HIDE DEF i, j
  <2>3. Batches(batch)[i][j] = k
    BY <2>1, <2>2, BatchPlace, <1>3
  <2>4. <<i, j>> \in Occurs(Cut(batch), k)
    BY <2>1, <2>3, <1>3 DEF Cut, Occurs, Places
  <2>5. QED
    BY <2>4
<1>4. CASE k \in ToSet(batch)
  <2>1. PICK n \in DOMAIN batch : batch[n] = k
    BY <1>4 DEF ToSet
  <2>2. \A m \in DOMAIN batch : batch[m] = k => m = n
    BY <2>1 DEF IsInjective
  <2>3. \E x : Occurs(Cut(batch), k) = {x}
    <3>1. CASE mode = "safe"
      <4>1. Occurs(Cut(batch), k) = {<<1, n>>}
        BY <3>1, <1>1, <2>1, <2>2
      <4>2. QED
        BY <4>1
    <3>2. CASE mode # "safe"
      <4> DEFINE x == <<(n - 1) \div batchSize + 1, n - ((n - 1) \div batchSize) * batchSize>>
      <4>1. \A at \in Occurs(Cut(batch), k) : at = x
        BY <3>2, <1>2, <2>2
      <4> HIDE DEF x
      <4>2. Occurs(Cut(batch), k) # {}
        BY <3>2, <1>3, <2>1
      <4>3. Occurs(Cut(batch), k) = {x}
        BY <4>1, <4>2
      <4>4. QED
        BY <4>3
    <3>3. QED
      BY <3>1, <3>2
  <2>4. QED
    BY <2>3, FS_Singleton, <1>4
<1>5. CASE k \notin ToSet(batch)
  <2>1. \A n \in DOMAIN batch : batch[n] # k
    BY <1>5 DEF ToSet
  <2>2. Occurs(Cut(batch), k) = {}
    BY <1>1, <1>2, <2>1
  <2>3. QED
    BY <2>2, FS_EmptySet, <1>5
<1>6. QED
  BY <1>4, <1>5

LEMMA SentOfOne ==
  ASSUME NEW call, NEW k
  PROVE  Cardinality(Occurs(<< <<call>> >>, k)) = IF k = call THEN 1 ELSE 0
<1>1. Places(<< <<call>> >>) = {<<1, 1>>}
  BY DEF Places
<1>2. Occurs(<< <<call>> >>, k) = IF k = call THEN {<<1, 1>>} ELSE {}
  BY <1>1 DEF Occurs
<1>3. QED
  BY <1>2, FS_Singleton, FS_EmptySet

-----------------------------------------------------------------------------
LEMMA InitInv == Init => IInv
<1> SUFFICES ASSUME Init PROVE IInv
  OBVIOUS
<1>1. Types
  <2>1. ToSet(<<>>) = {} /\ <<>> \in Seq(Actions) /\ IsInjective(<<>>) /\ <<>> \in Seq(Calls)
    BY DEF ToSet, IsInjective
  <2>2. Len(Left) \in Nat
    BY OwnerAssumption
  <2>3. ProcOK /\ FileOK /\ QueueOK
    BY <2>1 DEF Init, ProcOK, FileOK, QueueOK
  <2>4. ChainOK
    BY <2>1, OwnerAssumption DEF Init, ChainOK
  <2>5. BoundsOK
    BY <2>2, OwnerAssumption DEF Init, BoundsOK
  <2>6. QED
    BY <2>3, <2>4, <2>5 DEF Types
<1>2. ToSet(ownerActions) = {} /\ proc.does = "nothing" /\ complete = {}
  BY DEF Init, ToSet, Off
<1>3. Memory /\ Passed
  BY <1>2 DEF Memory, Owning, Passed
<1>4. DoneWasSent /\ LeftInOrder
  BY <1>2 DEF DoneWasSent, Done, LeftInOrder
<1>5. SentFromFile /\ \A k \in Actions : sent[k] = 0
  BY CallTypes DEF Init, SentFromFile
<1>6. Budget
  <2>1. bounds.crashes = 0
    BY DEF Init
  <2>2. \A k : ~Due(k)
    BY <1>2 DEF Due
  <2>3. QED
    BY <1>5, <2>1, <2>2 DEF Budget, One
<1>7. QED
  BY <1>1, <1>3, <1>4, <1>5, <1>6 DEF IInv

(* Calls that are performed offer no contract again.                       *)
LEMMA PerformKeeps ==
  ASSUME ChainOK, NEW calls \in Seq(Calls), Perform(calls)
  PROVE  /\ owner' \in [ToSet(Contract) -> {"deployer", "new", "other"}]
         /\ nominated' \subseteq {c \in ToSet(Contract) : owner'[c] # "new"}
         /\ performed' \in Seq(Calls) /\ ToSet(performed') = ToSet(performed) \cup ToSet(calls)
         /\ \A c \in ToSet(Contract) : ToNominate(c)' => ToNominate(c) /\ owner'[c] = owner[c]
<1>1. owner' \in [ToSet(Contract) -> {"deployer", "new", "other"}]
  BY DEF ChainOK, Perform
<1>2. \A c \in ToSet(Contract) : owner'[c] = IF accept(c) \in ToSet(calls) THEN "new" ELSE owner[c]
  BY DEF ChainOK, Perform
<1>3. \A c : c \in nominated' <=> c \in nominated /\ accept(c) \notin ToSet(calls)
  BY DEF Perform
<1>4. nominated' \subseteq {c \in ToSet(Contract) : owner'[c] # "new"}
  BY <1>2, <1>3 DEF ChainOK
<1>5. performed' \in Seq(Calls) /\ ToSet(performed') = ToSet(performed) \cup ToSet(calls)
  BY ToSetConcat DEF ChainOK, Perform
<1>6. \A c \in ToSet(Contract) : ToNominate(c)' => ToNominate(c) /\ owner'[c] = owner[c]
  BY <1>2, <1>3 DEF ToNominate
<1>7. QED
  BY <1>1, <1>4, <1>5, <1>6

(* No run of nominate comes to be needed.                                  *)
LEMMA ReopensKept ==
  ASSUME ToSet(ownerActions) \subseteq ToSet(ownerActions)',
         \A c \in ToSet(Contract) : ToNominate(c)' => ToNominate(c) /\ owner'[c] = owner[c],
         proc' = proc \/ (proc.does # "nominate" /\ proc'.does # "nominate")
  PROVE  \A k : Reopens(k)' => Reopens(k)
<1>1. StillToNominate' => StillToNominate
  BY DEF StillToNominate
<1>2. \A c : MayReopen(c)' => MayReopen(c)
  BY <1>1 DEF MayReopen, Ahead
<1>3. QED
  BY <1>2 DEF Reopens

LEMMA BudgetKept ==
  ASSUME IInv, sent' = sent, bounds'.crashes = bounds.crashes,
         \A k \in Actions : Due(k)' => Due(k), \A k \in Actions : Reopens(k)' => Reopens(k)
  PROVE  Budget'
<1> SUFFICES ASSUME NEW k \in Actions
             PROVE  (sent[k] + One(Due(k)) + One(Reopens(k)) <= 1 + bounds.crashes)'
  BY DEF Budget
<1>1. sent[k] + One(Due(k)) + One(Reopens(k)) <= 1 + bounds.crashes
  BY DEF IInv, Budget
<1>2. sent[k] \in Nat /\ bounds.crashes \in Nat
  BY CallTypes DEF IInv, Types, ChainOK, BoundsOK
<1>3. One(Due(k)') <= One(Due(k)) /\ One(Reopens(k)') <= One(Reopens(k))
  BY DEF One
<1>4. One(Due(k)) \in Nat /\ One(Due(k)') \in Nat /\ One(Reopens(k)) \in Nat /\ One(Reopens(k)') \in Nat
  BY DEF One
<1>5. QED
  BY <1>1, <1>2, <1>3, <1>4 DEF One

(* The chain and the file are left alone.                                  *)
LEMMA SameChain ==
  ASSUME IInv, UNCHANGED <<mode, chainVars, fileVars, queue, bounds>>, ProcOK',
         Done' = Done, proc.does # "nominate", proc'.does # "nominate"
  PROVE  Types' /\ DoneWasSent' /\ Budget' /\ SentFromFile' /\ LeftInOrder' /\ Passed'
<1>1. Types'
  BY DEF IInv, Types, FileOK, ChainOK, QueueOK, BoundsOK, chainVars, fileVars
<1>2. DoneWasSent'
  BY DEF IInv, DoneWasSent, chainVars
<1>3. SentFromFile' /\ LeftInOrder'
  BY DEF IInv, SentFromFile, LeftInOrder, chainVars, fileVars
<1>4. Passed'
  BY DEF Passed
<1>5. Budget'
  <2>1. \A k : Due(k)' => Due(k)
    BY DEF Due, fileVars
  <2>2. \A k : Reopens(k)' => Reopens(k)
    BY ReopensKept DEF ToNominate, chainVars, fileVars
  <2>3. QED
    BY <2>1, <2>2, BudgetKept DEF chainVars
<1>6. QED
  BY <1>1, <1>2, <1>3, <1>4, <1>5

-----------------------------------------------------------------------------
LEMMA LeaveActionKeeps == ASSUME IInv, LeaveAction PROVE IInv'
<1> DEFINE e == perform(Left[bounds.left + 1])
<1>0. /\ bounds.left + 1 \in DOMAIN Left /\ bounds.left \in Nat /\ bounds.crashes \in Nat
      /\ proc = Off /\ proc' = proc /\ proc.does = "nothing"
      /\ ownerActions \in Seq(Actions) /\ IsInjective(ownerActions)
  BY OwnerAssumption DEF LeaveAction, IInv, Types, BoundsOK, FileOK, Off
<1>1. e \in Actions /\ e \notin ToSet(ownerActions)
  BY <1>0, CallTypes DEF IInv, LeftInOrder
<1>2. ownerActions' \in Seq(Actions) /\ ToSet(ownerActions') = ToSet(ownerActions) \cup {e}
  BY <1>0, <1>1, ToSetAppend DEF LeaveAction
<1>3. IsInjective(ownerActions')
  <2>1. \A i \in DOMAIN ownerActions : ownerActions[i] # e
    BY <1>1 DEF ToSet
  <2> HIDE DEF e
  <2>2. ownerActions' = Append(ownerActions, e)
    BY DEF LeaveAction, e
  <2>3. QED
    BY <2>1, <2>2, <1>0, <1>1, ToSetAppend DEF IsInjective
<1>4. Types'
  <2>1. ProcOK' /\ ChainOK' /\ QueueOK'
    BY DEF LeaveAction, IInv, Types, ProcOK, ChainOK, QueueOK, chainVars
  <2>2. FileOK'
    BY <1>2, <1>3 DEF LeaveAction, IInv, Types, FileOK
  <2>3. BoundsOK'
    <3>1. bounds' = [bounds EXCEPT !.left = @ + 1] /\ mode' = mode
      BY DEF LeaveAction
    <3>2. bounds.left + 1 <= Len(Left)
      BY <1>0, OwnerAssumption
    <3>3. QED
      BY <3>1, <3>2 DEF IInv, Types, BoundsOK
  <2>4. QED
    BY <2>1, <2>2, <2>3 DEF Types
<1>5. Done' = Done /\ Done = complete
  BY <1>0 DEF LeaveAction, Done
<1>6. Memory' /\ Passed'
  BY <1>0 DEF Memory, Passed, Owning
<1>7. DoneWasSent'
  BY <1>5 DEF IInv, DoneWasSent, LeaveAction, chainVars
<1>8. SentFromFile'
  BY <1>2 DEF IInv, SentFromFile, LeaveAction, chainVars
<1>9. LeftInOrder'
  <2>1. bounds'.left = bounds.left + 1
    BY DEF LeaveAction, IInv, Types, BoundsOK
  <2>2. ASSUME NEW i \in DOMAIN Left, perform(Left[i]) \in ToSet(ownerActions)'
        PROVE  i <= bounds'.left
    <3>1. CASE perform(Left[i]) \in ToSet(ownerActions)
      <4>1. i <= bounds.left /\ i \in Nat
        BY <3>1, OwnerAssumption DEF IInv, LeftInOrder
      <4>2. QED
        BY <4>1, <2>1, <1>0
    <3>2. CASE perform(Left[i]) = e
      <4>1. i = bounds.left + 1
        BY <3>2, CallsDiffer, <1>0, OwnerAssumption DEF IsInjective
      <4>2. QED
        BY <4>1, <2>1, <1>0
    <3>3. QED
      BY <2>2, <3>1, <3>2, <1>2
  <2>3. QED
    BY <2>2 DEF LeftInOrder
<1>10. Budget'
  <2> SUFFICES ASSUME NEW k \in Actions
               PROVE  sent[k] + One(Due(k)') + One(Reopens(k)') <= 1 + bounds.crashes
    BY DEF Budget, LeaveAction, chainVars, IInv, Types, BoundsOK
  <2>1. sent[k] + One(Due(k)) + One(Reopens(k)) <= 1 + bounds.crashes /\ sent[k] \in Nat
    BY CallTypes DEF IInv, Budget, Types, ChainOK
  <2>2. Reopens(k)' => Reopens(k)
    BY <1>2, <1>0, ReopensKept DEF ToNominate, LeaveAction, chainVars
  <2>3. CASE k # e
    <3>1. Due(k)' => Due(k)
      BY <2>3, <1>2, <1>5 DEF Due
    <3>2. One(Due(k)') <= One(Due(k)) /\ One(Reopens(k)') <= One(Reopens(k))
      BY <3>1, <2>2 DEF One
    <3>3. {One(Due(k)), One(Due(k)'), One(Reopens(k)), One(Reopens(k)')} \subseteq Nat
      BY DEF One
    <3>4. bounds.crashes \in Nat
      BY <1>0
    <3>5. QED
      BY <2>1, <3>2, <3>3, <3>4
  <2>4. CASE k = e
    <3>1. sent[k] = 0 /\ ~Reopens(k)
      BY <2>4, <1>1, CallsDiffer DEF IInv, SentFromFile, Reopens
    <3>2. QED
      BY <3>1, <2>2, <1>0 DEF One
  <2>5. QED
    BY <2>3, <2>4
<1>11. QED
  BY <1>4, <1>6, <1>7, <1>8, <1>9, <1>10 DEF IInv

LEMMA StartNominateKeeps == ASSUME IInv, StartNominate PROVE IInv'
<1>0. /\ proc = Off /\ proc.does = "nothing" /\ proc' = [does |-> "nominate", at |-> 1]
      /\ UNCHANGED <<mode, chainVars, fileVars, queue, bounds>>
  BY DEF StartNominate, Off
<1>1. StillToNominate
  BY DEF StartNominate, StillToNominate
<1>2. Types'
  BY <1>0 DEF IInv, Types, ProcOK, FileOK, ChainOK, QueueOK, BoundsOK, chainVars, fileVars
<1>3. Done' = Done
  BY <1>0 DEF Done, fileVars
<1>4. DoneWasSent' /\ SentFromFile' /\ LeftInOrder'
  BY <1>0, <1>3 DEF IInv, DoneWasSent, SentFromFile, LeftInOrder, chainVars, fileVars
<1>5. Memory'
  BY <1>0 DEF Memory, Owning
<1>6. Passed'
  <2>1. \A i \in DOMAIN Contract : i \in Nat /\ i >= 1
    BY OwnerAssumption
  <2>2. QED
    BY <2>1, <1>0 DEF Passed
<1>7. Budget'
  <2>1. \A k : Due(k)' => Due(k)
    BY <1>0, <1>3 DEF Due, fileVars
  <2>2. \A k : Reopens(k)' => Reopens(k)
    BY <1>0, <1>1 DEF Reopens, MayReopen
  <2>3. QED
    BY <2>1, <2>2, <1>0, BudgetKept DEF chainVars
<1>8. QED
  BY <1>2, <1>4, <1>5, <1>6, <1>7 DEF IInv

LEMMA NominateKeeps == ASSUME IInv, Nominate PROVE IInv'
<1>c. PICK c \in ToSet(Contract) : c = Contract[proc.at]
  BY DEF Nominate, ToSet
<1> DEFINE offered == ToNominate(c) /\ owner[c] = "deployer"
           left == ToNominate(c) /\ owner[c] # "deployer"
           last == proc.at = Len(Contract)
<1>0. /\ proc \in [does : {"nominate"}, at : Nat \ {0}] /\ proc.does = "nominate"
      /\ proc.at \in DOMAIN Contract /\ proc.at \in Nat /\ Contract[proc.at] = c
      /\ DOMAIN Contract = 1..Len(Contract) /\ Len(Contract) \in Nat
      /\ UNCHANGED <<mode, owner, performed, sent, queue, bounds>>
      /\ bounds.crashes \in Nat
  BY OwnerAssumption, <1>c DEF Nominate, IInv, Types, ProcOK, BoundsOK, Off, Owning
<1>1. proc' = IF last THEN Off ELSE [proc EXCEPT !.at = @ + 1]
  BY DEF Nominate
<1>2. nominated' = IF offered THEN nominated \cup {c} ELSE nominated
  BY <1>c DEF Nominate
<1>3. IF left THEN /\ ownerActions' = IF nominate(c) \in ToSet(ownerActions) THEN ownerActions
                                      ELSE Append(ownerActions, nominate(c))
                   /\ complete' = complete \ {nominate(c)}
      ELSE UNCHANGED fileVars
  BY <1>c DEF Nominate
<1>4. ownerActions \in Seq(Actions) /\ IsInjective(ownerActions) /\ nominate(c) \in Actions
      /\ complete \subseteq ToSet(ownerActions)
  BY <1>0, CallTypes DEF IInv, Types, FileOK
<1>5. /\ ownerActions' \in Seq(Actions) /\ IsInjective(ownerActions')
      /\ ToSet(ownerActions') = ToSet(ownerActions) \cup (IF left THEN {nominate(c)} ELSE {})
      /\ complete' = complete \ (IF left THEN {nominate(c)} ELSE {})
  <2> HIDE DEF left
  <2>1. CASE ~left
    BY <2>1, <1>3, <1>4 DEF fileVars
  <2>2. CASE left /\ nominate(c) \in ToSet(ownerActions)
    BY <2>2, <1>3, <1>4
  <2>3. CASE left /\ nominate(c) \notin ToSet(ownerActions)
    <3> DEFINE e == nominate(c)
    <3>1. ownerActions' = Append(ownerActions, e) /\ e \in Actions
      BY <2>3, <1>3, <1>4
    <3>2. \A i \in DOMAIN ownerActions : ownerActions[i] # e
      BY <2>3 DEF ToSet
    <3> HIDE DEF e
    <3>3. IsInjective(ownerActions')
      BY <3>1, <3>2, <1>4, ToSetAppend DEF IsInjective
    <3>4. ownerActions' \in Seq(Actions) /\ ToSet(ownerActions') = ToSet(ownerActions) \cup {e}
      BY <3>1, <1>4, ToSetAppend
    <3>5. QED
      BY <3>3, <3>4, <2>3, <1>3 DEF e
  <2>4. QED
    BY <2>1, <2>2, <2>3
<1>6. proc.at + 1 \in Nat \ {0} /\ (~last => proc' \in [does : {"nominate"}, at : Nat \ {0}]
      /\ proc'.does = "nominate" /\ proc'.at = proc.at + 1) /\ (last => proc' = Off /\ proc'.does = "nothing")
  BY <1>0, <1>1 DEF Off
<1>7. Done = complete /\ Done' = complete'
  BY <1>0, <1>6 DEF Done
<1> HIDE DEF last
<1>8. Types'
  <2>1. ProcOK'
    BY <1>6 DEF ProcOK
  <2>2. FileOK'
    BY <1>4, <1>5 DEF FileOK
  <2>3. ChainOK'
    BY <1>0, <1>2 DEF IInv, Types, ChainOK, ToNominate
  <2>4. QueueOK' /\ BoundsOK'
    BY <1>0 DEF IInv, Types, QueueOK, BoundsOK
  <2>5. QED
    BY <2>1, <2>2, <2>3, <2>4 DEF Types
<1>9. Memory'
  BY <1>6 DEF Memory, Owning
<1>10. DoneWasSent'
  BY <1>0, <1>5, <1>7 DEF IInv, DoneWasSent
<1>11. SentFromFile'
  BY <1>0, <1>5 DEF IInv, SentFromFile
<1>12. LeftInOrder'
  BY <1>0, <1>5, CallsDiffer DEF IInv, LeftInOrder
<1>13. \A b \in ToSet(Contract) : ToNominate(b)' => ToNominate(b)
  BY <1>0, <1>2 DEF ToNominate
<1>14. ToNominate(c)' => owner'[c] # "deployer" /\ nominate(c) \in ToSet(ownerActions)'
  BY <1>0, <1>2, <1>5 DEF ToNominate
<1>15. \A i \in DOMAIN Contract : i < proc.at + 1 =>
         (ToNominate(Contract[i])' =>
            owner'[Contract[i]] # "deployer" /\ nominate(Contract[i]) \in ToSet(ownerActions)')
  <2> SUFFICES ASSUME NEW i \in DOMAIN Contract, i < proc.at + 1, ToNominate(Contract[i])'
               PROVE  owner'[Contract[i]] # "deployer" /\ nominate(Contract[i]) \in ToSet(ownerActions)'
    OBVIOUS
  <2>1. CASE i = proc.at
    BY <2>1, <1>14, <1>0 DEF ToNominate
  <2>2. CASE i < proc.at
    <3>1. ToNominate(Contract[i])
      BY <1>13 DEF ToSet
    <3>2. owner[Contract[i]] # "deployer" /\ nominate(Contract[i]) \in ToSet(ownerActions)
      BY <3>1, <2>2, <1>0 DEF IInv, Passed
    <3>3. QED
      BY <3>2, <1>0, <1>5
  <2>3. QED
    BY <2>1, <2>2, <1>0
<1>16. Passed'
  <2>1. CASE last
    BY <2>1, <1>6 DEF Passed
  <2>2. CASE ~last
    BY <2>2, <1>6, <1>15 DEF Passed
  <2>3. QED
    BY <2>1, <2>2
<1>17. last => ~StillToNominate'
  <2> SUFFICES ASSUME last, NEW b \in ToSet(Contract), ToNominate(b)'
               PROVE  owner'[b] # "deployer" /\ nominate(b) \in ToSet(ownerActions)'
    BY DEF StillToNominate
  <2>1. PICK i \in DOMAIN Contract : Contract[i] = b
    BY DEF ToSet
  <2>2. i < proc.at + 1
    BY <1>0 DEF last
  <2>3. QED
    BY <2>1, <2>2, <1>15
<1>18. Budget'
  <2> SUFFICES ASSUME NEW k \in Actions
               PROVE  sent[k] + One(Due(k)') + One(Reopens(k)') <= 1 + bounds.crashes
    BY <1>0 DEF Budget
  <2>1. sent[k] + One(Due(k)) + One(Reopens(k)) <= 1 + bounds.crashes /\ sent[k] \in Nat
    BY CallTypes DEF IInv, Budget, Types, ChainOK
  <2>2. Reopens(k)' => Reopens(k) /\ k # nominate(c)
    <3> SUFFICES ASSUME NEW b \in ToSet(Contract), k = nominate(b), MayReopen(b)'
                 PROVE  Reopens(k) /\ k # nominate(c)
      BY DEF Reopens
    <3>1. ~last
      BY <1>17, <1>6 DEF MayReopen
    <3>2. PICK i \in DOMAIN Contract : i >= proc.at + 1 /\ Contract[i] = b
      BY <3>1, <1>6 DEF MayReopen, Ahead
    <3>3. i >= proc.at /\ i # proc.at
      BY <3>2, <1>0
    <3>4. b # c
      BY <3>2, <3>3, <1>0, OwnerAssumption DEF IsInjective
    <3>5. MayReopen(b)
      BY <3>2, <3>3, <1>0 DEF MayReopen, Ahead
    <3>6. QED
      BY <3>4, <3>5, CallsDiffer DEF Reopens
  <2>3. {One(Due(k)), One(Due(k)'), One(Reopens(k)), One(Reopens(k)')} \subseteq Nat
    BY DEF One
  <2>4. One(Reopens(k)') <= One(Reopens(k))
    BY <2>2 DEF One
  <2>5. CASE k # nominate(c)
    <3>1. Due(k)' => Due(k)
      BY <2>5, <1>5, <1>7 DEF Due
    <3>2. One(Due(k)') <= One(Due(k))
      BY <3>1 DEF One
    <3>3. bounds.crashes \in Nat
      BY <1>0
    <3>4. QED
      BY <2>1, <2>3, <2>4, <3>2, <3>3
  <2>6. CASE k = nominate(c)
    <3>1. ~Reopens(k)' /\ Reopens(k)
      BY <2>6, <2>2, <1>0 DEF Reopens, MayReopen, Ahead
    <3>2. One(Reopens(k)') = 0 /\ One(Reopens(k)) = 1
      BY <3>1 DEF One
    <3>3. One(Due(k)') <= 1
      BY DEF One
    <3>4. QED
      BY <3>2, <3>3, <2>1, <2>3, <1>0
  <2>7. QED
    BY <2>5, <2>6
<1>19. QED
  BY <1>8, <1>9, <1>10, <1>11, <1>12, <1>16, <1>18 DEF IInv

-----------------------------------------------------------------------------
LEMMA StartOwnerKeeps == ASSUME IInv, StartOwner PROVE IInv'
<1>0. /\ proc = Off /\ proc.does = "nothing"
      /\ proc' = [does |-> "actions", at |-> 1, marked |-> complete, batch |-> <<>>]
      /\ UNCHANGED <<mode, chainVars, fileVars, queue>>
      /\ complete \subseteq Actions /\ <<>> \in Seq(Calls)
  BY ToSetType DEF StartOwner, Off, IInv, Types, FileOK
<1>1. bounds' = [bounds EXCEPT !.runs = @ + (IF mode = "account" THEN 0 ELSE 1)]
  BY DEF StartOwner
<1>2. BoundsOK' /\ bounds'.crashes = bounds.crashes /\ bounds'.left = bounds.left
  BY <1>0, <1>1 DEF IInv, Types, BoundsOK
<1>3. ProcOK'
  <2>1. proc' \in [does : Owning, at : Nat \ {0}, marked : SUBSET Actions, batch : Seq(Calls)]
    BY <1>0 DEF Owning
  <2>2. QED
    BY <2>1 DEF ProcOK
<1>4. Types'
  BY <1>0, <1>2, <1>3 DEF IInv, Types, FileOK, ChainOK, QueueOK, chainVars, fileVars
<1>5. proc'.does = "actions" /\ proc'.marked = complete' /\ proc'.batch = <<>> /\ mode' = mode
  BY <1>0 DEF fileVars
<1>6. Memory'
  <2>1. ToSet(<<>>) = {} /\ IsInjective(<<>>)
    BY DEF ToSet, IsInjective
  <2>2. AccountMemory' /\ CollectorMemory'
    BY <2>1, <1>5 DEF AccountMemory, CollectorMemory
  <2>3. QED
    BY <2>2 DEF Memory
<1>7. Done' = Done /\ Passed'
  BY <1>0, <1>5 DEF Done, fileVars, Passed
<1>8. DoneWasSent' /\ SentFromFile' /\ LeftInOrder'
  BY <1>0, <1>2, <1>7 DEF IInv, DoneWasSent, SentFromFile, LeftInOrder, chainVars, fileVars
<1>9. Budget'
  <2>1. \A k : Due(k)' => Due(k)
    BY <1>0, <1>7 DEF Due, fileVars
  <2>2. \A k : Reopens(k)' => Reopens(k)
    BY <1>0, <1>5, ReopensKept DEF ToNominate, chainVars, fileVars
  <2>3. QED
    BY <2>1, <2>2, <1>0, <1>2, BudgetKept DEF chainVars
<1>10. QED
  BY <1>4, <1>6, <1>7, <1>8, <1>9 DEF IInv

(* What a running owner has.                                               *)
LEMMA Running ==
  ASSUME IInv, proc.does \in Owning
  PROVE  /\ proc \in [does : Owning, at : Nat \ {0}, marked : SUBSET Actions, batch : Seq(Calls)]
         /\ proc.does # "nominate" /\ proc.at \in Nat /\ proc.at + 1 \in Nat \ {0}
         /\ mode = "account" => AccountMemory
         /\ mode # "account" => CollectorMemory
BY DEF IInv, Types, ProcOK, Memory, Off, Owning

LEMMA SentOne ==
  ASSUME sent \in [Calls -> Nat], NEW call \in Calls, SentNow(<< <<call>> >>)
  PROVE  /\ sent' \in [Calls -> Nat]
         /\ \A k \in Calls : sent'[k] = sent[k] + (IF k = call THEN 1 ELSE 0)
<1>1. sent' = [k \in Calls |-> sent[k] + Cardinality(Occurs(<< <<call>> >>, k))]
  BY DEF SentNow, Occurs
<1>2. \A k \in Calls : Cardinality(Occurs(<< <<call>> >>, k)) = IF k = call THEN 1 ELSE 0
  BY SentOfOne
<1> HIDE DEF Occurs
<1>3. QED
  BY <1>1, <1>2

LEMMA SentCut ==
  ASSUME sent \in [Calls -> Nat], NEW batch \in Seq(Calls), IsInjective(batch), SentNow(Cut(batch))
  PROVE  /\ sent' \in [Calls -> Nat]
         /\ \A k \in Calls : sent'[k] = sent[k] + (IF k \in ToSet(batch) THEN 1 ELSE 0)
<1>1. sent' = [k \in Calls |-> sent[k] + Cardinality(Occurs(Cut(batch), k))]
  BY DEF SentNow, Occurs
<1>2. \A k \in Calls : Cardinality(Occurs(Cut(batch), k)) = IF k \in ToSet(batch) THEN 1 ELSE 0
  BY SentOfCut
<1>3. QED
  BY <1>1, <1>2

LEMMA SubmitActionKeeps == ASSUME IInv, SubmitAction PROVE IInv'
<1>0. /\ mode = "account" /\ proc.does = "actions" /\ proc.does \in Owning
      /\ proc.at \in DOMAIN ownerActions /\ Current \notin proc.marked
      /\ UNCHANGED <<mode, fileVars, queue, bounds>>
  BY DEF SubmitAction, ToDo, Owning
<1>1. /\ proc \in [does : Owning, at : Nat \ {0}, marked : SUBSET Actions, batch : Seq(Calls)]
      /\ AccountMemory
  BY <1>0, Running
<1>2. PICK k \in Actions : k = Current
  BY <1>0 DEF IInv, Types, FileOK, Current
<1>3. k \in ToSet(ownerActions) /\ k \in Calls /\ proc.marked = complete /\ k \notin complete /\ proc.batch = <<>>
  BY <1>0, <1>1, <1>2, CallTypes DEF Current, ToSet, AccountMemory
<1>4. CASE Succeeds(<<Current>>)
  <2>0. /\ Perform(<<k>>) /\ SentNow(<< <<k>> >>)
        /\ proc' = [proc EXCEPT !.does = "mark", !.marked = @ \cup {k}]
    BY <1>4, <1>2 DEF SubmitAction
  <2>1. <<k>> \in Seq(Calls) /\ ToSet(<<k>>) = {k}
    BY <1>3 DEF ToSet
  <2>2. /\ owner' \in [ToSet(Contract) -> {"deployer", "new", "other"}]
        /\ nominated' \subseteq {c \in ToSet(Contract) : owner'[c] # "new"}
        /\ performed' \in Seq(Calls) /\ ToSet(performed') = ToSet(performed) \cup {k}
        /\ \A c \in ToSet(Contract) : ToNominate(c)' => ToNominate(c) /\ owner'[c] = owner[c]
    BY <2>0, <2>1, PerformKeeps DEF IInv, Types
  <2>3. sent' \in [Calls -> Nat] /\ \A j \in Calls : sent'[j] = sent[j] + (IF j = k THEN 1 ELSE 0)
    BY <2>0, <1>3, SentOne DEF IInv, Types, ChainOK
  <2>4. /\ proc' \in [does : Owning, at : Nat \ {0}, marked : SUBSET Actions, batch : Seq(Calls)]
        /\ proc'.does = "mark" /\ proc'.marked = complete \cup {k} /\ proc'.batch = <<>> /\ proc'.at = proc.at
    BY <2>0, <1>1, <1>3 DEF Owning
  <2>5. Types'
    <3>1. ChainOK'
      BY <2>2, <2>3 DEF ChainOK
    <3>2. ProcOK'
      BY <2>4 DEF ProcOK
    <3>3. FileOK' /\ QueueOK' /\ BoundsOK'
      BY <1>0 DEF IInv, Types, FileOK, QueueOK, BoundsOK, fileVars
    <3>4. QED
      BY <3>1, <3>2, <3>3 DEF Types
  <2>6. Memory'
    BY <2>4, <1>0, <1>3 DEF Memory, AccountMemory, fileVars
  <2>7. Done = complete /\ Done' = complete \cup {k}
    BY <1>0, <2>4 DEF Done
  <2>8. DoneWasSent'
    <3> SUFFICES ASSUME NEW j \in complete \cup {k}
                 PROVE  sent'[j] > 0 /\ j \in ToSet(performed')
      BY <2>7 DEF DoneWasSent
    <3>1. j \in Calls
      BY ToSetType, CallTypes DEF IInv, Types, FileOK
    <3>2. CASE j \in complete
      BY <3>1, <3>2, <2>2, <2>3, <2>7, <1>0 DEF IInv, DoneWasSent, Types, ChainOK
    <3>3. CASE j = k
      BY <3>1, <3>3, <2>2, <2>3 DEF IInv, Types, ChainOK
    <3>4. QED
      BY <3>2, <3>3
  <2>9. SentFromFile'
    <3> SUFFICES ASSUME NEW j \in Actions, j \notin ToSet(ownerActions)' PROVE sent'[j] = 0
      BY DEF SentFromFile
    <3>1. j \notin ToSet(ownerActions) /\ j # k /\ j \in Calls
      BY <1>0, <1>3, CallTypes DEF fileVars
    <3>2. sent[j] = 0
      BY <3>1 DEF IInv, SentFromFile
    <3>3. QED
      BY <3>1, <3>2, <2>3
  <2>10. LeftInOrder' /\ Passed'
    BY <1>0, <2>4 DEF IInv, LeftInOrder, Passed, fileVars
  <2>11. Budget'
    <3> SUFFICES ASSUME NEW j \in Actions
                 PROVE  sent'[j] + One(Due(j)') + One(Reopens(j)') <= 1 + bounds.crashes
      BY <1>0 DEF Budget
    <3>1. sent[j] + One(Due(j)) + One(Reopens(j)) <= 1 + bounds.crashes /\ sent[j] \in Nat
          /\ bounds.crashes \in Nat /\ sent'[j] = sent[j] + (IF j = k THEN 1 ELSE 0)
      BY CallTypes, <2>3 DEF IInv, Budget, Types, ChainOK, BoundsOK
    <3>2. Reopens(j)' => Reopens(j)
      BY <2>2, <1>0, <2>4, ReopensKept DEF fileVars
    <3>3. {One(Due(j)), One(Due(j)'), One(Reopens(j)), One(Reopens(j)')} \subseteq Nat
          /\ One(Reopens(j)') <= One(Reopens(j))
      BY <3>2 DEF One
    <3>4. Due(j)' <=> Due(j) /\ j # k
      BY <2>7, <1>0 DEF Due, fileVars
    <3>5. CASE j # k
      <4>1. One(Due(j)') = One(Due(j))
        BY <3>4, <3>5 DEF One
      <4>2. QED
        BY <4>1, <3>1, <3>3, <3>5
    <3>6. CASE j = k
      <4>1. Due(j) /\ ~Due(j)'
        BY <3>6, <3>4, <2>7, <1>3 DEF Due
      <4>2. One(Due(j)) = 1 /\ One(Due(j)') = 0
        BY <4>1 DEF One
      <4>3. QED
        BY <4>2, <3>1, <3>3, <3>6
    <3>7. QED
      BY <3>5, <3>6
  <2>12. QED
    BY <2>5, <2>6, <2>8, <2>9, <2>10, <2>11 DEF IInv
<1>5. CASE ~Succeeds(<<Current>>)
  <2>1. proc' = Off /\ proc'.does = "nothing" /\ UNCHANGED chainVars
    BY <1>5 DEF SubmitAction, Off
  <2>2. ProcOK' /\ Memory' /\ Done' = Done
    BY <1>0, <2>1 DEF ProcOK, Memory, Owning, Done, fileVars
  <2>3. QED
    BY <1>0, <2>1, <2>2, SameChain DEF IInv
<1>6. QED
  BY <1>4, <1>5

(* The file is written.                                                    *)
LEMMA WriteKeeps ==
  ASSUME IInv, proc.does \in {"mark", "write"}, complete' = proc.marked,
         proc'.does \in {"nothing", "actions"}, ProcOK', Memory',
         UNCHANGED <<mode, chainVars, ownerActions, queue, bounds>>
  PROVE  IInv'
<1>0. Done = proc.marked /\ Done' = complete' /\ Done' = Done
  BY DEF Done
<1>1. complete' \subseteq ToSet(ownerActions)
  <2>1. proc.does \in Owning
    BY DEF Owning
  <2>2. CASE mode = "account"
    BY <2>1, <2>2, Running DEF AccountMemory, IInv, Types, FileOK
  <2>3. CASE mode # "account"
    BY <2>1, <2>3, Running DEF CollectorMemory, IInv, Types, FileOK
  <2>4. QED
    BY <2>2, <2>3
<1>2. Types'
  BY <1>1 DEF IInv, Types, FileOK, ChainOK, QueueOK, BoundsOK, chainVars
<1>3. DoneWasSent' /\ SentFromFile' /\ LeftInOrder' /\ Passed'
  BY <1>0 DEF IInv, DoneWasSent, SentFromFile, LeftInOrder, Passed, chainVars
<1>4. Budget'
  <2>1. \A k : Due(k)' => Due(k)
    BY <1>0 DEF Due
  <2>2. \A k : Reopens(k)' => Reopens(k)
    BY ReopensKept DEF ToNominate, chainVars
  <2>3. QED
    BY <2>1, <2>2, BudgetKept DEF chainVars
<1>5. QED
  BY <1>2, <1>3, <1>4 DEF IInv

LEMMA WriteMarkKeeps == ASSUME IInv, WriteMark PROVE IInv'
<1>0. proc.does = "mark" /\ proc.does \in Owning
      /\ UNCHANGED <<mode, chainVars, ownerActions, queue, bounds>> /\ complete' = proc.marked
  BY DEF WriteMark, Owning
<1>1. /\ proc \in [does : Owning, at : Nat \ {0}, marked : SUBSET Actions, batch : Seq(Calls)]
      /\ mode = "account" /\ AccountMemory /\ proc.at + 1 \in Nat \ {0}
  BY <1>0, Running DEF CollectorMemory
<1>2. /\ proc' \in [does : Owning, at : Nat \ {0}, marked : SUBSET Actions, batch : Seq(Calls)]
      /\ proc'.does = "actions" /\ proc'.marked = proc.marked /\ proc'.batch = proc.batch
  BY <1>1 DEF WriteMark, Owning
<1>3. ProcOK' /\ Memory'
  BY <1>0, <1>1, <1>2 DEF ProcOK, Memory, AccountMemory
<1>4. QED
  BY <1>0, <1>2, <1>3, WriteKeeps

LEMMA WriteActionsKeeps == ASSUME IInv, WriteActions PROVE IInv'
<1>0. proc.does = "write" /\ complete' = proc.marked /\ proc' = Off /\ proc'.does = "nothing"
      /\ UNCHANGED <<mode, chainVars, ownerActions, queue, bounds>>
  BY DEF WriteActions, Off
<1>1. ProcOK' /\ Memory'
  BY <1>0 DEF ProcOK, Memory, Owning
<1>2. QED
  BY <1>0, <1>1, WriteKeeps

-----------------------------------------------------------------------------
LEMMA CollectActionKeeps == ASSUME IInv, CollectAction PROVE IInv'
<1>0. /\ mode # "account" /\ proc.does = "actions" /\ proc.does \in Owning
      /\ proc.at \in DOMAIN ownerActions /\ Current \notin proc.marked
      /\ UNCHANGED <<mode, chainVars, fileVars, queue, bounds>>
  BY DEF CollectAction, ToDo, Owning
<1>1. /\ proc \in [does : Owning, at : Nat \ {0}, marked : SUBSET Actions, batch : Seq(Calls)]
      /\ CollectorMemory /\ proc.at + 1 \in Nat \ {0}
  BY <1>0, Running
<1>2. PICK k \in Actions : k = Current
  BY <1>0 DEF IInv, Types, FileOK, Current
<1>3. k \in ToSet(ownerActions) /\ k \in Calls /\ k \notin complete /\ k \notin ToSet(proc.batch)
  BY <1>0, <1>1, <1>2, CallTypes DEF Current, ToSet, CollectorMemory
<1>4. proc' = [proc EXCEPT !.at = @ + 1, !.marked = @ \cup {k}, !.batch = Append(proc.batch, k)]
  BY <1>2 DEF CollectAction, Collected, matchedTxnIsPending
<1>5. /\ Append(proc.batch, k) \in Seq(Calls) /\ ToSet(Append(proc.batch, k)) = ToSet(proc.batch) \cup {k}
      /\ IsInjective(Append(proc.batch, k))
  <2>1. proc.batch \in Seq(Calls) /\ \A i \in DOMAIN proc.batch : proc.batch[i] # k
    BY <1>1, <1>3 DEF ToSet
  <2>2. QED
    BY <2>1, <1>1, <1>3, ToSetAppend DEF CollectorMemory, IsInjective
<1>6. /\ proc' \in [does : Owning, at : Nat \ {0}, marked : SUBSET Actions, batch : Seq(Calls)]
      /\ proc'.does = "actions" /\ proc'.marked = proc.marked \cup {k} /\ proc'.batch = Append(proc.batch, k)
  BY <1>0, <1>1, <1>4, <1>5
<1>7. ProcOK' /\ Done' = Done
  BY <1>0, <1>6 DEF ProcOK, Done, fileVars
<1>8. Memory'
  BY <1>0, <1>1, <1>3, <1>5, <1>6 DEF Memory, CollectorMemory, fileVars
<1>9. QED
  BY <1>0, <1>6, <1>7, <1>8, SameChain DEF IInv

LEMMA PassActionKeeps == ASSUME IInv, PassAction PROVE IInv'
<1>0. /\ proc.does = "actions" /\ proc.does \in Owning
      /\ UNCHANGED <<mode, chainVars, fileVars, queue, bounds>>
  BY DEF PassAction, Owning
<1>1. /\ proc \in [does : Owning, at : Nat \ {0}, marked : SUBSET Actions, batch : Seq(Calls)]
      /\ proc.at + 1 \in Nat \ {0}
      /\ mode = "account" => AccountMemory
      /\ mode # "account" => CollectorMemory
  BY <1>0, Running
<1>2. /\ proc' \in [does : Owning, at : Nat \ {0}, marked : SUBSET Actions, batch : Seq(Calls)]
      /\ proc'.does \in {"actions", "accept"} /\ proc'.marked = proc.marked /\ proc'.batch = proc.batch
  <2>1. CASE proc.at \in DOMAIN ownerActions
    <3>1. proc' = [proc EXCEPT !.at = @ + 1]
      BY <2>1 DEF PassAction
    <3>2. QED
      BY <3>1, <1>0, <1>1
  <2>2. CASE proc.at \notin DOMAIN ownerActions
    <3>1. proc' = [[proc EXCEPT !.does = "accept"] EXCEPT !.at = 1]
      BY <2>2 DEF PassAction
    <3>2. "accept" \in Owning /\ 1 \in Nat \ {0}
      BY DEF Owning
    <3>3. proc' \in [does : Owning, at : Nat \ {0}, marked : SUBSET Actions, batch : Seq(Calls)]
      BY <3>1, <3>2, <1>1
    <3>4. proc'.does = "accept" /\ proc'.marked = proc.marked /\ proc'.batch = proc.batch
      BY <3>1, <1>1
    <3>5. QED
      BY <3>3, <3>4
  <2>3. QED
    BY <2>1, <2>2
<1>3. ProcOK' /\ Done' = Done /\ proc'.does # "nominate"
  BY <1>0, <1>2 DEF ProcOK, Done, fileVars
<1>4. Memory'
  <2>1. CASE mode = "account"
    BY <2>1, <1>0, <1>1, <1>2 DEF Memory, AccountMemory, fileVars
  <2>2. CASE mode # "account"
    <3>1. \A i \in DOMAIN Contract : accept(Contract[i]) \notin ToSet(proc.batch)
      BY <2>2, <1>0, <1>1, CallTypes DEF CollectorMemory, ToSet
    <3>2. QED
      BY <2>2, <3>1, <1>0, <1>1, <1>2 DEF Memory, CollectorMemory, fileVars
  <2>3. QED
    BY <2>1, <2>2
<1>5. QED
  BY <1>0, <1>3, <1>4, SameChain DEF IInv

LEMMA SubmitAcceptanceKeeps == ASSUME IInv, SubmitAcceptance PROVE IInv'
<1>0. /\ mode = "account" /\ proc.does = "accept" /\ proc.does \in Owning /\ proc.at \in DOMAIN Contract
      /\ UNCHANGED <<mode, fileVars, queue, bounds>>
  BY DEF SubmitAcceptance, ToAccept, Owning
<1>1. /\ proc \in [does : Owning, at : Nat \ {0}, marked : SUBSET Actions, batch : Seq(Calls)]
      /\ AccountMemory /\ proc.at + 1 \in Nat \ {0}
  BY <1>0, Running
<1>2. PICK k \in Calls \ Actions : k = accept(Contract[proc.at])
  BY <1>0, CallTypes DEF ToSet
<1>3. Perform(<<k>>) /\ SentNow(<< <<k>> >>) /\ proc' = [proc EXCEPT !.at = @ + 1]
  BY <1>2 DEF SubmitAcceptance
<1>4. <<k>> \in Seq(Calls)
  BY <1>2
<1>5. /\ owner' \in [ToSet(Contract) -> {"deployer", "new", "other"}]
      /\ nominated' \subseteq {c \in ToSet(Contract) : owner'[c] # "new"}
      /\ performed' \in Seq(Calls) /\ ToSet(performed) \subseteq ToSet(performed')
      /\ \A c \in ToSet(Contract) : ToNominate(c)' => ToNominate(c) /\ owner'[c] = owner[c]
  BY <1>3, <1>4, PerformKeeps DEF IInv, Types
<1>6. sent' \in [Calls -> Nat] /\ \A j \in Actions : sent'[j] = sent[j]
  <2>1. sent' \in [Calls -> Nat] /\ \A j \in Calls : sent'[j] = sent[j] + (IF j = k THEN 1 ELSE 0)
    BY <1>2, <1>3, SentOne DEF IInv, Types, ChainOK
  <2>2. QED
    BY <2>1, <1>2, CallTypes DEF IInv, Types, ChainOK
<1>7. /\ proc' \in [does : Owning, at : Nat \ {0}, marked : SUBSET Actions, batch : Seq(Calls)]
      /\ proc'.does = "accept" /\ proc'.marked = proc.marked /\ proc'.batch = proc.batch
  BY <1>0, <1>1, <1>3
<1>8. Types'
  <2>1. ChainOK'
    BY <1>5, <1>6 DEF ChainOK
  <2>2. ProcOK'
    BY <1>7 DEF ProcOK
  <2>3. FileOK' /\ QueueOK' /\ BoundsOK'
    BY <1>0 DEF IInv, Types, FileOK, QueueOK, BoundsOK, fileVars
  <2>4. QED
    BY <2>1, <2>2, <2>3 DEF Types
<1>9. Memory' /\ Passed'
  BY <1>0, <1>1, <1>7 DEF Memory, AccountMemory, Passed, fileVars
<1>10. Done' = Done /\ Done = complete /\ complete \subseteq Actions
  BY <1>0, <1>7, ToSetType DEF Done, fileVars, IInv, Types, FileOK
<1>11. DoneWasSent'
  <2>1. \A j \in complete : sent'[j] > 0 /\ j \in ToSet(performed')
    BY <1>0, <1>5, <1>6, <1>10 DEF IInv, DoneWasSent
  <2>2. QED
    BY <2>1, <1>10 DEF DoneWasSent
<1>12. SentFromFile' /\ LeftInOrder'
  BY <1>0, <1>6 DEF IInv, SentFromFile, LeftInOrder, fileVars
<1>13. Budget'
  <2> SUFFICES ASSUME NEW j \in Actions
               PROVE  sent[j] + One(Due(j)') + One(Reopens(j)') <= 1 + bounds.crashes
    BY <1>0, <1>6 DEF Budget
  <2>1. sent[j] + One(Due(j)) + One(Reopens(j)) <= 1 + bounds.crashes /\ sent[j] \in Nat /\ bounds.crashes \in Nat
    BY CallTypes DEF IInv, Budget, Types, ChainOK, BoundsOK
  <2>2. Reopens(j)' => Reopens(j)
    BY <1>5, <1>0, <1>7, ReopensKept DEF fileVars
  <2>3. Due(j)' => Due(j)
    BY <1>0, <1>10 DEF Due, fileVars
  <2>4. {One(Due(j)), One(Due(j)'), One(Reopens(j)), One(Reopens(j)')} \subseteq Nat
        /\ One(Reopens(j)') <= One(Reopens(j)) /\ One(Due(j)') <= One(Due(j))
    BY <2>2, <2>3 DEF One
  <2>5. QED
    BY <2>1, <2>4
<1>14. QED
  BY <1>8, <1>9, <1>11, <1>12, <1>13 DEF IInv

LEMMA CollectAcceptanceKeeps == ASSUME IInv, CollectAcceptance PROVE IInv'
<1>0. /\ mode # "account" /\ proc.does = "accept" /\ proc.does \in Owning /\ proc.at \in DOMAIN Contract
      /\ UNCHANGED <<mode, chainVars, fileVars, queue, bounds>>
  BY DEF CollectAcceptance, ToAccept, Owning
<1>1. /\ proc \in [does : Owning, at : Nat \ {0}, marked : SUBSET Actions, batch : Seq(Calls)]
      /\ CollectorMemory /\ proc.at + 1 \in Nat \ {0} /\ proc.at \in Nat
  BY <1>0, Running
<1>2. PICK k \in Calls \ Actions : k = accept(Contract[proc.at])
  BY <1>0, CallTypes DEF ToSet
<1>3. k \notin ToSet(proc.batch)
  BY <1>0, <1>1, <1>2 DEF CollectorMemory
<1>4. proc' = [proc EXCEPT !.at = @ + 1, !.batch = Append(proc.batch, k)]
  BY <1>2 DEF CollectAcceptance, Collected, matchedTxnIsPending
<1>5. /\ Append(proc.batch, k) \in Seq(Calls) /\ ToSet(Append(proc.batch, k)) = ToSet(proc.batch) \cup {k}
      /\ IsInjective(Append(proc.batch, k))
  <2>1. proc.batch \in Seq(Calls) /\ \A i \in DOMAIN proc.batch : proc.batch[i] # k
    BY <1>1, <1>3 DEF ToSet
  <2>2. QED
    BY <2>1, <1>1, <1>2, ToSetAppend DEF CollectorMemory, IsInjective
<1>6. /\ proc' \in [does : Owning, at : Nat \ {0}, marked : SUBSET Actions, batch : Seq(Calls)]
      /\ proc'.does = "accept" /\ proc'.at = proc.at + 1
      /\ proc'.marked = proc.marked /\ proc'.batch = Append(proc.batch, k)
  BY <1>0, <1>1, <1>4, <1>5
<1>7. ProcOK' /\ Done' = Done
  BY <1>0, <1>6 DEF ProcOK, Done, fileVars
<1>8. \A i \in DOMAIN Contract : accept(Contract[i]) \in ToSet(Append(proc.batch, k)) => i < proc.at + 1
  <2> SUFFICES ASSUME NEW i \in DOMAIN Contract, accept(Contract[i]) \in ToSet(Append(proc.batch, k))
               PROVE  i < proc.at + 1
    OBVIOUS
  <2>0. i \in Nat
    BY OwnerAssumption
  <2>1. CASE accept(Contract[i]) \in ToSet(proc.batch)
    <3>1. i < proc.at
      BY <2>1, <1>0, <1>1 DEF CollectorMemory
    <3>2. QED
      BY <3>1, <2>0, <1>1
  <2>2. CASE accept(Contract[i]) = k
    <3>1. Contract[i] = Contract[proc.at]
      BY <2>2, <1>2 DEF accept
    <3>2. i = proc.at
      BY <3>1, <1>0, OwnerAssumption DEF IsInjective
    <3>3. QED
      BY <3>2, <1>1
  <2>3. QED
    BY <2>1, <2>2, <1>5
<1>9. Memory'
  <2>1. CollectorMemory'
    BY <1>0, <1>1, <1>2, <1>5, <1>6, <1>8, ToSetType DEF CollectorMemory, fileVars, IInv, Types, FileOK
  <2>2. QED
    BY <2>1, <1>0 DEF Memory
<1>10. QED
  BY <1>0, <1>6, <1>7, <1>9, SameChain DEF IInv

LEMMA PassAcceptanceKeeps == ASSUME IInv, PassAcceptance PROVE IInv'
<1>0. /\ proc.does = "accept" /\ proc.does \in Owning
      /\ UNCHANGED <<mode, chainVars, fileVars, queue, bounds>>
  BY DEF PassAcceptance, Owning
<1>1. /\ proc \in [does : Owning, at : Nat \ {0}, marked : SUBSET Actions, batch : Seq(Calls)]
      /\ proc.at + 1 \in Nat \ {0} /\ proc.at \in Nat
      /\ mode = "account" => AccountMemory
      /\ mode # "account" => CollectorMemory
  BY <1>0, Running
<1>2. CASE proc.at \in DOMAIN Contract
  <2>1. proc' = [proc EXCEPT !.at = @ + 1]
    BY <1>2 DEF PassAcceptance
  <2>2. /\ proc' \in [does : Owning, at : Nat \ {0}, marked : SUBSET Actions, batch : Seq(Calls)]
        /\ proc'.does = "accept" /\ proc'.at = proc.at + 1
        /\ proc'.marked = proc.marked /\ proc'.batch = proc.batch
    BY <2>1, <1>0, <1>1
  <2>3. ProcOK' /\ Done' = Done
    BY <1>0, <2>2 DEF ProcOK, Done, fileVars
  <2>4. Memory'
    <3>1. CASE mode = "account"
      BY <3>1, <1>0, <1>1, <2>2 DEF Memory, AccountMemory, fileVars
    <3>2. CASE mode # "account"
      <4>1. \A i \in DOMAIN Contract : accept(Contract[i]) \in ToSet(proc.batch) => i < proc.at + 1
        <5>1. \A i \in DOMAIN Contract : i \in Nat
          BY OwnerAssumption
        <5>2. QED
          BY <5>1, <3>2, <1>0, <1>1 DEF CollectorMemory
      <4>2. QED
        BY <3>2, <4>1, <1>0, <1>1, <2>2 DEF Memory, CollectorMemory, fileVars
    <3>3. QED
      BY <3>1, <3>2
  <2>5. QED
    BY <1>0, <2>2, <2>3, <2>4, SameChain DEF IInv
<1>3. CASE proc.at \notin DOMAIN Contract /\ (mode = "account" \/ proc.batch = <<>>)
  <2>1. proc' = Off /\ proc'.does = "nothing"
    BY <1>3 DEF PassAcceptance, Off
  <2>2. ProcOK' /\ Done' = Done /\ Memory'
    BY <1>0, <2>1 DEF ProcOK, Done, fileVars, Memory, Owning
  <2>3. QED
    BY <1>0, <2>1, <2>2, SameChain DEF IInv
<1>4. CASE proc.at \notin DOMAIN Contract /\ ~(mode = "account" \/ proc.batch = <<>>)
  <2>1. proc' = [proc EXCEPT !.does = "submit"]
    BY <1>4 DEF PassAcceptance
  <2>2. /\ proc' \in [does : Owning, at : Nat \ {0}, marked : SUBSET Actions, batch : Seq(Calls)]
        /\ proc'.does = "submit" /\ proc'.marked = proc.marked /\ proc'.batch = proc.batch
    BY <2>1, <1>1 DEF Owning
  <2>3. ProcOK' /\ Done' = Done
    BY <1>0, <2>2 DEF ProcOK, Done, fileVars
  <2>4. Memory'
    BY <1>4, <1>0, <1>1, <2>2 DEF Memory, CollectorMemory, fileVars
  <2>5. QED
    BY <1>0, <2>2, <2>3, <2>4, SameChain DEF IInv
<1>5. QED
  BY <1>2, <1>3, <1>4

-----------------------------------------------------------------------------
LEMMA SubmitKeeps == ASSUME IInv, Submit PROVE IInv'
<1>0. /\ proc.does = "submit" /\ proc.does \in Owning /\ proc' = [proc EXCEPT !.does = "write"]
      /\ UNCHANGED <<mode, owner, nominated, performed, fileVars, bounds>>
  BY DEF Submit, Owning
<1>1. /\ proc \in [does : Owning, at : Nat \ {0}, marked : SUBSET Actions, batch : Seq(Calls)]
      /\ mode # "account" /\ CollectorMemory
  BY <1>0, Running DEF AccountMemory
<1>2. PICK batch \in Seq(Calls) : batch = proc.batch
  BY <1>1
<1>3. /\ queue' = queue \cup {[run |-> bounds.runs, relayed |-> FALSE, batches |-> Cut(batch)]}
      /\ SentNow(Cut(batch))
  BY <1>2 DEF Submit, Cut
<1>4. Cut(batch) \in Seq(Seq(Calls))
  BY BatchesType DEF Cut
<1>5. sent' \in [Calls -> Nat] /\ \A k \in Calls : sent'[k] = sent[k] + (IF k \in ToSet(batch) THEN 1 ELSE 0)
  BY <1>1, <1>2, <1>3, SentCut DEF CollectorMemory, IInv, Types, ChainOK
<1>6. /\ proc' \in [does : Owning, at : Nat \ {0}, marked : SUBSET Actions, batch : Seq(Calls)]
      /\ proc'.does = "write" /\ proc'.marked = proc.marked /\ proc'.batch = batch /\ proc'.at = proc.at
  BY <1>0, <1>1, <1>2 DEF Owning
<1>7. Types'
  <2>1. ProcOK'
    BY <1>6 DEF ProcOK
  <2>2. ChainOK'
    BY <1>0, <1>5 DEF IInv, Types, ChainOK
  <2>3. QueueOK'
    <3>1. [run |-> bounds.runs, relayed |-> FALSE, batches |-> Cut(batch)]
            \in [run : Nat, relayed : BOOLEAN, batches : Seq(Seq(Calls))]
      BY <1>4 DEF IInv, Types, BoundsOK
    <3>2. QED
      BY <3>1, <1>0, <1>1, <1>3 DEF IInv, Types, QueueOK
  <2>4. FileOK' /\ BoundsOK'
    BY <1>0 DEF IInv, Types, FileOK, BoundsOK, fileVars
  <2>5. QED
    BY <2>1, <2>2, <2>3, <2>4 DEF Types
<1>8. Memory' /\ Passed'
  BY <1>0, <1>1, <1>2, <1>6 DEF Memory, CollectorMemory, Passed, fileVars
<1>9. Done = complete /\ Done' = complete \cup (ToSet(batch) \cap Actions) /\ complete \subseteq Actions
  BY <1>0, <1>1, <1>2, <1>6, ToSetType DEF Done, CollectorMemory, IInv, Types, FileOK
<1>10. DoneWasSent'
  <2> SUFFICES ASSUME NEW k \in complete \cup (ToSet(batch) \cap Actions) PROVE sent'[k] > 0
    BY <1>0, <1>1, <1>9 DEF DoneWasSent
  <2>0. k \in Calls /\ sent[k] \in Nat
    BY <1>9, CallTypes DEF IInv, Types, ChainOK
  <2>1. CASE k \in complete
    <3>1. sent[k] > 0
      BY <2>1, <1>9 DEF IInv, DoneWasSent
    <3>2. QED
      BY <2>0, <3>1, <1>5
  <2>2. CASE k \in ToSet(batch)
    BY <2>0, <2>2, <1>5
  <2>3. QED
    BY <2>1, <2>2
<1>11. SentFromFile'
  <2> SUFFICES ASSUME NEW k \in Actions, k \notin ToSet(ownerActions) PROVE sent'[k] = 0
    BY <1>0 DEF SentFromFile, fileVars
  <2>1. k \notin ToSet(batch) /\ k \in Calls
    BY <1>1, <1>2, CallTypes DEF CollectorMemory
  <2>2. sent[k] = 0
    BY DEF IInv, SentFromFile
  <2>3. QED
    BY <2>1, <2>2, <1>5
<1>12. LeftInOrder'
  BY <1>0 DEF IInv, LeftInOrder, fileVars
<1>13. Budget'
  <2> SUFFICES ASSUME NEW k \in Actions
               PROVE  sent'[k] + One(Due(k)') + One(Reopens(k)') <= 1 + bounds.crashes
    BY <1>0 DEF Budget
  <2>1. /\ sent[k] + One(Due(k)) + One(Reopens(k)) <= 1 + bounds.crashes /\ sent[k] \in Nat
        /\ bounds.crashes \in Nat /\ sent'[k] = sent[k] + (IF k \in ToSet(batch) THEN 1 ELSE 0)
    BY CallTypes, <1>5 DEF IInv, Budget, Types, ChainOK, BoundsOK
  <2>2. Reopens(k)' => Reopens(k)
    BY <1>0, <1>6, ReopensKept DEF ToNominate, fileVars
  <2>3. Due(k)' <=> Due(k) /\ k \notin ToSet(batch)
    BY <1>0, <1>9 DEF Due, fileVars
  <2>4. {One(Due(k)), One(Due(k)'), One(Reopens(k)), One(Reopens(k)')} \subseteq Nat
        /\ One(Reopens(k)') <= One(Reopens(k))
    BY <2>2 DEF One
  <2>5. CASE k \notin ToSet(batch)
    <3>1. One(Due(k)') = One(Due(k))
      BY <2>3, <2>5 DEF One
    <3>2. QED
      BY <3>1, <2>1, <2>4, <2>5
  <2>6. CASE k \in ToSet(batch)
    <3>1. Due(k)
      BY <2>6, <1>1, <1>2, <1>9 DEF Due, CollectorMemory
    <3>2. One(Due(k)) = 1 /\ One(Due(k)') = 0
      BY <3>1, <2>3, <2>6 DEF One
    <3>3. QED
      BY <3>2, <2>1, <2>4, <2>6
  <2>7. QED
    BY <2>5, <2>6
<1>14. QED
  BY <1>7, <1>8, <1>10, <1>11, <1>12, <1>13 DEF IInv

(* A crash leaves a call that was sent to be sent again, or a contract to  *)
(* be nominated again: not both, and each crash counts.                    *)
LEMMA CrashKeeps == ASSUME IInv, Crash PROVE IInv'
<1>0. /\ proc' = Off /\ proc'.does = "nothing"
      /\ bounds' = [bounds EXCEPT !.crashes = @ + 1]
      /\ UNCHANGED <<mode, chainVars, fileVars, queue>>
  BY DEF Crash, Off
<1>1. bounds'.crashes = bounds.crashes + 1 /\ bounds'.left = bounds.left /\ BoundsOK'
  BY <1>0 DEF IInv, Types, BoundsOK
<1>2. Types'
  BY <1>0, <1>1 DEF IInv, Types, ProcOK, FileOK, ChainOK, QueueOK, chainVars, fileVars
<1>3. Memory' /\ Passed' /\ Done' = complete
  BY <1>0 DEF Memory, Passed, Owning, Done, fileVars
<1>4. complete \subseteq Done
  <2>1. CASE proc.does \in {"mark", "write"}
    BY <2>1, Running DEF Owning, Done, AccountMemory, CollectorMemory
  <2>2. CASE proc.does \notin {"mark", "write"}
    BY <2>2 DEF Done
  <2>3. QED
    BY <2>1, <2>2
<1>5. DoneWasSent'
  BY <1>0, <1>3, <1>4 DEF IInv, DoneWasSent, chainVars
<1>6. SentFromFile' /\ LeftInOrder'
  BY <1>0, <1>1 DEF IInv, SentFromFile, LeftInOrder, chainVars, fileVars
<1>7. Budget'
  <2> SUFFICES ASSUME NEW k \in Actions
               PROVE  sent[k] + One(Due(k)') + One(Reopens(k)') <= 2 + bounds.crashes
    BY <1>0, <1>1 DEF Budget, chainVars, IInv, Types, BoundsOK
  <2>1. /\ sent[k] + One(Due(k)) + One(Reopens(k)) <= 1 + bounds.crashes /\ sent[k] \in Nat
        /\ bounds.crashes \in Nat
    BY CallTypes DEF IInv, Budget, Types, ChainOK, BoundsOK
  <2>2. {One(Due(k)), One(Due(k)'), One(Reopens(k)), One(Reopens(k)')} \subseteq 0..1
    BY DEF One
  <2>3. CASE proc.does = "nominate"
    <3>1. Due(k)' => Due(k)
      BY <2>3, <1>0, <1>3 DEF Due, Done, fileVars
    <3>2. One(Due(k)') <= One(Due(k))
      BY <3>1 DEF One
    <3>3. QED
      BY <3>2, <2>1, <2>2
  <2>4. CASE proc.does # "nominate"
    <3>1. Reopens(k)' => Reopens(k)
      BY <2>4, <1>0, ReopensKept DEF ToNominate, chainVars, fileVars
    <3>2. One(Reopens(k)') <= One(Reopens(k))
      BY <3>1 DEF One
    <3>3. QED
      BY <3>2, <2>1, <2>2
  <2>5. QED
    BY <2>3, <2>4
<1>8. QED
  BY <1>2, <1>3, <1>5, <1>6, <1>7 DEF IInv

-----------------------------------------------------------------------------
(* What the signers do: the contracts may become the new owner's.          *)
LEMMA SignersKeep ==
  ASSUME IInv, mode # "account", QueueOK',
         UNCHANGED <<mode, sent, fileVars, proc, bounds>>,
         \/ UNCHANGED <<performed, owner, nominated>>
         \/ \E calls \in Seq(Calls) : Perform(calls)
  PROVE  IInv'
<1>1. /\ owner' \in [ToSet(Contract) -> {"deployer", "new", "other"}]
      /\ nominated' \subseteq {c \in ToSet(Contract) : owner'[c] # "new"}
      /\ performed' \in Seq(Calls)
      /\ \A c \in ToSet(Contract) : ToNominate(c)' => ToNominate(c) /\ owner'[c] = owner[c]
  <2>1. CASE UNCHANGED <<performed, owner, nominated>>
    BY <2>1 DEF IInv, Types, ChainOK, ToNominate
  <2>2. CASE \E calls \in Seq(Calls) : Perform(calls)
    <3>1. PICK calls \in Seq(Calls) : Perform(calls)
      BY <2>2
    <3>2. QED
      BY <3>1, PerformKeeps DEF IInv, Types
  <2>3. QED
    BY <2>1, <2>2
<1>2. Types'
  BY <1>1 DEF IInv, Types, ProcOK, FileOK, ChainOK, BoundsOK, fileVars
<1>3. Done' = Done
  BY DEF Done, fileVars
<1>4. Memory'
  BY DEF IInv, Memory, CollectorMemory, fileVars
<1>5. DoneWasSent' /\ SentFromFile' /\ LeftInOrder'
  BY <1>3 DEF IInv, DoneWasSent, SentFromFile, LeftInOrder, fileVars
<1>6. Passed'
  <2> SUFFICES ASSUME proc.does = "nominate", NEW i \in DOMAIN Contract, i < proc.at, ToNominate(Contract[i])'
               PROVE  owner'[Contract[i]] # "deployer" /\ nominate(Contract[i]) \in ToSet(ownerActions)
    BY DEF Passed, fileVars
  <2>1. ToNominate(Contract[i]) /\ owner'[Contract[i]] = owner[Contract[i]]
    BY <1>1 DEF ToSet
  <2>2. QED
    BY <2>1 DEF IInv, Passed
<1>7. Budget'
  <2>1. \A k : Due(k)' => Due(k)
    BY <1>3 DEF Due, fileVars
  <2>2. \A k : Reopens(k)' => Reopens(k)
    BY <1>1, ReopensKept DEF fileVars
  <2>3. QED
    BY <2>1, <2>2, BudgetKept
<1>8. QED
  BY <1>2, <1>4, <1>5, <1>6, <1>7 DEF IInv

LEMMA RemoveType ==
  ASSUME NEW S, NEW s \in Seq(S), NEW i \in DOMAIN s
  PROVE  RemoveAt(s, i) \in Seq(S)
<1>1. SubSeq(s, 1, i - 1) \in Seq(S) /\ SubSeq(s, i + 1, Len(s)) \in Seq(S)
  OBVIOUS
<1>2. QED
  BY <1>1 DEF RemoveAt

LEMMA RelayKeeps == ASSUME IInv, NEW p \in queue, Relay(p) PROVE IInv'
<1>1. p \in [run : Nat, relayed : BOOLEAN, batches : Seq(Seq(Calls))] /\ mode # "account"
  BY DEF IInv, Types, QueueOK
<1>2. [p EXCEPT !.relayed = TRUE] \in [run : Nat, relayed : BOOLEAN, batches : Seq(Seq(Calls))]
  BY <1>1
<1>3. QueueOK'
  BY <1>1, <1>2 DEF Relay, IInv, Types, QueueOK
<1>4. QED
  BY <1>1, <1>3, SignersKeep DEF Relay, chainVars

LEMMA ExecuteKeeps == ASSUME IInv, NEW p \in queue, NEW i \in DOMAIN p.batches, Execute(p, i) PROVE IInv'
<1>1. p \in [run : Nat, relayed : BOOLEAN, batches : Seq(Seq(Calls))] /\ mode # "account"
  BY DEF IInv, Types, QueueOK
<1>2. p.batches[i] \in Seq(Calls) /\ RemoveAt(p.batches, i) \in Seq(Seq(Calls))
  BY <1>1, RemoveType
<1>3. [p EXCEPT !.batches = RemoveAt(@, i)] \in [run : Nat, relayed : BOOLEAN, batches : Seq(Seq(Calls))]
  BY <1>1, <1>2
<1>4. QueueOK'
  BY <1>1, <1>3 DEF Execute, IInv, Types, QueueOK
<1>5. \/ UNCHANGED <<performed, owner, nominated>>
      \/ \E calls \in Seq(Calls) : Perform(calls)
  BY <1>2 DEF Execute
<1>6. QED
  BY <1>1, <1>4, <1>5, SignersKeep DEF Execute

LEMMA StutterKeeps == ASSUME IInv, UNCHANGED vars PROVE IInv'
<1>0. UNCHANGED <<mode, chainVars, fileVars, queue, proc, bounds>> /\ Done' = Done
  BY DEF vars, Done, fileVars
<1>1. Types' /\ Memory' /\ Passed'
  BY <1>0 DEF IInv, Types, ProcOK, FileOK, ChainOK, QueueOK, BoundsOK, Memory, AccountMemory,
              CollectorMemory, Passed, ToNominate, chainVars, fileVars
<1>2. DoneWasSent' /\ SentFromFile' /\ LeftInOrder'
  BY <1>0 DEF IInv, DoneWasSent, SentFromFile, LeftInOrder, chainVars, fileVars
<1>3. Budget'
  <2>1. \A k : Due(k)' => Due(k)
    BY <1>0 DEF Due, fileVars
  <2>2. \A k : Reopens(k)' => Reopens(k)
    BY <1>0, ReopensKept DEF ToNominate, chainVars, fileVars
  <2>3. QED
    BY <2>1, <2>2, <1>0, BudgetKept DEF chainVars
<1>4. QED
  BY <1>1, <1>2, <1>3 DEF IInv

LEMMA NextKeeps == ASSUME IInv, [Next]_vars PROVE IInv'
<1>1. CASE LeaveAction
  BY <1>1, LeaveActionKeeps
<1>2. CASE StartNominate
  BY <1>2, StartNominateKeeps
<1>3. CASE StartOwner
  BY <1>3, StartOwnerKeeps
<1>4. CASE Process
  BY <1>4, NominateKeeps, SubmitActionKeeps, WriteMarkKeeps, SubmitAcceptanceKeeps, CollectActionKeeps,
     CollectAcceptanceKeeps, SubmitKeeps, WriteActionsKeeps, PassActionKeeps, PassAcceptanceKeeps
     DEF Process, Account, Collector
<1>5. CASE Crash
  BY <1>5, CrashKeeps
<1>6. CASE Signers
  <2>1. PICK p \in queue : Relay(p) \/ \E i \in DOMAIN p.batches : Execute(p, i)
    BY <1>6 DEF Signers
  <2>2. QED
    BY <2>1, RelayKeeps, ExecuteKeeps
<1>7. CASE UNCHANGED vars
  BY <1>7, StutterKeeps
<1>8. QED
  BY <1>1, <1>2, <1>3, <1>4, <1>5, <1>6, <1>7 DEF Next

-----------------------------------------------------------------------------
LEMMA FileIsTrueOfInv == ASSUME IInv PROVE FileIsTrue
<1>1. TypeOK
  <2>1. ToSet(ownerActions) \subseteq Actions /\ ToSet(performed) \subseteq Calls
    BY ToSetType DEF IInv, Types, FileOK, ChainOK
  <2>2. proc.does = "nothing" \/ proc.at \in Nat \ {0}
    BY DEF IInv, Types, ProcOK, Off
  <2>3. QED
    BY <2>1, <2>2 DEF TypeOK, IInv, Types, FileOK, ChainOK
<1>2. complete \subseteq Done
  <2>1. CASE proc.does \in {"mark", "write"}
    BY <2>1, Running DEF Owning, Done, AccountMemory, CollectorMemory
  <2>2. CASE proc.does \notin {"mark", "write"}
    BY <2>2 DEF Done
  <2>3. QED
    BY <2>1, <2>2
<1>3. MarkedWasSent
  BY <1>2 DEF MarkedWasSent, IInv, DoneWasSent
<1>4. SentOnce
  <2> SUFFICES ASSUME NEW k \in Actions PROVE sent[k] <= 1 + bounds.crashes
    BY DEF SentOnce
  <2>1. /\ sent[k] + One(Due(k)) + One(Reopens(k)) <= 1 + bounds.crashes /\ sent[k] \in Nat
        /\ bounds.crashes \in Nat
    BY CallTypes DEF IInv, Budget, Types, ChainOK, BoundsOK
  <2>2. {One(Due(k)), One(Reopens(k))} \subseteq Nat
    BY DEF One
  <2>3. QED
    BY <2>1, <2>2
<1>5. QED
  BY <1>1, <1>3, <1>4 DEF FileIsTrue

(* owner-actions.json is true of the chain, whenever nominate and owner    *)
(* are killed and however the batches arrive: an action that it marks was  *)
(* sent, and by an account performed, and no action was sent more often    *)
(* than once and once more for each run that was killed.                   *)
THEOREM FileStaysTrue == Spec => []FileIsTrue
<1>1. Init => IInv
  BY InitInv
<1>2. IInv /\ [Next]_vars => IInv'
  BY NextKeeps
<1>3. IInv => FileIsTrue
  BY FileIsTrueOfInv
<1>4. QED
  BY <1>1, <1>2, <1>3, PTL DEF Spec
-----------------------------------------------------------------------------
(* For the order.  The new owner has nothing in the file but what           *)
(* deployments left; of each action that is performed, waits in a proposal  *)
(* or is collected, the one before is performed or comes with it; and all   *)
(* calls that wait can be made when the signers come to them.               *)
Ordered == NoOther /\ mode # "relay" /\ (mode = "safe" => waitsForSafe)
OthersNotOffered == \A c \in nominated : owner[c] # "other"
Follows(S, T) ==
  \A i \in 2..Len(Left) : perform(Left[i]) \in S => perform(Left[i - 1]) \in S \cup T
CanBeMade(S, offered) ==
  \A k \in S : (\E i \in DOMAIN Left : k = perform(Left[i])) \/ (\E c \in offered : k = accept(c))
Waiting == UNION {ToSet(p.batches[1]) : p \in queue}
FileIsLeft ==
  /\ Len(ownerActions) = bounds.left
  /\ \A i \in DOMAIN ownerActions : ownerActions[i] = perform(Left[i])
OneProposal ==
  /\ \A p, q \in queue : p = q
  /\ \A p \in queue : Len(p.batches) = 1
  /\ queue # {} => proc.does \in {"nothing", "nominate", "write"}
PerformedInOrder == Follows(ToSet(performed), {})
WaitingInOrder == Follows(Waiting, ToSet(performed)) /\ CanBeMade(Waiting, nominated)
CollectedInOrder ==
  proc.does \in {"actions", "accept", "submit"} =>
    Follows(ToSet(proc.batch), ToSet(performed)) /\ CanBeMade(ToSet(proc.batch), nominated)
DoneOrWaiting == Done \subseteq ToSet(performed) \cup Waiting
MarkedBefore ==
  proc.does \in {"actions", "mark"} =>
    /\ \A i \in DOMAIN ownerActions : i < proc.at => ownerActions[i] \in proc.marked
    /\ proc.does = "mark" =>
         proc.at \in DOMAIN ownerActions /\ ownerActions[proc.at] \in proc.marked
InOrder ==
  /\ FileIsLeft /\ OneProposal /\ PerformedInOrder /\ WaitingInOrder
  /\ CollectedInOrder /\ DoneOrWaiting /\ MarkedBefore
OInv == IInv /\ OthersNotOffered /\ (Ordered => InOrder)

LEMMA FollowsMore ==
  ASSUME NEW S, NEW T, NEW T2, Follows(S, T), T \subseteq T2
  PROVE  Follows(S, T2)
BY DEF Follows

LEMMA FollowsJoined ==
  ASSUME NEW S, NEW T, Follows(S, T), Follows(T, {})
  PROVE  Follows(T \cup S, {})
BY DEF Follows

LEMMA FollowsNext ==
  ASSUME NEW S, NEW T, Follows(S, T), NEW i \in DOMAIN Left,
         i > 1 => perform(Left[i - 1]) \in S \cup T
  PROVE  Follows(S \cup {perform(Left[i])}, T)
<1> SUFFICES ASSUME NEW j \in 2..Len(Left), perform(Left[j]) \in S \cup {perform(Left[i])}
             PROVE  perform(Left[j - 1]) \in S \cup {perform(Left[i])} \cup T
  BY DEF Follows
<1>0. j \in DOMAIN Left
  BY OwnerAssumption
<1>1. CASE perform(Left[j]) \in S
  BY <1>1 DEF Follows
<1>2. CASE perform(Left[j]) = perform(Left[i])
  <2>1. Left[j] = Left[i]
    BY <1>2, CallsDiffer
  <2>2. j = i
    BY <2>1, <1>0, OwnerAssumption DEF IsInjective
  <2>3. QED
    BY <2>2
<1>3. QED
  BY <1>1, <1>2

LEMMA FollowsAccept ==
  ASSUME NEW S, NEW T, Follows(S, T), NEW c
  PROVE  Follows(S \cup {accept(c)}, T)
BY CallsDiffer DEF Follows

LEMMA EmptyInOrder ==
  /\ ToSet(<<>>) = {} /\ \A T : Follows({}, T)
  /\ \A offered : CanBeMade({}, offered)
BY DEF ToSet, Follows, CanBeMade

LEMMA CanBeMadeMore ==
  ASSUME NEW S, NEW offered, NEW more, CanBeMade(S, offered), offered \subseteq more
  PROVE  CanBeMade(S, more)
BY DEF CanBeMade

(* Nobody else's contract is offered or changes hands.                     *)
LEMMA OthersOfPerform ==
  ASSUME ChainOK, OthersNotOffered, NEW calls \in Seq(Calls), Succeeds(calls), Perform(calls)
  PROVE  /\ OthersNotOffered' /\ nominated' \subseteq nominated
         /\ \A c \in ToSet(Contract) : owner[c] = "other" => owner'[c] = "other"
<1>1. \A c \in ToSet(Contract) : owner'[c] = IF accept(c) \in ToSet(calls) THEN "new" ELSE owner[c]
  BY DEF ChainOK, Perform
<1>2. \A c : c \in nominated' <=> c \in nominated /\ accept(c) \notin ToSet(calls)
  BY DEF Perform
<1>3. ASSUME NEW c \in ToSet(Contract), accept(c) \in ToSet(calls) PROVE c \in nominated
  <2>1. PICK i \in DOMAIN calls : calls[i] = accept(c)
    BY <1>3 DEF ToSet
  <2>2. calls[i].what = "accept" /\ calls[i].of = c
    BY <2>1 DEF accept
  <2>3. QED
    BY <2>2 DEF Succeeds
<1>4. nominated \subseteq ToSet(Contract)
  BY DEF ChainOK
<1>5. QED
  BY <1>1, <1>2, <1>3, <1>4 DEF OthersNotOffered

LEMMA OthersKept ==
  ASSUME OInv, [Next]_vars
  PROVE  OthersNotOffered' /\ (Ordered' => Ordered)
<1> USE DEF OInv
<1> SUFFICES OthersNotOffered' /\ mode' = mode
             /\ \A c \in ToSet(Contract) : owner[c] = "other" => owner'[c] = "other"
  BY DEF Ordered, NoOther
<1>0. ChainOK
  BY DEF IInv, Types
<1>1. CASE UNCHANGED <<mode, owner, nominated>>
  BY <1>1 DEF OthersNotOffered
<1>2. CASE Nominate
  <2>1. UNCHANGED <<mode, owner>>
        /\ \A c \in nominated' : c \in nominated \/ owner[c] = "deployer"
    BY <1>2 DEF Nominate
  <2>2. QED
    BY <2>1 DEF OthersNotOffered
<1>3. CASE SubmitAction
  <2>1. mode' = mode /\ Current \in Calls
    BY <1>3, CallTypes DEF SubmitAction, ToDo, Current, IInv, Types, FileOK
  <2>2. CASE Succeeds(<<Current>>)
    <3>1. PICK k \in Calls : k = Current
      BY <2>1
    <3>2. Succeeds(<<k>>) /\ Perform(<<k>>) /\ <<k>> \in Seq(Calls)
      BY <3>1, <2>2, <1>3 DEF SubmitAction
    <3>3. QED
      BY <3>2, <2>1, <1>0, OthersOfPerform
  <2>3. CASE ~Succeeds(<<Current>>)
    BY <2>3, <1>1, <1>3 DEF SubmitAction, chainVars
  <2>4. QED
    BY <2>2, <2>3
<1>4. CASE SubmitAcceptance
  <2>1. PICK c : c = Contract[proc.at]
    OBVIOUS
  <2>2. mode' = mode /\ c \in nominated /\ Perform(<<accept(c)>>)
    BY <2>1, <1>4 DEF SubmitAcceptance, ToAccept
  <2>3. accept(c) \in Calls
    BY <2>2, <1>0, CallTypes DEF ChainOK
  <2>4. <<accept(c)>> \in Seq(Calls) /\ Succeeds(<<accept(c)>>)
    BY <2>2, <2>3 DEF Succeeds, accept
  <2>5. QED
    BY <2>2, <2>4, <1>0, OthersOfPerform
<1>5. ASSUME NEW p \in queue, NEW i \in DOMAIN p.batches, Execute(p, i)
      PROVE  OthersNotOffered' /\ mode' = mode
             /\ \A c \in ToSet(Contract) : owner[c] = "other" => owner'[c] = "other"
  <2>1. mode' = mode /\ p.batches[i] \in Seq(Calls)
    BY <1>5 DEF Execute, IInv, Types, QueueOK
  <2>2. CASE Succeeds(p.batches[i])
    <3>1. PICK calls \in Seq(Calls) : calls = p.batches[i]
      BY <2>1
    <3>2. Succeeds(calls) /\ Perform(calls)
      BY <3>1, <2>2, <1>5 DEF Execute
    <3>3. QED
      BY <3>2, <2>1, <1>0, OthersOfPerform
  <2>3. CASE ~Succeeds(p.batches[i])
    BY <2>3, <2>1, <1>1, <1>5 DEF Execute
  <2>4. QED
    BY <2>2, <2>3
<1>6. CASE Signers
  <2>1. PICK p \in queue : Relay(p) \/ \E i \in DOMAIN p.batches : Execute(p, i)
    BY <1>6 DEF Signers
  <2>2. CASE Relay(p)
    BY <2>2, <1>1 DEF Relay, chainVars
  <2>3. QED
    BY <2>1, <2>2, <1>5
<1>7. CASE WriteMark \/ Collector \/ PassAction \/ PassAcceptance
  BY <1>7, <1>1 DEF WriteMark, Collector, CollectAction, CollectAcceptance, Submit, WriteActions,
     PassAction, PassAcceptance, chainVars
<1>8. CASE LeaveAction \/ StartNominate \/ StartOwner \/ Crash \/ UNCHANGED vars
  BY <1>8, <1>1 DEF LeaveAction, StartNominate, StartOwner, Crash, vars, chainVars
<1>9. QED
  BY <1>2, <1>3, <1>4, <1>6, <1>7, <1>8 DEF Next, Process, Account

LEMMA InitOrder == Init => OInv
<1> SUFFICES ASSUME Init PROVE OthersNotOffered /\ InOrder
  BY InitInv DEF OInv
<1>1. /\ nominated = {} /\ queue = {} /\ performed = <<>> /\ ownerActions = <<>> /\ complete = {}
      /\ proc.does = "nothing" /\ bounds.left = 0
  BY DEF Init, Off
<1>2. OthersNotOffered /\ FileIsLeft /\ OneProposal
  BY <1>1 DEF OthersNotOffered, FileIsLeft, OneProposal
<1>3. Waiting = {} /\ ToSet(performed) = {} /\ Done = {}
  BY <1>1, EmptyInOrder DEF Waiting, Done
<1>4. PerformedInOrder /\ WaitingInOrder /\ DoneOrWaiting
  BY <1>3, EmptyInOrder DEF PerformedInOrder, WaitingInOrder, DoneOrWaiting
<1>5. CollectedInOrder /\ MarkedBefore
  BY <1>1 DEF CollectedInOrder, MarkedBefore
<1>6. QED
  BY <1>2, <1>4, <1>5 DEF InOrder

(* Whoever sends has nothing that waits.                                   *)
LEMMA NothingWaits ==
  ASSUME OInv, Ordered, proc.does \in {"actions", "mark", "accept", "submit"}
  PROVE  queue = {} /\ Waiting = {}
BY DEF OInv, InOrder, OneProposal, Waiting

(* What the file marks is done.                                            *)
LEMMA FileOfDone == ASSUME IInv PROVE complete \subseteq Done
<1>1. CASE proc.does \in {"mark", "write"}
  BY <1>1, Running DEF Owning, Done, AccountMemory, CollectorMemory
<1>2. CASE proc.does \notin {"mark", "write"}
  BY <1>2 DEF Done
<1>3. QED
  BY <1>1, <1>2

(* Steps of the process that change neither the file's actions, the chain  *)
(* nor the proposals.                                                      *)
LEMMA OrderFrame ==
  ASSUME InOrder, UNCHANGED <<performed, nominated, ownerActions, queue>>, bounds'.left = bounds.left,
         Done' \subseteq Done,
         queue = {} \/ proc'.does \in {"nothing", "nominate", "write"}
  PROVE  FileIsLeft' /\ OneProposal' /\ PerformedInOrder' /\ WaitingInOrder' /\ DoneOrWaiting'
<1>1. Waiting' = Waiting
  BY DEF Waiting
<1>2. FileIsLeft' /\ OneProposal'
  BY DEF InOrder, FileIsLeft, OneProposal
<1>3. PerformedInOrder' /\ WaitingInOrder' /\ DoneOrWaiting'
  BY <1>1 DEF InOrder, PerformedInOrder, WaitingInOrder, DoneOrWaiting
<1>4. QED
  BY <1>2, <1>3

LEMMA Idle ==
  ASSUME proc'.does \notin Owning
  PROVE  CollectedInOrder' /\ MarkedBefore'
BY DEF Owning, CollectedInOrder, MarkedBefore

-----------------------------------------------------------------------------
LEMMA LeaveActionInOrder == ASSUME OInv, Ordered, LeaveAction PROVE InOrder'
<1> USE DEF OInv
<1>0. /\ InOrder /\ proc = Off /\ proc' = Off /\ proc'.does = "nothing" /\ proc.does = "nothing"
      /\ UNCHANGED <<performed, nominated, queue, complete>>
      /\ bounds.left \in Nat /\ bounds'.left = bounds.left + 1
      /\ ownerActions \in Seq(Actions) /\ perform(Left[bounds.left + 1]) \in Actions
  <2>1. bounds.left \in Nat /\ bounds.left + 1 \in DOMAIN Left
    BY OwnerAssumption DEF LeaveAction, IInv, Types, BoundsOK
  <2>2. QED
    BY <2>1, CallTypes DEF LeaveAction, IInv, Types, BoundsOK, FileOK, Off, chainVars
<1>1. FileIsLeft'
  <2>1. ownerActions' = Append(ownerActions, perform(Left[bounds.left + 1]))
    BY DEF LeaveAction
  <2>2. Len(ownerActions) = bounds.left /\ \A i \in DOMAIN ownerActions : ownerActions[i] = perform(Left[i])
    BY <1>0 DEF InOrder, FileIsLeft
  <2>3. /\ DOMAIN ownerActions' = 1..(Len(ownerActions) + 1) /\ DOMAIN ownerActions = 1..Len(ownerActions)
        /\ \A i \in DOMAIN ownerActions : ownerActions'[i] = ownerActions[i]
        /\ ownerActions'[Len(ownerActions) + 1] = perform(Left[bounds.left + 1])
        /\ Len(ownerActions') = Len(ownerActions) + 1
    BY <1>0, <2>1, ToSetAppend
  <2>4. QED
    BY <2>2, <2>3, <1>0 DEF FileIsLeft
<1>2. Waiting' = Waiting /\ Done' = Done
  BY <1>0 DEF Waiting, Done
<1>3. OneProposal' /\ PerformedInOrder' /\ WaitingInOrder' /\ DoneOrWaiting'
  BY <1>0, <1>2 DEF InOrder, OneProposal, PerformedInOrder, WaitingInOrder, DoneOrWaiting
<1>4. CollectedInOrder' /\ MarkedBefore'
  BY <1>0, Idle DEF Owning
<1>5. QED
  BY <1>1, <1>3, <1>4 DEF InOrder

LEMMA StartNominateInOrder == ASSUME OInv, Ordered, StartNominate PROVE InOrder'
<1>0. /\ InOrder /\ proc.does = "nothing" /\ proc'.does = "nominate"
      /\ UNCHANGED <<performed, nominated, ownerActions, complete, queue, bounds>>
  BY DEF OInv, StartNominate, Off, chainVars, fileVars
<1>1. Done' = Done
  BY <1>0 DEF Done
<1>2. QED
  BY <1>0, <1>1, OrderFrame, Idle DEF InOrder, Owning

LEMMA NominateInOrder == ASSUME OInv, Ordered, Nominate PROVE InOrder'
<1> DEFINE c == Contract[proc.at]
<1>0. /\ InOrder /\ proc.does = "nominate" /\ UNCHANGED <<performed, queue, bounds>>
  BY DEF OInv, Nominate
<1>1. ~(ToNominate(c) /\ owner[c] # "deployer")
  <2>1. c \in ToSet(Contract)
    BY DEF Nominate, ToSet
  <2>2. owner[c] \in {"deployer", "new"}
    BY <2>1 DEF OInv, IInv, Types, ChainOK, Ordered, NoOther
  <2>3. QED
    BY <2>2 DEF ToNominate
<1>2. UNCHANGED fileVars /\ nominated \subseteq nominated'
  BY <1>1 DEF Nominate
<1>3. proc'.does \in {"nothing", "nominate"}
  <2>1. proc' = Off \/ proc' = [proc EXCEPT !.at = @ + 1]
    BY DEF Nominate
  <2>2. proc \in [does : {"nominate"}, at : Nat \ {0}]
    BY <1>0 DEF OInv, IInv, Types, ProcOK, Off, Owning
  <2>3. QED
    BY <2>1, <2>2, <1>0 DEF Off
<1>4. Done' = Done /\ Waiting' = Waiting
  BY <1>0, <1>2, <1>3 DEF Done, Waiting, fileVars
<1>5. FileIsLeft' /\ OneProposal' /\ PerformedInOrder' /\ DoneOrWaiting'
  BY <1>0, <1>2, <1>3, <1>4 DEF InOrder, FileIsLeft, OneProposal, PerformedInOrder, DoneOrWaiting, fileVars
<1>6. WaitingInOrder'
  <2>1. CanBeMade(Waiting, nominated')
    BY <1>0, <1>2, CanBeMadeMore DEF InOrder, WaitingInOrder
  <2>2. QED
    BY <2>1, <1>0, <1>4 DEF InOrder, WaitingInOrder
<1>7. QED
  BY <1>3, <1>5, <1>6, Idle DEF InOrder, Owning

LEMMA StartOwnerInOrder == ASSUME OInv, Ordered, StartOwner PROVE InOrder'
<1>0. /\ InOrder /\ proc.does = "nothing"
      /\ UNCHANGED <<performed, nominated, ownerActions, complete, queue>>
      /\ proc' = [does |-> "actions", at |-> 1, marked |-> complete, batch |-> <<>>]
  BY DEF OInv, StartOwner, Off, chainVars, fileVars
<1>1. proc'.does = "actions" /\ proc'.at = 1 /\ proc'.batch = <<>>
  BY <1>0
<1>2. queue = {}
  BY DEF StartOwner, Ordered, OInv, IInv, Types, QueueOK, BoundsOK
<1>3. Done' = Done
  BY <1>0, <1>1 DEF Done
<1>4. bounds'.left = bounds.left
  BY DEF StartOwner, OInv, IInv, Types, BoundsOK
<1>5. FileIsLeft' /\ OneProposal' /\ PerformedInOrder' /\ WaitingInOrder' /\ DoneOrWaiting'
  BY <1>0, <1>2, <1>3, <1>4, OrderFrame
<1>6. CollectedInOrder'
  BY <1>1, EmptyInOrder DEF CollectedInOrder
<1>7. MarkedBefore'
  <2>1. \A i \in DOMAIN ownerActions' : ~(i < 1)
    BY <1>0 DEF OInv, IInv, Types, FileOK
  <2>2. QED
    BY <2>1, <1>1 DEF MarkedBefore
<1>8. QED
  BY <1>5, <1>6, <1>7 DEF InOrder

(* The action that a run has come to, and the one before it.               *)
LEMMA ComesNext ==
  ASSUME OInv, Ordered, proc.does = "actions", proc.at \in DOMAIN ownerActions
  PROVE  /\ proc.at \in DOMAIN Left /\ Current = perform(Left[proc.at]) /\ Current \in Actions
         /\ proc.at > 1 => perform(Left[proc.at - 1]) \in proc.marked
<1>0. FileIsLeft /\ MarkedBefore
  BY DEF OInv, InOrder
<1>1. /\ ownerActions \in Seq(Actions) /\ Len(ownerActions) <= Len(Left) /\ bounds.left \in Nat
      /\ DOMAIN ownerActions = 1..Len(ownerActions) /\ DOMAIN Left = 1..Len(Left) /\ Len(Left) \in Nat
  BY <1>0, OwnerAssumption DEF OInv, IInv, Types, FileOK, BoundsOK, FileIsLeft
<1>2. proc.at \in DOMAIN Left /\ Current = perform(Left[proc.at]) /\ Current \in Actions
  BY <1>0, <1>1, CallTypes DEF FileIsLeft, Current
<1>3. ASSUME proc.at > 1 PROVE perform(Left[proc.at - 1]) \in proc.marked
  <2>1. proc.at - 1 \in DOMAIN ownerActions /\ proc.at - 1 < proc.at
    BY <1>1, <1>3
  <2>2. ownerActions[proc.at - 1] \in proc.marked /\ ownerActions[proc.at - 1] = perform(Left[proc.at - 1])
    BY <2>1, <1>0 DEF MarkedBefore, FileIsLeft
  <2>3. QED
    BY <2>2
<1>4. QED
  BY <1>2, <1>3

LEMMA SubmitActionInOrder == ASSUME OInv, IInv', Ordered, SubmitAction PROVE InOrder'
<1>0. /\ InOrder /\ mode = "account" /\ proc.does = "actions" /\ proc.does \in Owning
      /\ proc.at \in DOMAIN ownerActions /\ UNCHANGED <<mode, fileVars, queue, bounds>>
  BY DEF OInv, SubmitAction, ToDo, Owning
<1>1. /\ proc \in [does : Owning, at : Nat \ {0}, marked : SUBSET Actions, batch : Seq(Calls)]
      /\ AccountMemory
  BY <1>0, Running DEF OInv
<1>2. queue = {} /\ Waiting = {} /\ queue' = {} /\ Waiting' = {}
  BY <1>0, NothingWaits DEF Waiting
<1>3. PICK k \in Actions : k = Current
  BY <1>0, ComesNext
<1>4. proc.at \in DOMAIN Left /\ k = perform(Left[proc.at]) /\ proc.marked = complete /\ k \in Calls
      /\ (proc.at > 1 => perform(Left[proc.at - 1]) \in proc.marked)
  BY <1>0, <1>1, <1>3, ComesNext, CallTypes DEF AccountMemory
<1>5. CASE Succeeds(<<Current>>)
  <2>0. /\ Perform(<<k>>) /\ proc' = [proc EXCEPT !.does = "mark", !.marked = @ \cup {k}]
    BY <1>5, <1>3 DEF SubmitAction
  <2>1. <<k>> \in Seq(Calls) /\ ToSet(<<k>>) = {k}
    BY <1>4 DEF ToSet
  <2>2. ToSet(performed') = ToSet(performed) \cup {k}
    BY <2>0, <2>1, PerformKeeps DEF OInv, IInv, Types
  <2>3. proc'.does = "mark" /\ proc'.marked = complete \cup {k} /\ proc'.at = proc.at
    BY <2>0, <1>1, <1>4
  <2>4. FileIsLeft' /\ OneProposal'
    BY <1>0, <1>2 DEF InOrder, FileIsLeft, OneProposal, fileVars
  <2>5. PerformedInOrder'
    <3>1. Follows(ToSet(performed), {})
      BY <1>0 DEF InOrder, PerformedInOrder
    <3>2. complete \subseteq ToSet(performed)
      BY <1>0, FileOfDone DEF OInv, IInv, DoneWasSent
    <3>3. proc.at > 1 => perform(Left[proc.at - 1]) \in ToSet(performed)
      BY <3>2, <1>4
    <3>4. Follows(ToSet(performed) \cup {perform(Left[proc.at])}, {})
      BY <3>1, <3>3, <1>4, FollowsNext
    <3>5. QED
      BY <3>4, <2>2, <1>4 DEF PerformedInOrder
  <2>6. WaitingInOrder' /\ CollectedInOrder'
    BY <1>2, <2>3, EmptyInOrder DEF WaitingInOrder, CollectedInOrder
  <2>7. DoneOrWaiting'
    BY <1>0 DEF IInv, DoneWasSent, DoneOrWaiting
  <2>8. MarkedBefore'
    <3>1. \A i \in DOMAIN ownerActions : i < proc.at => ownerActions[i] \in complete
      BY <1>0, <1>4 DEF InOrder, MarkedBefore
    <3>2. ownerActions[proc.at] = k
      BY <1>3 DEF Current
    <3>3. QED
      BY <3>1, <3>2, <2>3, <1>0 DEF MarkedBefore, fileVars
  <2>9. QED
    BY <2>4, <2>5, <2>6, <2>7, <2>8 DEF InOrder
<1>6. CASE ~Succeeds(<<Current>>)
  <2>1. proc'.does = "nothing" /\ UNCHANGED chainVars
    BY <1>6 DEF SubmitAction, Off
  <2>2. Done' = Done
    BY <1>0, <2>1 DEF Done, fileVars
  <2>3. QED
    BY <1>0, <1>2, <2>1, <2>2, OrderFrame, Idle DEF InOrder, Owning, chainVars, fileVars
<1>7. QED
  BY <1>5, <1>6

LEMMA WriteMarkInOrder == ASSUME OInv, Ordered, WriteMark PROVE InOrder'
<1>0. /\ InOrder /\ proc.does = "mark" /\ proc.does \in Owning /\ complete' = proc.marked
      /\ UNCHANGED <<mode, performed, nominated, ownerActions, queue, bounds>>
      /\ proc' = [proc EXCEPT !.does = "actions", !.at = @ + 1]
  BY DEF OInv, WriteMark, Owning, chainVars
<1>1. /\ proc \in [does : Owning, at : Nat \ {0}, marked : SUBSET Actions, batch : Seq(Calls)]
      /\ mode = "account" => AccountMemory
      /\ mode # "account" => CollectorMemory
  BY <1>0, Running DEF OInv
<1>2. proc'.does = "actions" /\ proc'.at = proc.at + 1 /\ proc'.marked = proc.marked /\ proc'.batch = <<>>
  BY <1>0, <1>1 DEF AccountMemory, CollectorMemory
<1>3. Done' = Done /\ queue = {}
  BY <1>0, <1>2, NothingWaits DEF Done
<1>4. FileIsLeft' /\ OneProposal' /\ PerformedInOrder' /\ WaitingInOrder' /\ DoneOrWaiting'
  BY <1>0, <1>3, OrderFrame
<1>5. CollectedInOrder'
  BY <1>2, EmptyInOrder DEF CollectedInOrder
<1>6. MarkedBefore'
  <2>1. /\ \A i \in DOMAIN ownerActions : i < proc.at => ownerActions[i] \in proc.marked
        /\ ownerActions[proc.at] \in proc.marked
    BY <1>0 DEF InOrder, MarkedBefore
  <2>2. \A i \in DOMAIN ownerActions : i < proc.at + 1 => i < proc.at \/ i = proc.at
    BY <1>1 DEF OInv, IInv, Types, FileOK
  <2>3. QED
    BY <2>1, <2>2, <1>0, <1>2 DEF MarkedBefore
<1>7. QED
  BY <1>4, <1>5, <1>6 DEF InOrder

(* What a run that collects for a safe has.                                *)
LEMMA Collecting ==
  ASSUME OInv, Ordered, mode # "account", proc.does \in {"actions", "accept", "submit"}
  PROVE  /\ InOrder /\ mode = "safe" /\ queue = {} /\ Waiting = {} /\ CollectorMemory
         /\ proc \in [does : Owning, at : Nat \ {0}, marked : SUBSET Actions, batch : Seq(Calls)]
         /\ proc.marked \subseteq ToSet(performed) \cup ToSet(proc.batch)
<1>1. InOrder /\ mode = "safe" /\ queue = {} /\ Waiting = {}
  BY NothingWaits DEF OInv, Ordered, IInv, Types, BoundsOK
<1>2. /\ CollectorMemory
      /\ proc \in [does : Owning, at : Nat \ {0}, marked : SUBSET Actions, batch : Seq(Calls)]
  BY Running DEF OInv, Owning
<1>3. complete \subseteq ToSet(performed)
  BY <1>1, FileOfDone DEF OInv, InOrder, DoneOrWaiting
<1>4. QED
  BY <1>1, <1>2, <1>3 DEF CollectorMemory

LEMMA CollectActionInOrder == ASSUME OInv, Ordered, CollectAction PROVE InOrder'
<1>0. /\ mode # "account" /\ proc.does = "actions" /\ proc.at \in DOMAIN ownerActions
      /\ UNCHANGED <<mode, chainVars, fileVars, queue, bounds>>
  BY DEF CollectAction, ToDo
<1>1. /\ InOrder /\ queue = {}
      /\ proc \in [does : Owning, at : Nat \ {0}, marked : SUBSET Actions, batch : Seq(Calls)]
      /\ proc.marked \subseteq ToSet(performed) \cup ToSet(proc.batch)
  BY <1>0, Collecting
<1>2. PICK k \in Actions : k = Current
  BY <1>0, ComesNext
<1>3. proc.at \in DOMAIN Left /\ k = perform(Left[proc.at]) /\ k \in Calls
      /\ (proc.at > 1 => perform(Left[proc.at - 1]) \in proc.marked)
  BY <1>0, <1>2, ComesNext, CallTypes
<1>4. proc' = [proc EXCEPT !.at = @ + 1, !.marked = @ \cup {k}, !.batch = Append(proc.batch, k)]
  BY <1>2 DEF CollectAction, Collected, matchedTxnIsPending
<1>5. proc'.does = "actions" /\ proc'.at = proc.at + 1 /\ proc'.marked = proc.marked \cup {k}
      /\ proc'.batch = Append(proc.batch, k)
  BY <1>0, <1>1, <1>4
<1>6. ToSet(proc'.batch) = ToSet(proc.batch) \cup {k}
  BY <1>1, <1>3, <1>5, ToSetAppend
<1>7. Done' = Done
  BY <1>0, <1>5 DEF Done, fileVars
<1>8. FileIsLeft' /\ OneProposal' /\ PerformedInOrder' /\ WaitingInOrder' /\ DoneOrWaiting'
  BY <1>0, <1>1, <1>7, OrderFrame DEF chainVars, fileVars
<1>9. CollectedInOrder'
  <2>1. Follows(ToSet(proc.batch), ToSet(performed)) /\ CanBeMade(ToSet(proc.batch), nominated)
    BY <1>0, <1>1 DEF InOrder, CollectedInOrder
  <2>2. proc.at > 1 => perform(Left[proc.at - 1]) \in ToSet(proc.batch) \cup ToSet(performed)
    BY <1>1, <1>3
  <2>3. Follows(ToSet(proc.batch) \cup {perform(Left[proc.at])}, ToSet(performed))
    BY <2>1, <2>2, <1>3, FollowsNext
  <2>4. CanBeMade(ToSet(proc.batch) \cup {k}, nominated)
    BY <2>1, <1>3 DEF CanBeMade
  <2>5. QED
    BY <2>3, <2>4, <1>0, <1>3, <1>6 DEF CollectedInOrder, chainVars
<1>10. MarkedBefore'
  <2>1. /\ \A i \in DOMAIN ownerActions : i < proc.at => ownerActions[i] \in proc.marked
        /\ ownerActions[proc.at] = k
    BY <1>0, <1>1, <1>2 DEF InOrder, MarkedBefore, Current
  <2>2. \A i \in DOMAIN ownerActions : i < proc.at + 1 => i < proc.at \/ i = proc.at
    BY <1>1 DEF OInv, IInv, Types, FileOK
  <2>3. QED
    BY <2>1, <2>2, <1>0, <1>5 DEF MarkedBefore, fileVars
<1>11. QED
  BY <1>8, <1>9, <1>10 DEF InOrder

LEMMA PassActionInOrder == ASSUME OInv, Ordered, PassAction PROVE InOrder'
<1>0. /\ InOrder /\ proc.does = "actions" /\ proc.does \in Owning
      /\ UNCHANGED <<mode, chainVars, fileVars, queue, bounds>> /\ queue = {}
  BY NothingWaits DEF PassAction, Owning, OInv
<1>1. proc \in [does : Owning, at : Nat \ {0}, marked : SUBSET Actions, batch : Seq(Calls)]
  BY <1>0, Running DEF OInv
<1>2. /\ proc'.batch = proc.batch /\ proc'.does \in {"actions", "accept"}
      /\ proc'.does = "actions" =>
           proc.at \in DOMAIN ownerActions /\ proc'.at = proc.at + 1 /\ proc'.marked = proc.marked
  <2>1. CASE proc.at \in DOMAIN ownerActions
    <3>1. proc' = [proc EXCEPT !.at = @ + 1]
      BY <2>1 DEF PassAction
    <3>2. QED
      BY <2>1, <3>1, <1>0, <1>1
  <2>2. CASE proc.at \notin DOMAIN ownerActions
    <3>1. proc' = [[proc EXCEPT !.does = "accept"] EXCEPT !.at = 1]
      BY <2>2 DEF PassAction
    <3>2. QED
      BY <3>1, <1>1
  <2>3. QED
    BY <2>1, <2>2
<1>3. Done' = Done
  BY <1>0, <1>2 DEF Done, fileVars
<1>4. FileIsLeft' /\ OneProposal' /\ PerformedInOrder' /\ WaitingInOrder' /\ DoneOrWaiting'
  BY <1>0, <1>3, OrderFrame DEF chainVars, fileVars
<1>5. CollectedInOrder'
  BY <1>0, <1>2 DEF InOrder, CollectedInOrder, chainVars
<1>6. MarkedBefore'
  <2>1. CASE proc'.does = "accept"
    BY <2>1 DEF MarkedBefore
  <2>2. CASE proc'.does = "actions"
    <3>1. /\ \A i \in DOMAIN ownerActions : i < proc.at => ownerActions[i] \in proc.marked
          /\ ownerActions[proc.at] \in proc.marked
      BY <1>0, <1>2, <2>2 DEF InOrder, MarkedBefore, PassAction, ToDo, Current
    <3>2. \A i \in DOMAIN ownerActions : i < proc.at + 1 => i < proc.at \/ i = proc.at
      BY <1>1 DEF OInv, IInv, Types, FileOK
    <3>3. QED
      BY <3>1, <3>2, <1>0, <1>2, <2>2 DEF MarkedBefore, fileVars
  <2>3. QED
    BY <1>2, <2>1, <2>2
<1>7. QED
  BY <1>4, <1>5, <1>6 DEF InOrder

-----------------------------------------------------------------------------
LEMMA SubmitAcceptanceInOrder == ASSUME OInv, IInv', Ordered, SubmitAcceptance PROVE InOrder'
<1>0. /\ InOrder /\ mode = "account" /\ proc.does = "accept" /\ proc.does \in Owning
      /\ UNCHANGED <<mode, fileVars, queue, bounds>> /\ queue = {}
  BY NothingWaits DEF SubmitAcceptance, ToAccept, Owning, OInv
<1>1. /\ proc \in [does : Owning, at : Nat \ {0}, marked : SUBSET Actions, batch : Seq(Calls)]
      /\ AccountMemory
  BY <1>0, Running DEF OInv
<1>2. PICK c : c = Contract[proc.at]
  OBVIOUS
<1>3. c \in nominated /\ Perform(<<accept(c)>>) /\ proc' = [proc EXCEPT !.at = @ + 1]
  BY <1>2 DEF SubmitAcceptance, ToAccept
<1>4. accept(c) \in Calls
  BY <1>3, CallTypes DEF OInv, IInv, Types, ChainOK
<1>5. <<accept(c)>> \in Seq(Calls) /\ ToSet(<<accept(c)>>) = {accept(c)}
  BY <1>4 DEF ToSet
<1>6. ToSet(performed') = ToSet(performed) \cup {accept(c)}
  BY <1>3, <1>5, PerformKeeps DEF OInv, IInv, Types
<1>7. proc'.does = "accept" /\ proc'.batch = <<>> /\ Waiting' = {}
  BY <1>0, <1>1, <1>3 DEF AccountMemory, Waiting
<1>8. FileIsLeft' /\ OneProposal'
  BY <1>0 DEF InOrder, FileIsLeft, OneProposal, fileVars
<1>9. PerformedInOrder'
  BY <1>0, <1>6, FollowsAccept DEF InOrder, PerformedInOrder
<1>10. WaitingInOrder' /\ CollectedInOrder' /\ MarkedBefore'
  BY <1>7, EmptyInOrder DEF WaitingInOrder, CollectedInOrder, MarkedBefore
<1>11. DoneOrWaiting'
  BY <1>0 DEF IInv, DoneWasSent, DoneOrWaiting
<1>12. QED
  BY <1>8, <1>9, <1>10, <1>11 DEF InOrder

LEMMA CollectAcceptanceInOrder == ASSUME OInv, Ordered, CollectAcceptance PROVE InOrder'
<1>0. /\ mode # "account" /\ proc.does = "accept"
      /\ UNCHANGED <<mode, chainVars, fileVars, queue, bounds>>
  BY DEF CollectAcceptance, ToAccept
<1>1. /\ InOrder /\ queue = {}
      /\ proc \in [does : Owning, at : Nat \ {0}, marked : SUBSET Actions, batch : Seq(Calls)]
  BY <1>0, Collecting
<1>2. PICK c : c = Contract[proc.at]
  OBVIOUS
<1>3. c \in nominated /\ proc' = [proc EXCEPT !.at = @ + 1, !.batch = Append(proc.batch, accept(c))]
  BY <1>2 DEF CollectAcceptance, ToAccept, Collected, matchedTxnIsPending
<1>4. accept(c) \in Calls
  BY <1>3, CallTypes DEF OInv, IInv, Types, ChainOK
<1>5. proc'.does = "accept" /\ ToSet(proc'.batch) = ToSet(proc.batch) \cup {accept(c)}
  <2>1. proc'.does = "accept" /\ proc'.batch = Append(proc.batch, accept(c))
    BY <1>0, <1>1, <1>3
  <2>2. QED
    BY <2>1, <1>1, <1>4, ToSetAppend
<1>6. Done' = Done
  BY <1>0, <1>5 DEF Done, fileVars
<1>7. FileIsLeft' /\ OneProposal' /\ PerformedInOrder' /\ WaitingInOrder' /\ DoneOrWaiting'
  BY <1>0, <1>1, <1>6, OrderFrame DEF chainVars, fileVars
<1>8. CollectedInOrder'
  <2>1. Follows(ToSet(proc.batch), ToSet(performed)) /\ CanBeMade(ToSet(proc.batch), nominated)
    BY <1>0, <1>1 DEF InOrder, CollectedInOrder
  <2>2. Follows(ToSet(proc.batch) \cup {accept(c)}, ToSet(performed))
    BY <2>1, FollowsAccept
  <2>3. CanBeMade(ToSet(proc.batch) \cup {accept(c)}, nominated)
    BY <2>1, <1>3 DEF CanBeMade
  <2>4. QED
    BY <2>2, <2>3, <1>0, <1>5 DEF CollectedInOrder, chainVars
<1>9. MarkedBefore'
  BY <1>5 DEF MarkedBefore
<1>10. QED
  BY <1>7, <1>8, <1>9 DEF InOrder

LEMMA PassAcceptanceInOrder == ASSUME OInv, Ordered, PassAcceptance PROVE InOrder'
<1>0. /\ InOrder /\ proc.does = "accept" /\ proc.does \in Owning
      /\ UNCHANGED <<mode, chainVars, fileVars, queue, bounds>> /\ queue = {}
  BY NothingWaits DEF PassAcceptance, Owning, OInv
<1>1. proc \in [does : Owning, at : Nat \ {0}, marked : SUBSET Actions, batch : Seq(Calls)]
  BY <1>0, Running DEF OInv
<1>2. \/ proc'.does = "nothing"
      \/ proc'.does \in {"accept", "submit"} /\ proc'.batch = proc.batch
  <2>1. \/ proc' = Off
        \/ proc' = [proc EXCEPT !.at = @ + 1]
        \/ proc' = [proc EXCEPT !.does = "submit"]
    BY DEF PassAcceptance
  <2>2. QED
    BY <2>1, <1>0, <1>1 DEF Off
<1>3. Done' = Done
  BY <1>0, <1>2 DEF Done, fileVars
<1>4. FileIsLeft' /\ OneProposal' /\ PerformedInOrder' /\ WaitingInOrder' /\ DoneOrWaiting'
  BY <1>0, <1>3, OrderFrame DEF chainVars, fileVars
<1>5. CollectedInOrder' /\ MarkedBefore'
  BY <1>0, <1>2 DEF InOrder, CollectedInOrder, MarkedBefore, chainVars
<1>6. QED
  BY <1>4, <1>5 DEF InOrder

(* The proposal: what was collected waits now, and nothing else does.      *)
LEMMA SubmitInOrder == ASSUME OInv, Ordered, Submit PROVE InOrder'
<1>0. /\ proc.does = "submit" /\ proc.does \in Owning
      /\ UNCHANGED <<mode, nominated, performed, ownerActions, complete, bounds>>
      /\ proc' = [proc EXCEPT !.does = "write"]
  BY DEF Submit, Owning, fileVars
<1>1. mode # "account"
  BY <1>0, Running DEF OInv, AccountMemory
<1>2. /\ InOrder /\ mode = "safe" /\ queue = {} /\ Waiting = {}
      /\ proc \in [does : Owning, at : Nat \ {0}, marked : SUBSET Actions, batch : Seq(Calls)]
      /\ proc.marked \subseteq ToSet(performed) \cup ToSet(proc.batch)
  BY <1>0, <1>1, Collecting
<1>3. queue' = {[run |-> bounds.runs, relayed |-> FALSE, batches |-> <<proc.batch>>]}
  BY <1>2 DEF Submit
<1>4. proc'.does = "write" /\ proc'.marked = proc.marked
  BY <1>0, <1>2
<1>5. Waiting' = ToSet(proc.batch)
  BY <1>3 DEF Waiting
<1>6. FileIsLeft'
  BY <1>0, <1>2 DEF InOrder, FileIsLeft
<1>7. OneProposal'
  BY <1>3, <1>4 DEF OneProposal
<1>8. PerformedInOrder'
  BY <1>0, <1>2 DEF InOrder, PerformedInOrder
<1>9. WaitingInOrder'
  BY <1>0, <1>2, <1>5 DEF InOrder, CollectedInOrder, WaitingInOrder
<1>10. CollectedInOrder' /\ MarkedBefore'
  BY <1>4 DEF CollectedInOrder, MarkedBefore
<1>11. DoneOrWaiting'
  BY <1>0, <1>2, <1>4, <1>5 DEF DoneOrWaiting, Done
<1>12. QED
  BY <1>6, <1>7, <1>8, <1>9, <1>10, <1>11 DEF InOrder

LEMMA WriteActionsInOrder == ASSUME OInv, Ordered, WriteActions PROVE InOrder'
<1>0. /\ InOrder /\ proc.does = "write" /\ complete' = proc.marked /\ proc'.does = "nothing"
      /\ UNCHANGED <<performed, nominated, ownerActions, queue, bounds>>
  BY DEF OInv, WriteActions, Off, chainVars
<1>1. Done' = Done
  BY <1>0 DEF Done
<1>2. QED
  BY <1>0, <1>1, OrderFrame, Idle DEF InOrder, Owning

LEMMA CrashInOrder == ASSUME OInv, Ordered, Crash PROVE InOrder'
<1>0. /\ InOrder /\ proc'.does = "nothing"
      /\ UNCHANGED <<performed, nominated, ownerActions, complete, queue>>
  BY DEF OInv, Crash, Off, chainVars, fileVars
<1>1. Done' \subseteq Done
  BY <1>0, FileOfDone DEF Done, OInv
<1>2. bounds'.left = bounds.left
  BY DEF Crash, OInv, IInv, Types, BoundsOK
<1>3. QED
  BY <1>0, <1>1, <1>2, OrderFrame, Idle DEF InOrder, Owning

(* The signers execute the one proposal that there is, and it succeeds.    *)
LEMMA ExecuteInOrder ==
  ASSUME OInv, Ordered, NEW p \in queue, NEW i \in DOMAIN p.batches, Execute(p, i)
  PROVE  InOrder'
<1>0. /\ InOrder /\ UNCHANGED <<ownerActions, complete, proc, bounds>>
      /\ p.batches \in Seq(Seq(Calls)) /\ Len(p.batches) = 1 /\ queue = {p}
  BY DEF OInv, Execute, IInv, Types, QueueOK, InOrder, OneProposal, fileVars
<1>1. i = 1 /\ p.batches[1] \in Seq(Calls)
  BY <1>0
<1>2. PICK calls \in Seq(Calls) : calls = p.batches[1]
  BY <1>1
<1>3. Waiting = ToSet(calls)
  BY <1>0, <1>2 DEF Waiting
<1>4. CanBeMade(ToSet(calls), nominated) /\ Follows(ToSet(calls), ToSet(performed))
  BY <1>0, <1>3 DEF InOrder, WaitingInOrder
<1>5. Succeeds(calls)
  <2> SUFFICES ASSUME NEW j \in DOMAIN calls
               PROVE  /\ calls[j].what = "accept" => calls[j].of \in nominated
                      /\ calls[j].what = "nominate" => owner[calls[j].of] = "new"
    BY DEF Succeeds
  <2>1. calls[j] \in ToSet(calls)
    BY DEF ToSet
  <2>2. CASE \E n \in DOMAIN Left : calls[j] = perform(Left[n])
    BY <2>2 DEF perform
  <2>3. CASE \E c \in nominated : calls[j] = accept(c)
    BY <2>3 DEF accept
  <2>4. QED
    BY <2>1, <2>2, <2>3, <1>4 DEF CanBeMade
<1>6. Perform(calls) /\ queue' = {}
  BY <1>0, <1>1, <1>2, <1>5 DEF Execute
<1>7. ToSet(performed') = ToSet(performed) \cup ToSet(calls)
  BY <1>6, PerformKeeps DEF OInv, IInv, Types
<1>8. Waiting' = {} /\ Done' = Done
  BY <1>6, <1>0 DEF Waiting, Done
<1>9. FileIsLeft' /\ OneProposal'
  BY <1>0, <1>6 DEF InOrder, FileIsLeft, OneProposal
<1>10. PerformedInOrder'
  <2>1. Follows(ToSet(performed), {})
    BY <1>0 DEF InOrder, PerformedInOrder
  <2>2. Follows(ToSet(performed) \cup ToSet(calls), {})
    BY <2>1, <1>4, FollowsJoined
  <2>3. QED
    BY <2>2, <1>7 DEF PerformedInOrder
<1>11. WaitingInOrder'
  BY <1>8, EmptyInOrder DEF WaitingInOrder
<1>12. proc.does \in {"nothing", "nominate", "write"}
  BY <1>0 DEF InOrder, OneProposal
<1>13. CollectedInOrder' /\ MarkedBefore'
  BY <1>0, <1>12 DEF CollectedInOrder, MarkedBefore
<1>14. DoneOrWaiting'
  BY <1>0, <1>3, <1>7, <1>8 DEF InOrder, DoneOrWaiting
<1>15. QED
  BY <1>9, <1>10, <1>11, <1>13, <1>14 DEF InOrder

LEMMA StutterInOrder == ASSUME OInv, Ordered, UNCHANGED vars PROVE InOrder'
<1>0. InOrder /\ UNCHANGED <<performed, nominated, ownerActions, complete, queue, bounds, proc>>
  BY DEF OInv, vars, chainVars, fileVars
<1>1. Done' = Done /\ Waiting' = Waiting
  BY <1>0 DEF Done, Waiting
<1>2. QED
  BY <1>0, <1>1 DEF InOrder, FileIsLeft, OneProposal, PerformedInOrder, WaitingInOrder, CollectedInOrder,
     DoneOrWaiting, MarkedBefore

LEMMA NextInOrder == ASSUME OInv, [Next]_vars PROVE OInv'
<1>0. IInv' /\ OthersNotOffered' /\ (Ordered' => Ordered)
  BY NextKeeps, OthersKept DEF OInv
<1> SUFFICES ASSUME Ordered PROVE InOrder'
  BY <1>0 DEF OInv
<1>1. CASE LeaveAction \/ StartNominate \/ StartOwner \/ Crash \/ UNCHANGED vars
  BY <1>1, LeaveActionInOrder, StartNominateInOrder, StartOwnerInOrder, CrashInOrder, StutterInOrder
<1>2. CASE Process
  BY <1>0, <1>2, NominateInOrder, SubmitActionInOrder, WriteMarkInOrder, SubmitAcceptanceInOrder,
     CollectActionInOrder, CollectAcceptanceInOrder, SubmitInOrder, WriteActionsInOrder,
     PassActionInOrder, PassAcceptanceInOrder DEF Process, Account, Collector
<1>3. CASE Signers
  <2>1. PICK p \in queue : Relay(p) \/ \E i \in DOMAIN p.batches : Execute(p, i)
    BY <1>3 DEF Signers
  <2>2. ~Relay(p)
    BY DEF Relay, Ordered
  <2>3. QED
    BY <2>1, <2>2, ExecuteInOrder
<1>4. QED
  BY <1>1, <1>2, <1>3 DEF Next

(* An account, and a safe whose proposals are signed before owner is run   *)
(* again, perform what deployments left in its order, wherever the command *)
(* is killed, while no contract is another account's.                      *)
THEOREM ActionsStayInOrder == Spec => []((mode = "safe" => waitsForSafe) => OrderKept)
<1>1. Init => OInv
  BY InitOrder
<1>2. OInv /\ [Next]_vars => OInv'
  BY NextInOrder
<1>3. OInv => ((mode = "safe" => waitsForSafe) => OrderKept)
  BY DEF OInv, Ordered, InOrder, PerformedInOrder, Follows, OrderKept
<1>4. QED
  BY <1>1, <1>2, <1>3, PTL DEF Spec
=============================================================================
