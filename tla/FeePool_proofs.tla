--------------------------- MODULE FeePool_proofs ---------------------------
(***************************************************************************)
(* The safety properties of SynthetixDebtShare, and after them those of    *)
(* FeePool that uses it, for every set of accounts, every number of        *)
(* periods, every scan length, every supply cap below 2^128, all amounts   *)
(* of rewards and every unit.                                              *)
(***************************************************************************)
EXTENDS FeePool, Arithmetic_proofs

(* Taking a number modulo 2^128 does nothing to a number below 2^128.      *)
LEMMA ModSmall ==
  ASSUME NEW n \in Nat, NEW m \in Nat, n < m
  PROVE  n % m = n
OBVIOUS

LEMMA ModType ==
  ASSUME NEW n \in Int
  PROVE  n % Uint128 \in 0 .. Uint128 - 1
BY CapAssumption

(* What is in a history.                                                   *)
LEMMA EntryType ==
  ASSUME NEW h \in Seq(PeriodBalance), NEW i \in DOMAIN h
  PROVE  h[i].amount \in Nat /\ h[i].periodId \in PeriodId /\ h[i].periodId \in Nat
<1>1. h[i] \in PeriodBalance
  OBVIOUS
<1>2. PeriodId \subseteq Nat
  BY PeriodAssumption DEF PeriodId
<1>3. 0 .. Uint128 - 1 \subseteq Nat
  BY CapAssumption
<1>4. QED
  BY <1>1, <1>2, <1>3 DEF PeriodBalance

LEMMA LatestType ==
  ASSUME NEW h \in Seq(PeriodBalance)
  PROVE  Latest(h) \in Nat
<1>1. CASE h = <<>>
  BY <1>1 DEF Latest
<1>2. CASE h # <<>>
  BY <1>2, EntryType DEF Latest
<1>3. QED
  BY <1>1, <1>2

(* Recording a balance keeps a history a sequence of checkpoints and makes *)
(* the recorded balance the latest.                                        *)
LEMMA CheckpointType ==
  ASSUME currentPeriodId \in PeriodId,
         NEW h \in Seq(PeriodBalance), NEW n \in Int
  PROVE  /\ Checkpoint(h, n) \in Seq(PeriodBalance)
         /\ Checkpoint(h, n) # <<>>
         /\ Latest(Checkpoint(h, n)) = n % Uint128
<1> DEFINE entry == [amount |-> n % Uint128, periodId |-> currentPeriodId]
<1>1. entry \in PeriodBalance
  BY ModType DEF PeriodBalance
<1>2. CASE h = <<>> \/ h[Len(h)].periodId # currentPeriodId
  <2>1. Checkpoint(h, n) = Append(h, entry)
    BY <1>2 DEF Checkpoint
  <2>2. QED
    BY <1>1, <2>1 DEF Latest
<1>3. CASE ~(h = <<>> \/ h[Len(h)].periodId # currentPeriodId)
  <2>1. Checkpoint(h, n) = [h EXCEPT ![Len(h)] = entry]
    BY <1>3 DEF Checkpoint
  <2>2. h # <<>> /\ Len(h) \in DOMAIN h
    BY <1>3
  <2>3. QED
    BY <1>1, <2>1, <2>2 DEF Latest
<1>4. QED
  BY <1>2, <1>3

(* Recording a balance keeps the history in order.                         *)
LEMMA CheckpointOrdered ==
  ASSUME currentPeriodId \in PeriodId,
         NEW h \in Seq(PeriodBalance), Ordered(h, currentPeriodId), NEW n \in Int
  PROVE  Ordered(Checkpoint(h, n), currentPeriodId)
<1> DEFINE entry == [amount |-> n % Uint128, periodId |-> currentPeriodId]
<1>1. currentPeriodId \in Nat /\ entry.periodId = currentPeriodId
  BY PeriodAssumption DEF PeriodId
<1>2. \A i \in DOMAIN h : h[i].periodId \in Nat
  BY EntryType
<1>3. CASE h = <<>> \/ h[Len(h)].periodId # currentPeriodId
  <2>1. Checkpoint(h, n) = Append(h, entry)
    BY <1>3 DEF Checkpoint
  <2>2. \A i \in DOMAIN h : h[i].periodId < currentPeriodId
    <3>1. CASE h = <<>>
      BY <3>1
    <3>2. CASE h # <<>>
      <4>1. Len(h) \in DOMAIN h /\ h[Len(h)].periodId < currentPeriodId
        BY <1>1, <1>2, <1>3, <3>2 DEF Ordered
      <4>2. QED
        BY <1>1, <1>2, <4>1 DEF Ordered
    <3>3. QED
      BY <3>1, <3>2
  <2>3. /\ DOMAIN Append(h, entry) = 1 .. Len(h) + 1
        /\ \A i \in DOMAIN h : Append(h, entry)[i] = h[i]
        /\ Append(h, entry)[Len(h) + 1] = entry
    OBVIOUS
  <2> HIDE DEF entry
  <2>4. QED
    BY <1>1, <1>2, <2>1, <2>2, <2>3 DEF Ordered
<1>4. CASE ~(h = <<>> \/ h[Len(h)].periodId # currentPeriodId)
  <2>1. Checkpoint(h, n) = [h EXCEPT ![Len(h)] = entry]
    BY <1>4 DEF Checkpoint
  <2>2. \A i \in DOMAIN h : Checkpoint(h, n)[i].periodId = h[i].periodId
    BY <1>1, <1>4, <2>1
  <2>3. DOMAIN Checkpoint(h, n) = DOMAIN h
    BY <2>1
  <2>4. QED
    BY <2>2, <2>3 DEF Ordered
<1>5. QED
  BY <1>3, <1>4

(* A non-empty set of indices has a largest one: the distances to the end  *)
(* are naturals, and these are well-founded.                               *)
LEMMA LargestExists ==
  ASSUME NEW n \in Nat, NEW S \in SUBSET (1 .. n), S # {}
  PROVE  \E i \in S : \A j \in S : j <= i
<1> DEFINE dist == {n - i : i \in S}
<1>1. dist \subseteq Nat /\ dist # {}
  <2>1. \A i \in S : n - i \in Nat
    OBVIOUS
  <2>2. QED
    BY <2>1
<1>2. \E d \in dist : \A e \in dist : ~(<<e, d>> \in OpToRel(<, Nat))
  BY <1>1, NatLessThanWellFounded, WFMin
<1>3. PICK d \in dist : \A e \in dist : ~(e < d)
  BY <1>1, <1>2 DEF OpToRel
<1>4. PICK i \in S : d = n - i
  OBVIOUS
<1>5. \A j \in S : j <= i
  BY <1>3, <1>4
<1>6. QED
  BY <1>5

(* What the history says of a period is the amount of the checkpoint that  *)
(* was in force.                                                           *)
LEMMA BalanceAtIs ==
  ASSUME NEW h, NEW p, NEW i \in DOMAIN h, DOMAIN h \subseteq Int, InForce(h, p, i)
  PROVE  BalanceAt(h, p) = h[i].amount
<1>1. \A j \in DOMAIN h : InForce(h, p, j) => j = i
  BY DEF InForce
<1>2. (CHOOSE j \in DOMAIN h : InForce(h, p, j)) = i
  BY <1>1
<1>3. QED
  BY <1>2 DEF BalanceAt, InForce

(* If some checkpoint is old enough, one of them was in force: the indices *)
(* of those that are form a non-empty bounded set of naturals.             *)
LEMMA InForceExists ==
  ASSUME NEW h \in Seq(PeriodBalance), NEW p \in Nat,
         \E i \in DOMAIN h : h[i].periodId <= p
  PROVE  \E i \in DOMAIN h : InForce(h, p, i)
<1> DEFINE old == {i \in DOMAIN h : h[i].periodId <= p}
<1>1. old \in SUBSET (1 .. Len(h)) /\ old # {} /\ Len(h) \in Nat
  OBVIOUS
<1> HIDE DEF old
<1>2. PICK i \in old : \A j \in old : j <= i
  BY <1>1, LargestExists
<1>3. QED
  BY <1>2 DEF InForce, old

(* In the current period and later ones that is the latest balance.        *)
LEMMA BalanceAtCurrent ==
  ASSUME NEW h \in Seq(PeriodBalance), NEW p \in Nat,
         \A i \in DOMAIN h : h[i].periodId <= p
  PROVE  BalanceAt(h, p) = Latest(h)
<1>1. CASE h = <<>>
  BY <1>1 DEF BalanceAt, Latest
<1>2. CASE h # <<>>
  <2>1. InForce(h, p, Len(h)) /\ DOMAIN h \subseteq Int /\ Len(h) \in DOMAIN h
    BY <1>2 DEF InForce
  <2>2. QED
    BY <1>2, <2>1, BalanceAtIs DEF Latest
<1>3. QED
  BY <1>1, <1>2

(* Recording a balance leaves the past as it was and makes the recorded    *)
(* balance the one of the current period and the later ones.               *)
LEMMA CheckpointAt ==
  ASSUME currentPeriodId \in PeriodId,
         NEW h \in Seq(PeriodBalance), Ordered(h, currentPeriodId),
         NEW n \in Int, NEW p \in PeriodId
  PROVE  BalanceAt(Checkpoint(h, n), p)
           = IF p < currentPeriodId THEN BalanceAt(h, p) ELSE n % Uint128
<1> DEFINE new == Checkpoint(h, n)
<1>1. p \in Nat /\ currentPeriodId \in Nat
  BY PeriodAssumption DEF PeriodId
<1>2. /\ new \in Seq(PeriodBalance)
      /\ Latest(new) = n % Uint128
      /\ Ordered(new, currentPeriodId)
  BY CheckpointType, CheckpointOrdered
<1>3. CASE p >= currentPeriodId
  <2>1. \A i \in DOMAIN new : new[i].periodId <= p
    <3> TAKE i \in DOMAIN new
    <3>1. new[i].periodId \in Nat
      BY <1>2, EntryType
    <3>2. new[i].periodId <= currentPeriodId
      BY <1>2 DEF Ordered
    <3>3. QED
      BY <1>1, <1>3, <3>1, <3>2
  <2>2. QED
    BY <1>1, <1>2, <1>3, <2>1, BalanceAtCurrent
<1>4. CASE p < currentPeriodId
  <2>1. \A i : (i \in DOMAIN new /\ new[i].periodId <= p)
                <=> (i \in DOMAIN h /\ h[i].periodId <= p)
    BY <1>1, <1>4, EntryType DEF Checkpoint
  <2>2. \A i \in DOMAIN h : h[i].periodId <= p => new[i] = h[i]
    BY <1>1, <1>4, EntryType DEF Checkpoint
  <2> HIDE DEF new
  <2>3. \A i : InForce(new, p, i) <=> InForce(h, p, i)
    BY <2>1 DEF InForce
  <2>4. CASE \E i \in DOMAIN h : h[i].periodId <= p
    <3>1. PICK k \in DOMAIN h : InForce(h, p, k)
      BY <1>1, <2>4, InForceExists
    <3>2. BalanceAt(h, p) = h[k].amount
      BY <3>1, BalanceAtIs
    <3>3. k \in DOMAIN new /\ InForce(new, p, k) /\ DOMAIN new \subseteq Int
      BY <1>2, <2>3, <3>1 DEF InForce
    <3>4. BalanceAt(new, p) = new[k].amount
      BY <3>3, BalanceAtIs
    <3>5. new[k] = h[k]
      BY <2>2, <3>1 DEF InForce
    <3>6. QED
      BY <1>4, <3>2, <3>4, <3>5 DEF new
  <2>5. CASE ~ \E i \in DOMAIN h : h[i].periodId <= p
    BY <1>4, <2>1, <2>5 DEF BalanceAt, new
  <2>6. QED
    BY <2>4, <2>5
<1>5. QED
  BY <1>1, <1>3, <1>4


(* new has grown out of old by balances recorded in the current period.    *)
Extends(new, old) ==
  /\ new \in Seq(PeriodBalance)
  /\ Ordered(new, currentPeriodId)
  /\ \A p \in PeriodId : p < currentPeriodId => BalanceAt(new, p) = BalanceAt(old, p)
  /\ \A i \in DOMAIN new : new[i].periodId # currentPeriodId =>
       \E j \in DOMAIN old : old[j].periodId = new[i].periodId

LEMMA CheckpointExtends ==
  ASSUME currentPeriodId \in PeriodId,
         NEW h \in Seq(PeriodBalance), Ordered(h, currentPeriodId),
         NEW n \in Nat, n < Uint128
  PROVE  Extends(Checkpoint(h, n), h) /\ Latest(Checkpoint(h, n)) = n
<1> DEFINE new == Checkpoint(h, n)
<1>1. n % Uint128 = n
  BY CapAssumption, ModSmall
<1>2. new \in Seq(PeriodBalance) /\ Ordered(new, currentPeriodId) /\ Latest(new) = n
  BY <1>1, CheckpointType, CheckpointOrdered
<1>3. \A p \in PeriodId : p < currentPeriodId => BalanceAt(new, p) = BalanceAt(h, p)
  BY CheckpointAt
<1>4. \A i \in DOMAIN new : new[i].periodId # currentPeriodId =>
        \E j \in DOMAIN h : h[j].periodId = new[i].periodId
  <2> TAKE i \in DOMAIN new
  <2> HAVE new[i].periodId # currentPeriodId
  <2>1. i \in DOMAIN h /\ new[i] = h[i]
    BY DEF Checkpoint
  <2>2. QED
    BY <2>1
<1>5. QED
  BY <1>2, <1>3, <1>4 DEF Extends

LEMMA ExtendsReflexive ==
  ASSUME NEW h \in Seq(PeriodBalance), Ordered(h, currentPeriodId)
  PROVE  Extends(h, h)
BY DEF Extends

LEMMA ExtendsTransitive ==
  ASSUME NEW h, NEW g, NEW f, Extends(h, g), Extends(g, f)
  PROVE  Extends(h, f)
BY DEF Extends

-----------------------------------------------------------------------------
(* The inductive invariant: the checked invariants, and that no supply has *)
(* been recorded for a period that has not begun, so that a snapshot finds *)
(* its slot empty.                                                         *)
FutureUntouched == \A p \in PeriodId : p > currentPeriodId => totalSupplyOnPeriod[p] = 0

IInv ==
  /\ TypeOK
  /\ HistoryOrdered
  /\ SupplyIsSumOfBalances
  /\ PeriodSupplyIsSum
  /\ FutureUntouched

\* What the accounts hold now, and what a new checkpoint makes of it.
Holdings == [a \in Account |-> balanceOf(a)]

LEMMA HoldingsType ==
  ASSUME TypeOK
  PROVE  /\ Holdings \in [Account -> Nat]
         /\ totalSupply \in 0 .. SupplyCap
         /\ totalSupply \in Nat
         /\ currentPeriodId \in PeriodId
<1>1. \A a \in Account : balances[a] \in Seq(PeriodBalance)
  BY DEF TypeOK
<1>2. QED
  BY <1>1, LatestType, CapAssumption DEF TypeOK, Holdings, balanceOf, totalSupply

(* No account holds more than there is.                                    *)
LEMMA HoldingBound ==
  ASSUME TypeOK, SupplyIsSumOfBalances, NEW a \in Account
  PROVE  Latest(balances[a]) <= totalSupply
<1>1. Holdings[a] <= SumOf(Holdings)
  BY HoldingsType, AccountAssumption, SumOfBound
<1>2. QED
  BY <1>1 DEF SupplyIsSumOfBalances, Holdings, balanceOf

(* A contract nobody has used yet.                                         *)
Fresh ==
  /\ balances = [a \in Account |-> <<>>]
  /\ totalSupplyOnPeriod = [p \in PeriodId |-> 0]
  /\ currentPeriodId = 1
  /\ authorizedBrokers \subseteq Operator
  /\ authorizedToSnapshot \subseteq Operator
  /\ isInitialized \in BOOLEAN

LEMMA FreshIInv == ASSUME Fresh PROVE IInv
<1>1. 1 \in PeriodId /\ 0 \in 0 .. SupplyCap /\ totalSupply = 0
  BY PeriodAssumption, CapAssumption DEF Fresh, PeriodId, totalSupply
<1>2. TypeOK
  <2>1. <<>> \in Seq(PeriodBalance)
    OBVIOUS
  <2>2. QED
    BY <1>1, <2>1 DEF Fresh, TypeOK
<1>3. HistoryOrdered
  BY DEF Fresh, HistoryOrdered, Ordered
<1>4. SupplyIsSumOfBalances
  <2>1. Holdings \in [Account -> Nat] /\ \A a \in Account : Holdings[a] = 0
    BY DEF Fresh, Holdings, balanceOf, Latest
  <2>2. SumOf(Holdings) = 0
    BY <2>1, SumOfZero
  <2>3. QED
    BY <1>1, <2>2 DEF SupplyIsSumOfBalances, Holdings
<1>5. PeriodSupplyIsSum
  BY DEF Fresh, PeriodSupplyIsSum
<1>6. FutureUntouched
  BY DEF Fresh, FutureUntouched
<1>7. QED
  BY <1>2, <1>3, <1>4, <1>5, <1>6 DEF IInv

(* The initial state.                                                      *)
LEMMA InitIInv == Init => IInv
BY FreshIInv DEF Init, Fresh

(* A step that records new holdings in the current period, each history    *)
(* growing out of the old one, and their sum as the supply.                *)
Records(holdings) ==
  /\ balances' \in [Account -> Seq(PeriodBalance)]
  /\ \A a \in Account : /\ Extends(balances'[a], balances[a])
                        /\ Latest(balances'[a]) = holdings[a]
  /\ SumOf(holdings) \in 0 .. SupplyCap
  /\ totalSupplyOnPeriod' =
       [totalSupplyOnPeriod EXCEPT ![currentPeriodId] = SumOf(holdings)]
  /\ UNCHANGED <<currentPeriodId, authorizedBrokers, authorizedToSnapshot, isInitialized>>

\* The part of ClosedPeriodsFrozen that speaks of one step.
Frozen ==
  \A p \in PeriodId : p < currentPeriodId =>
    /\ totalSupplyOnPeriod'[p] = totalSupplyOnPeriod[p]
    /\ \A a \in Account : BalanceAt(balances'[a], p) = BalanceAt(balances[a], p)

LEMMA RecordsPreserves ==
  ASSUME IInv, NEW holdings \in [Account -> Nat], Records(holdings)
  PROVE  IInv' /\ Frozen
<1> USE DEF Records
<1>1. currentPeriodId \in PeriodId /\ currentPeriodId' = currentPeriodId
  BY DEF IInv, TypeOK
<1>2. PeriodId \subseteq Nat
  BY PeriodAssumption DEF PeriodId
<1>3. TypeOK'
  BY <1>1 DEF IInv, TypeOK
<1>4. HistoryOrdered'
  BY <1>1 DEF Extends, HistoryOrdered, Ordered
<1>5. [a \in Account |-> Latest(balances'[a])] = holdings
  OBVIOUS
<1>6. totalSupply' = SumOf(holdings)
  BY <1>1 DEF IInv, TypeOK, totalSupply
<1>7. SupplyIsSumOfBalances'
  BY <1>5, <1>6 DEF SupplyIsSumOfBalances, balanceOf
<1>8. Frozen
  BY <1>1, <1>2 DEF Frozen, Extends, IInv, TypeOK
<1>9. PeriodSupplyIsSum'
  <2> SUFFICES ASSUME NEW p \in PeriodId,
                      \/ totalSupplyOnPeriod'[p] # 0
                      \/ \E a \in Account : \E i \in DOMAIN balances'[a] :
                           balances'[a][i].periodId = p
               PROVE  totalSupplyOnPeriod'[p]
                        = SumOf([a \in Account |-> BalanceAt(balances'[a], p)])
    BY DEF PeriodSupplyIsSum
  <2>1. CASE p < currentPeriodId
    <3>1. [a \in Account |-> BalanceAt(balances'[a], p)]
            = [a \in Account |-> BalanceAt(balances[a], p)]
      BY <1>8, <2>1 DEF Frozen
    <3>2. totalSupplyOnPeriod'[p] = totalSupplyOnPeriod[p]
      BY <1>8, <2>1 DEF Frozen
    <3>3. \/ totalSupplyOnPeriod[p] # 0
          \/ \E a \in Account : \E i \in DOMAIN balances[a] : balances[a][i].periodId = p
      BY <1>1, <1>2, <2>1, <3>2 DEF Extends
    <3>4. QED
      BY <3>1, <3>2, <3>3 DEF IInv, PeriodSupplyIsSum
  <2>2. CASE p = currentPeriodId
    <3>1. \A a \in Account : BalanceAt(balances'[a], p) = holdings[a]
      <4> TAKE a \in Account
      <4>1. balances'[a] \in Seq(PeriodBalance) /\ p \in Nat
        BY <1>2
      <4>2. \A i \in DOMAIN balances'[a] : balances'[a][i].periodId <= p
        BY <2>2 DEF Extends, Ordered
      <4>3. QED
        BY <4>1, <4>2, BalanceAtCurrent
    <3>2. [a \in Account |-> BalanceAt(balances'[a], p)] = holdings
      BY <3>1
    <3>3. QED
      BY <1>1, <1>6, <2>2, <3>2 DEF totalSupply
  <2>3. CASE p > currentPeriodId
    <3>1. totalSupplyOnPeriod'[p] = 0
      BY <1>1, <1>2, <2>3 DEF IInv, FutureUntouched, TypeOK
    <3>2. PICK a \in Account : \E i \in DOMAIN balances'[a] : balances'[a][i].periodId = p
      BY <3>1
    <3>3. p <= currentPeriodId
      BY <3>2 DEF Extends, Ordered
    <3>4. QED
      BY <1>1, <1>2, <2>3, <3>3
  <2>4. QED
    BY <1>1, <1>2, <2>1, <2>2, <2>3
<1>10. FutureUntouched'
  BY <1>1, <1>2 DEF IInv, FutureUntouched, TypeOK
<1>11. QED
  BY <1>3, <1>4, <1>7, <1>8, <1>9, <1>10 DEF IInv

-----------------------------------------------------------------------------
(* One lemma per operation: what it records.                               *)

AfterMint(account, amount) == [Holdings EXCEPT ![account] = @ + amount]
AfterBurn(account, amount) == [Holdings EXCEPT ![account] = @ - amount]
AfterTransfer(from, to, amount) ==
  [[Holdings EXCEPT ![from] = @ - amount] EXCEPT ![to] = @ + amount]
AfterImport(accounts, target) ==
  [a \in Account |-> IF a \in accounts THEN target[a] ELSE Holdings[a]]

(* One account's balance is replaced.                                      *)
LEMMA OneRecord ==
  ASSUME IInv, NEW account \in Account, NEW n \in Nat,
         totalSupply - Holdings[account] + n <= SupplyCap,
         balances' = [balances EXCEPT ![account] = Checkpoint(@, n)],
         totalSupplyOnPeriod' = [totalSupplyOnPeriod EXCEPT
           ![currentPeriodId] = totalSupply - Holdings[account] + n],
         UNCHANGED <<currentPeriodId, authorizedBrokers, authorizedToSnapshot, isInitialized>>
  PROVE  Records([Holdings EXCEPT ![account] = n])
<1> DEFINE after == [Holdings EXCEPT ![account] = n]
<1>1. /\ Holdings \in [Account -> Nat] /\ totalSupply \in Nat
      /\ currentPeriodId \in PeriodId
  BY HoldingsType DEF IInv
<1>2. totalSupply = SumOf(Holdings)
  BY DEF IInv, SupplyIsSumOfBalances, Holdings
<1>3. SumOf(after) = totalSupply - Holdings[account] + n
  BY <1>1, <1>2, AccountAssumption, SumOfUpdate
<1>4. Holdings[account] \in Nat /\ Holdings[account] <= totalSupply
  BY <1>1, <1>2, AccountAssumption, SumOfBound
<1>5. n < Uint128 /\ SumOf(after) \in 0 .. SupplyCap
  BY <1>1, <1>3, <1>4, CapAssumption
<1>6. \A a \in Account : /\ balances[a] \in Seq(PeriodBalance)
                        /\ Ordered(balances[a], currentPeriodId)
                        /\ Latest(balances[a]) = Holdings[a]
  BY DEF IInv, TypeOK, HistoryOrdered, Holdings, balanceOf
<1>7. balances \in [Account -> Seq(PeriodBalance)]
  BY DEF IInv, TypeOK
<1>8. /\ Extends(Checkpoint(balances[account], n), balances[account])
      /\ Latest(Checkpoint(balances[account], n)) = n
  BY <1>1, <1>5, <1>6, CheckpointExtends
<1>9. \A a \in Account : /\ Extends(balances'[a], balances[a])
                        /\ Latest(balances'[a]) = after[a]
  BY <1>1, <1>6, <1>7, <1>8, ExtendsReflexive
<1>10. balances' \in [Account -> Seq(PeriodBalance)]
  BY <1>7, <1>8 DEF Extends
<1>11. QED
  BY <1>3, <1>5, <1>9, <1>10 DEF Records

LEMMA MintRecords ==
  ASSUME IInv, NEW account \in Account, NEW amount \in Amount, mintShare(account, amount)
  PROVE  AfterMint(account, amount) \in [Account -> Nat] /\ Records(AfterMint(account, amount))
<1> DEFINE n == Holdings[account] + amount
<1>1. /\ Holdings \in [Account -> Nat] /\ totalSupply \in Nat
      /\ Holdings[account] \in Nat /\ amount \in Nat
  BY HoldingsType, AmountAssumption DEF IInv
<1>2. n \in Nat /\ totalSupply - Holdings[account] + n = totalSupply + amount
  BY <1>1
<1>3. Checkpoint(balances[account], n) = _increaseBalance(balances[account], amount)
  BY DEF _increaseBalance, Holdings, balanceOf
<1> HIDE DEF n
<1>4. balances' = [balances EXCEPT ![account] = Checkpoint(@, n)]
  BY <1>3 DEF mintShare
<1>5. totalSupplyOnPeriod' = [totalSupplyOnPeriod EXCEPT
        ![currentPeriodId] = totalSupply - Holdings[account] + n]
  BY <1>2 DEF mintShare, totalSupply
<1>6. Records([Holdings EXCEPT ![account] = n])
  BY <1>1, <1>2, <1>4, <1>5, OneRecord, CapAssumption DEF mintShare
<1>7. QED
  BY <1>1, <1>2, <1>6 DEF AfterMint, n

LEMMA BurnRecords ==
  ASSUME IInv, NEW account \in Account, NEW amount \in Amount, burnShare(account, amount)
  PROVE  AfterBurn(account, amount) \in [Account -> Nat] /\ Records(AfterBurn(account, amount))
<1> DEFINE n == Holdings[account] - amount
<1>1. /\ Holdings \in [Account -> Nat] /\ totalSupply \in Nat
      /\ totalSupply <= SupplyCap /\ SupplyCap \in Nat
      /\ Holdings[account] \in Nat /\ amount \in Nat
  BY HoldingsType, AmountAssumption, CapAssumption DEF IInv
<1>2. Holdings[account] >= amount
  BY DEF burnShare, CanDeduct, Holdings, balanceOf
<1>3. /\ n \in Nat /\ totalSupply - Holdings[account] + n = totalSupply - amount
      /\ totalSupply - amount <= SupplyCap
  BY <1>1, <1>2
<1>4. Checkpoint(balances[account], n) = _deductBalance(balances[account], amount)
  BY DEF _deductBalance, Holdings, balanceOf
<1> HIDE DEF n
<1>5. balances' = [balances EXCEPT ![account] = Checkpoint(@, n)]
  BY <1>4 DEF burnShare
<1>6. totalSupplyOnPeriod' = [totalSupplyOnPeriod EXCEPT
        ![currentPeriodId] = totalSupply - Holdings[account] + n]
  BY <1>3 DEF burnShare, totalSupply
<1>7. Records([Holdings EXCEPT ![account] = n])
  BY <1>1, <1>3, <1>5, <1>6, OneRecord DEF burnShare
<1>8. QED
  BY <1>1, <1>3, <1>7 DEF AfterBurn, n

(* A transfer is two records in a row, the second on what the first left.  *)
LEMMA TransferRecords ==
  ASSUME IInv, NEW broker, NEW from \in Account, NEW to \in Account,
         NEW amount \in Amount, transferFrom(broker, from, to, amount)
  PROVE  AfterTransfer(from, to, amount) \in [Account -> Nat] /\ Records(AfterTransfer(from, to, amount))
<1> DEFINE left     == Holdings[from] - amount
           deducted == [balances EXCEPT ![from] = _deductBalance(@, amount)]
           middle   == [Holdings EXCEPT ![from] = left]
           raised   == middle[to] + amount
           after    == [middle EXCEPT ![to] = raised]
<1>1. /\ Holdings \in [Account -> Nat] /\ totalSupply \in Nat
      /\ totalSupply \in 0 .. SupplyCap /\ currentPeriodId \in PeriodId
      /\ Holdings[from] \in Nat /\ amount \in Nat
  BY HoldingsType, AmountAssumption DEF IInv
<1>2. Holdings[from] >= amount
  BY DEF transferFrom, CanDeduct, Holdings, balanceOf
<1>3. left \in Nat /\ middle \in [Account -> Nat] /\ raised \in Nat /\ middle[to] \in Nat
  BY <1>1, <1>2
<1>4. totalSupply = SumOf(Holdings)
  BY DEF IInv, SupplyIsSumOfBalances, Holdings
<1>5. SumOf(middle) = totalSupply - Holdings[from] + left
  <2>1. Holdings \in [Account -> Nat] /\ left \in Nat
    BY <1>1, <1>3
  <2> HIDE DEF left
  <2>2. SumOf([Holdings EXCEPT ![from] = left]) = SumOf(Holdings) - Holdings[from] + left
    BY <2>1, AccountAssumption, SumOfUpdate
  <2>3. QED
    BY <1>4, <2>2
<1>6. SumOf(after) = SumOf(middle) - middle[to] + raised
  <2> HIDE DEF middle, raised
  <2>1. QED
    BY <1>3, AccountAssumption, SumOfUpdate
<1>7. SumOf(after) = totalSupply
  BY <1>1, <1>3, <1>5, <1>6
<1>8. after \in [Account -> Nat] /\ after[to] = raised
  BY <1>3
<1>9. left <= totalSupply /\ raised <= totalSupply
  <2>1. Holdings[from] <= totalSupply
    BY <1>1, <1>4, AccountAssumption, SumOfBound
  <2>2. after[to] <= SumOf(after)
    BY <1>8, AccountAssumption, SumOfBound
  <2>3. QED
    BY <1>1, <1>3, <1>7, <1>8, <2>1, <2>2
<1>10. left < Uint128 /\ raised < Uint128
  BY <1>1, <1>3, <1>9, CapAssumption
<1>11. \A a \in Account : /\ balances[a] \in Seq(PeriodBalance)
                         /\ Ordered(balances[a], currentPeriodId)
                         /\ Latest(balances[a]) = Holdings[a]
  BY DEF IInv, TypeOK, HistoryOrdered, Holdings, balanceOf
<1>12. balances \in [Account -> Seq(PeriodBalance)]
  BY DEF IInv, TypeOK
<1>13. _deductBalance(balances[from], amount) = Checkpoint(balances[from], left)
  BY DEF _deductBalance, Holdings, balanceOf
<1>14. /\ Extends(Checkpoint(balances[from], left), balances[from])
       /\ Latest(Checkpoint(balances[from], left)) = left
  BY <1>1, <1>3, <1>10, <1>11, CheckpointExtends
<1>15. \A a \in Account : /\ Extends(deducted[a], balances[a])
                         /\ Latest(deducted[a]) = middle[a]
  BY <1>1, <1>11, <1>12, <1>13, <1>14, ExtendsReflexive
<1>16. DOMAIN deducted = Account
  BY <1>12
<1>17. balances' = [deducted EXCEPT ![to] = _increaseBalance(@, amount)]
  BY DEF transferFrom
<1> HIDE DEF deducted, middle, left
<1>18. _increaseBalance(deducted[to], amount) = Checkpoint(deducted[to], raised)
  BY <1>15 DEF _increaseBalance
<1>19. deducted[to] \in Seq(PeriodBalance) /\ Ordered(deducted[to], currentPeriodId)
  BY <1>15 DEF Extends
<1> HIDE DEF raised
<1>20. /\ Extends(Checkpoint(deducted[to], raised), deducted[to])
       /\ Latest(Checkpoint(deducted[to], raised)) = raised
  BY <1>1, <1>3, <1>10, <1>19, CheckpointExtends
<1>21. Extends(Checkpoint(deducted[to], raised), balances[to])
  BY <1>15, <1>20, ExtendsTransitive
<1>22. \A a \in Account : /\ Extends(balances'[a], balances[a])
                         /\ Latest(balances'[a]) = after[a]
  BY <1>3, <1>15, <1>16, <1>17, <1>18, <1>20, <1>21
<1>23. balances' \in [Account -> Seq(PeriodBalance)]
  <2>1. \A a \in Account : balances'[a] \in Seq(PeriodBalance)
    BY <1>22 DEF Extends
  <2>2. balances' = [a \in Account |-> balances'[a]]
    BY <1>16, <1>17
  <2>3. QED
    BY <2>1, <2>2
<1>24. totalSupplyOnPeriod'
         = [totalSupplyOnPeriod EXCEPT ![currentPeriodId] = SumOf(after)]
  BY <1>7 DEF transferFrom, totalSupply, IInv, TypeOK
<1>25. SumOf(after) \in 0 .. SupplyCap
  BY <1>1, <1>7
<1>26. UNCHANGED <<currentPeriodId, authorizedBrokers, authorizedToSnapshot, isInitialized>>
  BY DEF transferFrom
<1> HIDE DEF after
<1>27. Records(after)
  BY <1>22, <1>23, <1>24, <1>25, <1>26 DEF Records
<1>28. QED
  BY <1>8, <1>27 DEF AfterTransfer, after, middle, raised, left

(* An import records the target of each listed account; the supply is      *)
(* moved by the difference of two partial sums.                            *)
LEMMA ImportRecords ==
  ASSUME IInv, NEW accounts \in SUBSET Account, NEW target \in [accounts -> Amount],
         importAddresses(accounts, target)
  PROVE  AfterImport(accounts, target) \in [Account -> Nat] /\ Records(AfterImport(accounts, target))
<1> DEFINE after  == [a \in Account |-> IF a \in accounts THEN target[a] ELSE Holdings[a]]
           supply == totalSupply + SumOver(target, accounts) - SumOver(Holdings, accounts)
<1>1. /\ Holdings \in [Account -> Nat] /\ totalSupply \in Nat
      /\ currentPeriodId \in PeriodId
  BY HoldingsType DEF IInv
<1>2. after \in [Account -> Nat]
  BY <1>1, AmountAssumption
<1>3. totalSupply = SumOver(Holdings, Account)
  BY <1>1 DEF IInv, SupplyIsSumOfBalances, Holdings, SumOf
<1>4. SumOver(after, accounts) = SumOver(target, accounts)
  <2>1. \A a \in accounts : after[a] = target[a]
    OBVIOUS
  <2>2. QED
    BY <2>1, SumOverAgree
<1>5. SumOver(after, Account \ accounts) = SumOver(Holdings, Account \ accounts)
  <2>1. \A a \in Account \ accounts : after[a] = Holdings[a]
    OBVIOUS
  <2>2. QED
    BY <2>1, SumOverAgree
<1>6. DOMAIN after = Account
  OBVIOUS
<1> HIDE DEF after
<1>7. /\ SumOver(after, Account) = SumOver(after, accounts) + SumOver(after, Account \ accounts)
      /\ SumOver(Holdings, Account)
           = SumOver(Holdings, accounts) + SumOver(Holdings, Account \ accounts)
  BY <1>1, <1>2, AccountAssumption, SumOverPart
<1>8. /\ SumOver(after, Account) \in Nat
      /\ SumOver(after, accounts) \in Nat
      /\ SumOver(Holdings, accounts) \in Nat
      /\ SumOver(Holdings, Account \ accounts) \in Nat
  <2>1. Account \in SUBSET Account /\ Account \ accounts \in SUBSET Account
    OBVIOUS
  <2>2. QED
    BY <1>1, <1>2, <2>1, AccountAssumption, SumOverType
<1>9. SumOf(after) = supply
  BY <1>1, <1>3, <1>4, <1>5, <1>6, <1>7, <1>8 DEF SumOf
<1>10. supply <= SupplyCap /\ supply \in Nat
  <2>1. supply <= SupplyCap
    BY DEF importAddresses, Holdings
  <2>2. QED
    BY <1>6, <1>8, <1>9, <2>1 DEF SumOf
<1>11. \A a \in accounts : target[a] \in Nat /\ target[a] < Uint128
  <2> TAKE a \in accounts
  <2>1. after[a] <= SumOf(after)
    BY <1>2, AccountAssumption, SumOfBound
  <2>2. after[a] = target[a] /\ target[a] \in Nat
    BY AmountAssumption DEF after
  <2>3. QED
    BY <1>9, <1>10, <2>1, <2>2, CapAssumption
<1>12. \A a \in Account : /\ balances[a] \in Seq(PeriodBalance)
                         /\ Ordered(balances[a], currentPeriodId)
                         /\ Latest(balances[a]) = Holdings[a]
  BY DEF IInv, TypeOK, HistoryOrdered, Holdings, balanceOf
<1>13. balances' = [a \in Account |-> IF a \in accounts /\ balanceOf(a) # target[a]
                                       THEN Checkpoint(balances[a], target[a])
                                       ELSE balances[a]]
  BY DEF importAddresses
<1>14. \A a \in Account : /\ Extends(balances'[a], balances[a])
                         /\ Latest(balances'[a]) = after[a]
  <2> TAKE a \in Account
  <2>1. CASE a \in accounts /\ balanceOf(a) # target[a]
    <3>1. balances'[a] = Checkpoint(balances[a], target[a])
      BY <1>13, <2>1
    <3>2. /\ Extends(Checkpoint(balances[a], target[a]), balances[a])
          /\ Latest(Checkpoint(balances[a], target[a])) = target[a]
      BY <1>1, <1>11, <1>12, <2>1, CheckpointExtends
    <3>3. QED
      BY <2>1, <3>1, <3>2 DEF after
  <2>2. CASE ~(a \in accounts /\ balanceOf(a) # target[a])
    <3>1. balances'[a] = balances[a]
      BY <1>13, <2>2
    <3>2. after[a] = Holdings[a]
      BY <2>2 DEF after, Holdings
    <3>3. QED
      BY <1>12, <3>1, <3>2, ExtendsReflexive
  <2>3. QED
    BY <2>1, <2>2
<1>15. balances' \in [Account -> Seq(PeriodBalance)]
  <2>1. \A a \in Account : balances'[a] \in Seq(PeriodBalance)
    BY <1>14 DEF Extends
  <2>2. QED
    BY <1>13, <2>1
<1>16. totalSupplyOnPeriod'
         = [totalSupplyOnPeriod EXCEPT ![currentPeriodId] = SumOf(after)]
  BY <1>9 DEF importAddresses, Holdings
<1>17. UNCHANGED <<currentPeriodId, authorizedBrokers, authorizedToSnapshot, isInitialized>>
  BY DEF importAddresses
<1>18. SumOf(after) \in 0 .. SupplyCap
  BY <1>9, <1>10, CapAssumption
<1>19. Records(after)
  BY <1>14, <1>15, <1>16, <1>17, <1>18 DEF Records
<1>20. QED
  BY <1>2, <1>19 DEF AfterImport, after

(* A snapshot opens a period with the supply of the one before.            *)
LEMMA SnapshotPreserves ==
  ASSUME IInv, NEW sender, NEW id \in PeriodId, takeSnapshot(sender, id)
  PROVE  IInv' /\ Frozen
<1> USE DEF takeSnapshot
<1>1. /\ currentPeriodId \in PeriodId /\ totalSupply \in 0 .. SupplyCap
      /\ PeriodId \subseteq Nat /\ currentPeriodId < id
  BY HoldingsType, PeriodAssumption DEF IInv, PeriodId
<1>2. totalSupply' = totalSupply
  BY <1>1 DEF totalSupply, IInv, TypeOK
<1>3. TypeOK'
  BY <1>1 DEF IInv, TypeOK
<1>4. \A a \in Account : balances[a] \in Seq(PeriodBalance)
  BY DEF IInv, TypeOK
<1>5. \A a \in Account : \A i \in DOMAIN balances[a] :
        /\ balances[a][i].periodId \in Nat
        /\ balances[a][i].periodId <= currentPeriodId
        /\ balances[a][i].periodId < id
  BY <1>1, <1>4, EntryType DEF IInv, HistoryOrdered, Ordered
<1>6. HistoryOrdered'
  BY <1>1, <1>5 DEF IInv, HistoryOrdered, Ordered
<1>7. SupplyIsSumOfBalances'
  BY <1>2 DEF IInv, SupplyIsSumOfBalances, balanceOf
<1>8. PeriodSupplyIsSum'
  <2> SUFFICES ASSUME NEW p \in PeriodId,
                      \/ totalSupplyOnPeriod'[p] # 0
                      \/ \E a \in Account : \E i \in DOMAIN balances[a] :
                           balances[a][i].periodId = p
               PROVE  totalSupplyOnPeriod'[p]
                        = SumOf([a \in Account |-> BalanceAt(balances[a], p)])
    BY DEF PeriodSupplyIsSum
  <2>1. CASE p = id
    <3>1. \A a \in Account : \A i \in DOMAIN balances[a] : balances[a][i].periodId <= id
      BY <1>1, <1>5
    <3>2. \A a \in Account : BalanceAt(balances[a], id) = Latest(balances[a])
      BY <1>1, <1>4, <3>1, BalanceAtCurrent
    <3>3. [a \in Account |-> BalanceAt(balances[a], id)] = [a \in Account |-> balanceOf(a)]
      BY <3>2 DEF balanceOf
    <3>4. totalSupplyOnPeriod'[p] = totalSupply
      BY <2>1 DEF IInv, TypeOK
    <3>5. QED
      BY <2>1, <3>3, <3>4 DEF IInv, SupplyIsSumOfBalances
  <2>2. CASE p # id
    <3>1. totalSupplyOnPeriod'[p] = totalSupplyOnPeriod[p]
      BY <2>2 DEF IInv, TypeOK
    <3>2. QED
      BY <3>1 DEF IInv, PeriodSupplyIsSum
  <2>3. QED
    BY <2>1, <2>2
<1>9. FutureUntouched'
  BY <1>1 DEF IInv, FutureUntouched, TypeOK
<1>10. Frozen
  BY <1>1 DEF Frozen, IInv, TypeOK
<1>11. QED
  BY <1>3, <1>6, <1>7, <1>8, <1>9, <1>10 DEF IInv

(* The other operations, and stuttering, touch no balance and no supply.   *)
LEMMA OthersPreserve ==
  ASSUME IInv, authorizedBrokers' \subseteq Operator, authorizedToSnapshot' \subseteq Operator,
         isInitialized' \in BOOLEAN,
         UNCHANGED <<balances, totalSupplyOnPeriod, currentPeriodId>>
  PROVE  IInv' /\ Frozen
BY DEF IInv, Frozen, TypeOK, HistoryOrdered, SupplyIsSumOfBalances, PeriodSupplyIsSum,
       FutureUntouched, totalSupply, balanceOf

LEMMA StepPreserves ==
  ASSUME IInv, [Next]_vars
  PROVE  IInv' /\ Frozen
<1>1. ASSUME NEW target \in Operator,
             \/ addAuthorizedBroker(target) \/ removeAuthorizedBroker(target)
             \/ addAuthorizedToSnapshot(target) \/ removeAuthorizedToSnapshot(target)
      PROVE  IInv' /\ Frozen
  <2>1. /\ authorizedBrokers' \subseteq Operator /\ authorizedToSnapshot' \subseteq Operator
        /\ isInitialized' \in BOOLEAN
        /\ UNCHANGED <<balances, totalSupplyOnPeriod, currentPeriodId>>
    BY <1>1 DEF IInv, TypeOK, addAuthorizedBroker, removeAuthorizedBroker,
                addAuthorizedToSnapshot, removeAuthorizedToSnapshot
  <2>2. QED
    BY <2>1, OthersPreserve
<1>2. ASSUME NEW sender \in Operator \cup {Issuer}, NEW id \in PeriodId,
             takeSnapshot(sender, id)
      PROVE  IInv' /\ Frozen
  BY <1>2, SnapshotPreserves
<1>3. ASSUME NEW account \in Account, NEW amount \in Amount, mintShare(account, amount)
      PROVE  IInv' /\ Frozen
  BY <1>3, MintRecords, RecordsPreserves
<1>4. ASSUME NEW account \in Account, NEW amount \in Amount, burnShare(account, amount)
      PROVE  IInv' /\ Frozen
  BY <1>4, BurnRecords, RecordsPreserves
<1>5. ASSUME NEW broker \in Operator, NEW from \in Account, NEW to \in Account,
             NEW amount \in Amount, transferFrom(broker, from, to, amount)
      PROVE  IInv' /\ Frozen
  BY <1>5, TransferRecords, RecordsPreserves
<1>6. ASSUME NEW accounts \in SUBSET Account, NEW target \in [accounts -> Amount],
             importAddresses(accounts, target)
      PROVE  IInv' /\ Frozen
  BY <1>6, ImportRecords, RecordsPreserves
<1>7. CASE finishSetup \/ UNCHANGED vars
  <2>1. /\ authorizedBrokers' \subseteq Operator /\ authorizedToSnapshot' \subseteq Operator
        /\ isInitialized' \in BOOLEAN
        /\ UNCHANGED <<balances, totalSupplyOnPeriod, currentPeriodId>>
    BY <1>7 DEF IInv, TypeOK, finishSetup, vars
  <2>2. QED
    BY <2>1, OthersPreserve
<1>8. QED
  BY <1>1, <1>2, <1>3, <1>4, <1>5, <1>6, <1>7 DEF Next

-----------------------------------------------------------------------------
THEOREM IInvInvariant == Spec => []IInv
<1>1. Init => IInv
  BY InitIInv
<1>2. IInv /\ [Next]_vars => IInv'
  BY StepPreserves
<1>3. QED
  BY <1>1, <1>2, PTL DEF Spec

(* The contract's state keeps its types.                                   *)
THEOREM TypeCorrect == Spec => []TypeOK
<1>1. IInv => TypeOK
  BY DEF IInv
<1>2. QED
  BY <1>1, IInvInvariant, PTL

(* The supply of shares is always the sum of the balances, whatever mints, *)
(* burns, transfers, imports and snapshots have happened.                  *)
THEOREM SupplyCorrect == Spec => []SupplyIsSumOfBalances
<1>1. IInv => SupplyIsSumOfBalances
  BY DEF IInv
<1>2. QED
  BY <1>1, IInvInvariant, PTL

(* The supply recorded for a past period is the sum of what the accounts   *)
(* owned in it.                                                            *)
THEOREM PeriodSupplyCorrect == Spec => []PeriodSupplyIsSum
<1>1. IInv => PeriodSupplyIsSum
  BY DEF IInv
<1>2. QED
  BY <1>1, IInvInvariant, PTL

(* No operation changes what an account owned in a closed period.          *)
THEOREM ClosedPeriodsStayFrozen == Spec => ClosedPeriodsFrozen
<1>1. IInv /\ [Next]_vars =>
        [\A p \in PeriodId : p < currentPeriodId =>
           /\ totalSupplyOnPeriod'[p] = totalSupplyOnPeriod[p]
           /\ \A a \in Account :
                BalanceAt(balances'[a], p) = BalanceAt(balances[a], p)]_vars
  BY StepPreserves DEF Frozen
<1>2. QED
  BY <1>1, IInvInvariant, PTL DEF Spec, ClosedPeriodsFrozen

(* The bounded scan is exact or fails.                                     *)
LEMMA ScanExact == ASSUME IInv PROVE ScanIsExactOrReverts
<1> SUFFICES ASSUME NEW a \in Account, NEW p \in PeriodId
             PROVE  balanceOfOnPeriod(a, p) \in {BalanceAt(balances[a], p), Reverts}
  BY DEF ScanIsExactOrReverts
<1> DEFINE h       == balances[a]
           oldest  == IF MaxPeriodIterate < Len(h) THEN Len(h) - MaxPeriodIterate + 1 ELSE 1
           visible == {i \in oldest .. Len(h) : h[i].periodId <= p}
<1>1. h \in Seq(PeriodBalance) /\ Len(h) \in Nat /\ p \in Nat
  BY PeriodAssumption DEF IInv, TypeOK, PeriodId
<1>2. oldest \in Nat /\ oldest >= 1
  BY <1>1, IterateAssumption
<1>3. CASE visible # {}
  <2>1. visible \in SUBSET (1 .. Len(h))
    BY <1>1, <1>2
  <2>2. PICK k \in visible : \A j \in visible : j <= k
    BY <1>1, <1>3, <2>1, LargestExists
  <2>3. k \in DOMAIN h /\ h[k].periodId <= p /\ k >= oldest /\ k \in Int
    BY <1>1, <2>1
  <2>4. \A j \in DOMAIN h : h[j].periodId <= p => j <= k
    <3> TAKE j \in DOMAIN h
    <3> HAVE h[j].periodId <= p
    <3>1. j \in Nat /\ j <= Len(h)
      BY <1>1
    <3>2. CASE j >= oldest
      BY <1>1, <1>2, <2>2, <3>1, <3>2
    <3>3. CASE j < oldest
      BY <1>2, <2>3, <3>1, <3>3
    <3>4. QED
      BY <1>2, <3>1, <3>2, <3>3
  <2>5. BalanceAt(h, p) = h[k].amount
    <3>1. InForce(h, p, k) /\ DOMAIN h \subseteq Int
      BY <1>1, <2>3, <2>4 DEF InForce
    <3>2. QED
      BY <2>3, <3>1, BalanceAtIs
  <2>6. (CHOOSE i \in visible : \A j \in visible : j <= i) = k
    <3>1. \A i \in visible : (\A j \in visible : j <= i) => i = k
      BY <2>1, <2>2, <2>3
    <3> HIDE DEF visible
    <3>2. QED
      BY <2>2, <3>1
  <2>7. balanceOfOnPeriod(a, p)
          = h[CHOOSE i \in visible : \A j \in visible : j <= i].amount
    BY <1>3 DEF balanceOfOnPeriod
  <2> HIDE DEF visible
  <2>8. QED
    BY <2>5, <2>6, <2>7
<1>4. CASE visible = {} /\ oldest = 1
  <2>1. ~ \E i \in DOMAIN h : h[i].periodId <= p
    BY <1>1, <1>4
  <2>2. BalanceAt(h, p) = 0
    BY <2>1 DEF BalanceAt
  <2>3. balanceOfOnPeriod(a, p) = 0
    BY <1>4 DEF balanceOfOnPeriod
  <2>4. QED
    BY <2>2, <2>3
<1>5. CASE visible = {} /\ oldest # 1
  BY <1>5 DEF balanceOfOnPeriod
<1>6. QED
  BY <1>3, <1>4, <1>5

(* The bounded scan is exact or fails, whatever its length.                *)
THEOREM ScanCorrect == Spec => []ScanIsExactOrReverts
<1>1. IInv => ScanIsExactOrReverts
  BY ScanExact
<1>2. QED
  BY <1>1, IInvInvariant, PTL

-----------------------------------------------------------------------------
(* The contract implements the book.                                       *)

LEMMA CurrentPage ==
  ASSUME IInv
  PROVE  /\ Pages[currentPeriodId] = Holdings
         /\ \A p \in PeriodId : p >= currentPeriodId => Pages[p] = Holdings
<1>1. currentPeriodId \in PeriodId /\ PeriodId \subseteq Nat
  BY PeriodAssumption DEF IInv, TypeOK, PeriodId
<1>2. ASSUME NEW p \in PeriodId, p >= currentPeriodId
      PROVE  Pages[p] = Holdings
  <2>1. ASSUME NEW a \in Account
        PROVE  BalanceAt(balances[a], p) = balanceOf(a)
    <3>1. balances[a] \in Seq(PeriodBalance) /\ Ordered(balances[a], currentPeriodId)
      BY DEF IInv, TypeOK, HistoryOrdered
    <3>2. \A i \in DOMAIN balances[a] : balances[a][i].periodId <= p
      <4> TAKE i \in DOMAIN balances[a]
      <4>1. balances[a][i].periodId \in Nat /\ balances[a][i].periodId <= currentPeriodId
        BY <3>1, EntryType DEF Ordered
      <4>2. QED
        BY <1>1, <1>2, <4>1
    <3>3. QED
      BY <1>1, <3>1, <3>2, BalanceAtCurrent DEF balanceOf
  <2>2. QED
    BY <2>1 DEF Pages, Holdings
<1>3. QED
  BY <1>1, <1>2

(* A step that records holdings writes them on the current and later pages.*)
LEMMA RecordsWrites ==
  ASSUME IInv, NEW holdings \in [Account -> Nat], Records(holdings)
  PROVE  Book!Write(holdings)
<1>1. IInv' /\ Frozen /\ UNCHANGED currentPeriodId
  BY RecordsPreserves DEF Records
<1>2. currentPeriodId \in PeriodId /\ PeriodId \subseteq Nat /\ SupplyCap \in Nat
  BY PeriodAssumption, CapAssumption DEF IInv, TypeOK, PeriodId
<1>3. SumOf(holdings) <= SupplyCap /\ SumOf(holdings) \in Nat
  BY AccountAssumption, SumOfType, CapAssumption DEF Records
<1>4. holdings \in [Account -> 0 .. SupplyCap]
  <2>1. \A a \in Account : holdings[a] <= SumOf(holdings)
    BY AccountAssumption, SumOfBound
  <2>2. \A a \in Account : holdings[a] \in 0 .. SupplyCap
    BY <1>2, <1>3, <2>1
  <2>3. QED
    BY <2>2
<1>5. \A p \in PeriodId : p >= currentPeriodId =>
        \A a \in Account : BalanceAt(balances'[a], p) = holdings[a]
  <2> TAKE p \in PeriodId
  <2> HAVE p >= currentPeriodId
  <2> TAKE a \in Account
  <2>1. /\ balances'[a] \in Seq(PeriodBalance) /\ Ordered(balances'[a], currentPeriodId)
        /\ Latest(balances'[a]) = holdings[a]
    BY DEF Records, Extends
  <2>2. \A i \in DOMAIN balances'[a] : balances'[a][i].periodId <= p
    <3> TAKE i \in DOMAIN balances'[a]
    <3>1. balances'[a][i].periodId \in Nat /\ balances'[a][i].periodId <= currentPeriodId
      BY <2>1, EntryType DEF Ordered
    <3>2. QED
      BY <1>2, <3>1
  <2>3. QED
    BY <1>2, <2>1, <2>2, BalanceAtCurrent
<1>6. \A p \in PeriodId : p >= currentPeriodId => Pages'[p] = holdings
  BY <1>5 DEF Pages
<1>7. \A p \in PeriodId : p < currentPeriodId => Pages'[p] = Pages[p]
  BY <1>1 DEF Frozen, Pages
<1>8. Pages' = [p \in PeriodId |-> IF p < currentPeriodId THEN Pages[p] ELSE holdings]
  <2>1. \A p \in PeriodId :
          Pages'[p] = IF p < currentPeriodId THEN Pages[p] ELSE holdings
    BY <1>2, <1>6, <1>7
  <2>2. Pages' = [p \in PeriodId |-> Pages'[p]]
    BY DEF Pages
  <2>3. QED
    BY <2>1, <2>2
<1>9. Book!PeriodId = PeriodId /\ holdings \in Holding
  BY <1>3, <1>4 DEF Book!PeriodId, PeriodId, Holding
<1>10. QED
  BY <1>1, <1>8, <1>9 DEF Book!Write

LEMMA InitImplements == Init => Book!Init
<1> SUFFICES ASSUME Init PROVE Book!Init
  OBVIOUS
<1>1. \A a \in Account, p \in PeriodId : BalanceAt(balances[a], p) = 0
  BY DEF Init, BalanceAt
<1>2. QED
  BY <1>1 DEF Init, Pages, Book!Init, Book!PeriodId, PeriodId

LEMMA StepImplements ==
  ASSUME IInv, [Next]_vars
  PROVE  [Book!Next]_(Book!vars)
<1>1. Pages[currentPeriodId] = Holdings /\ currentPeriodId \in PeriodId
  BY CurrentPage DEF IInv, TypeOK
<1>2. ASSUME NEW account \in Account, NEW amount \in Amount, mintShare(account, amount)
      PROVE  Book!Next
  <2>1. Book!Write(AfterMint(account, amount)) /\ UNCHANGED isInitialized
    BY <1>2, MintRecords, RecordsWrites DEF mintShare
  <2>2. Book!Mint(account, amount)
    BY <1>1, <2>1 DEF Book!Mint, AfterMint
  <2>3. QED
    BY <2>2 DEF Book!Next
<1>3. ASSUME NEW account \in Account, NEW amount \in Amount, burnShare(account, amount)
      PROVE  Book!Next
  <2>1. Book!Write(AfterBurn(account, amount)) /\ UNCHANGED isInitialized
    BY <1>3, BurnRecords, RecordsWrites DEF burnShare
  <2>2. Book!Burn(account, amount)
    BY <1>1, <2>1 DEF Book!Burn, AfterBurn
  <2>3. QED
    BY <2>2 DEF Book!Next
<1>4. ASSUME NEW broker \in Operator, NEW from \in Account, NEW to \in Account,
             NEW amount \in Amount, transferFrom(broker, from, to, amount)
      PROVE  Book!Next
  <2>1. Book!Write(AfterTransfer(from, to, amount)) /\ UNCHANGED isInitialized
    BY <1>4, TransferRecords, RecordsWrites DEF transferFrom
  <2>2. Holdings[from] >= amount
    BY <1>4 DEF transferFrom, CanDeduct, Holdings, balanceOf
  <2>3. Book!Move(from, to, amount)
    BY <1>1, <2>1, <2>2 DEF Book!Move, AfterTransfer
  <2>4. QED
    BY <2>3 DEF Book!Next
<1>5. ASSUME NEW accounts \in SUBSET Account, NEW target \in [accounts -> Amount],
             importAddresses(accounts, target)
      PROVE  Book!Next
  <2>1. Book!Write(AfterImport(accounts, target))
    BY <1>5, ImportRecords, RecordsWrites
  <2>2. ~isInitialized /\ UNCHANGED isInitialized
    BY <1>5 DEF importAddresses
  <2>3. Book!Import(AfterImport(accounts, target))
    BY <2>1, <2>2 DEF Book!Import
  <2>4. AfterImport(accounts, target) \in Holding
    BY <2>1 DEF Book!Write
  <2>5. QED
    BY <2>3, <2>4 DEF Book!Next
<1>6. ASSUME NEW sender, NEW id \in PeriodId, takeSnapshot(sender, id)
      PROVE  Book!Next
  <2>1. Book!ClosePeriod(id)
    BY <1>6 DEF takeSnapshot, Pages, Book!ClosePeriod
  <2>2. QED
    BY <2>1 DEF Book!Next, Book!PeriodId, PeriodId
<1>7. CASE finishSetup
  <2>1. Book!CloseImport
    BY <1>7 DEF finishSetup, Pages, Book!CloseImport
  <2>2. QED
    BY <2>1 DEF Book!Next
<1>8. ASSUME \/ \E target \in Operator :
                  \/ addAuthorizedBroker(target) \/ removeAuthorizedBroker(target)
                  \/ addAuthorizedToSnapshot(target) \/ removeAuthorizedToSnapshot(target)
             \/ UNCHANGED vars
      PROVE  UNCHANGED Book!vars
  BY <1>8 DEF vars, Book!vars, Pages, addAuthorizedBroker, removeAuthorizedBroker,
              addAuthorizedToSnapshot, removeAuthorizedToSnapshot
<1>9. QED
  BY <1>2, <1>3, <1>4, <1>5, <1>6, <1>7, <1>8 DEF Next

(* Every behaviour of the contract is a behaviour of the book.             *)
THEOREM BookImplemented == Spec => ImplementsBook
<1>1. Init => Book!Init
  BY InitImplements
<1>2. IInv /\ [Next]_vars => [Book!Next]_(Book!vars)
  BY StepImplements
<1>3. QED
  BY <1>1, <1>2, IInvInvariant, PTL DEF Spec, ImplementsBook, Book!Spec

-----------------------------------------------------------------------------
(* The ring.                                                               *)

\* The current period and the one to claim from.
Current == Recent(0)
Closing == Recent(1)

LEMMA RingSlots ==
  ASSUME NEW c \in Index
  PROVE  /\ (c + 0) % FEE_PERIOD_LENGTH = c
         /\ (c + 1) % FEE_PERIOD_LENGTH = 1 - c
         /\ (c + FEE_PERIOD_LENGTH - 1) % FEE_PERIOD_LENGTH = 1 - c
         /\ 1 - c \in Index /\ 1 - c # c
<1>1. c = 0 \/ c = 1
  BY DEF Index, FEE_PERIOD_LENGTH
<1>2. 0 % 2 = 0 /\ 1 % 2 = 1 /\ 2 % 2 = 0
  OBVIOUS
<1>3. FEE_PERIOD_LENGTH = 2 /\ 0 \in Index /\ 1 \in Index
  BY DEF Index, FEE_PERIOD_LENGTH
<1>4. CASE c = 0
  <2>1. c + 0 = 0 /\ c + 1 = 1 /\ c + FEE_PERIOD_LENGTH - 1 = 1 /\ 1 - c = 1
    BY <1>3, <1>4
  <2>2. QED
    BY <1>2, <1>3, <1>4, <2>1
<1>5. CASE c = 1
  <2>1. c + 0 = 1 /\ c + 1 = 2 /\ c + FEE_PERIOD_LENGTH - 1 = 2 /\ 1 - c = 0
    BY <1>3, <1>5
  <2>2. QED
    BY <1>2, <1>3, <1>5, <2>1
<1>6. QED
  BY <1>1, <1>4, <1>5

LEMMA RecentAre ==
  ASSUME currentFeePeriod \in Index
  PROVE  /\ Slot(0) = currentFeePeriod
         /\ Slot(1) = 1 - currentFeePeriod
         /\ Slot(0) \in Index /\ Slot(1) \in Index /\ Slot(0) # Slot(1)
         /\ Current = recentFeePeriods[currentFeePeriod]
         /\ Closing = recentFeePeriods[1 - currentFeePeriod]
BY RingSlots DEF Slot, Recent, Current, Closing

LEMMA RecentAreNext ==
  ASSUME currentFeePeriod' \in Index
  PROVE  /\ Current' = recentFeePeriods'[currentFeePeriod']
         /\ Closing' = recentFeePeriods'[1 - currentFeePeriod']
BY RingSlots DEF Slot, Recent, Current, Closing

(* The pool's part of the state has its types.                             *)
PoolTypes ==
  /\ now \in 2 .. MaxPeriodId
  /\ recentFeePeriods \in [Index -> FeePeriod]
  /\ currentFeePeriod \in Index
  /\ lastFeeWithdrawal \in [Account -> 0 .. MaxPeriodId]
  /\ escrowTokens \in 0 .. RewardCap
  /\ escrowed \in [Account -> Nat]

LEMMA PeriodFields ==
  ASSUME PoolTypes, NEW period \in {Current, Closing}
  PROVE  /\ period \in FeePeriod
         /\ period.feePeriodId \in Nat /\ period.startTime \in Nat
         /\ period.feesToDistribute \in Nat /\ period.feesClaimed \in Nat
         /\ period.rewardsToDistribute \in Nat /\ period.rewardsClaimed \in Nat
<1>1. period \in FeePeriod
  BY RecentAre DEF PoolTypes
<1>2. QED
  BY <1>1 DEF FeePeriod

-----------------------------------------------------------------------------
(* What each step makes of the current period and of the closed one.       *)

LEMMA StayRing ==
  ASSUME PoolTypes, UNCHANGED <<recentFeePeriods, currentFeePeriod>>
  PROVE  Current' = Current /\ Closing' = Closing
BY RecentAre, RecentAreNext DEF PoolTypes

LEMMA FeePaidRing ==
  ASSUME PoolTypes, NEW n \in Nat, recordFeePaid(n)
  PROVE  /\ recentFeePeriods' \in [Index -> FeePeriod]
         /\ Current' = [Current EXCEPT !.feesToDistribute = @ + n]
         /\ Closing' = Closing
<1>1. PICK c \in Index : c = currentFeePeriod
  BY DEF PoolTypes
<1>2. PICK d \in Index : d = 1 - currentFeePeriod
  BY RecentAre DEF PoolTypes
<1>3. Slot(0) = c /\ Slot(1) = d /\ c # d /\ Current = recentFeePeriods[c] /\ Closing = recentFeePeriods[d]
  BY <1>1, <1>2, RecentAre DEF PoolTypes
<1>4. PICK p \in FeePeriod : p = [Current EXCEPT !.feesToDistribute = @ + n]
  <2>1. Current \in FeePeriod /\ Current.feesToDistribute + n \in Nat
    BY PeriodFields
  <2>2. QED
    BY <2>1 DEF FeePeriod
<1>5. recentFeePeriods' = [recentFeePeriods EXCEPT ![c] = p]
  BY <1>3, <1>4 DEF recordFeePaid
<1>6. currentFeePeriod' = c
  BY <1>1 DEF recordFeePaid
<1>7. QED
  BY <1>1, <1>2, <1>3, <1>4, <1>5, <1>6, RecentAreNext DEF PoolTypes

LEMMA DistributeRing ==
  ASSUME PoolTypes, NEW n \in Nat, distributeRewards(n)
  PROVE  /\ recentFeePeriods' \in [Index -> FeePeriod]
         /\ Current' = [Current EXCEPT !.rewardsToDistribute = @ + n]
         /\ Closing' = Closing
<1>1. PICK c \in Index : c = currentFeePeriod
  BY DEF PoolTypes
<1>2. PICK d \in Index : d = 1 - currentFeePeriod
  BY RecentAre DEF PoolTypes
<1>3. Slot(0) = c /\ Slot(1) = d /\ c # d /\ Current = recentFeePeriods[c] /\ Closing = recentFeePeriods[d]
  BY <1>1, <1>2, RecentAre DEF PoolTypes
<1>4. PICK p \in FeePeriod : p = [Current EXCEPT !.rewardsToDistribute = @ + n]
  <2>1. Current \in FeePeriod /\ Current.rewardsToDistribute + n \in Nat
    BY PeriodFields
  <2>2. QED
    BY <2>1 DEF FeePeriod
<1>5. recentFeePeriods' = [recentFeePeriods EXCEPT ![c] = p]
  BY <1>3, <1>4 DEF distributeRewards
<1>6. currentFeePeriod' = c
  BY <1>1 DEF distributeRewards
<1>7. QED
  BY <1>1, <1>2, <1>3, <1>4, <1>5, <1>6, RecentAreNext DEF PoolTypes

\* The period that a close begins.
Begun == [NoPeriod EXCEPT !.feePeriodId = now, !.startTime = now]

LEMMA CloseRing ==
  ASSUME PoolTypes, Closing.rewardsClaimed <= Closing.rewardsToDistribute,
         Closing.feesClaimed <= Closing.feesToDistribute, _closeSecondary
  PROVE  /\ recentFeePeriods' \in [Index -> FeePeriod]
         /\ currentFeePeriod' \in Index /\ currentFeePeriod' # currentFeePeriod
         /\ Current' = Begun
         /\ Closing' = Closed(Current, Closing)
         /\ Closed(Current, Closing) \in FeePeriod
<1>1. PICK c \in Index : c = currentFeePeriod
  BY DEF PoolTypes
<1>2. PICK d \in Index : d = 1 - currentFeePeriod
  BY RecentAre DEF PoolTypes
<1>3. /\ Slot(0) = c /\ Slot(FEE_PERIOD_LENGTH - 1) = d /\ c # d /\ c = 1 - d
      /\ Recent(0) = Current /\ Recent(FEE_PERIOD_LENGTH - 1) = Closing
  <2>1. FEE_PERIOD_LENGTH - 1 = 1 /\ c \in Int
    BY DEF FEE_PERIOD_LENGTH, Index
  <2>2. QED
    BY <1>1, <1>2, <2>1, RecentAre DEF PoolTypes, Current, Closing
<1>4. PICK b \in FeePeriod : b = Begun
  <2>1. now \in Nat
    BY DEF PoolTypes
  <2>2. QED
    BY <2>1 DEF Begun, NoPeriod, FeePeriod
<1>5. PICK p \in FeePeriod : p = Closed(Current, Closing)
  <2>1. PICK fees \in Nat : fees = Closing.feesToDistribute - Closing.feesClaimed + Current.feesToDistribute
    BY PeriodFields
  <2>2. PICK burned \in Nat : burned = IF fees > 0 THEN fees ELSE Current.feesClaimed
    BY PeriodFields
  <2>3. PICK rewards \in Nat :
          rewards = Closing.rewardsToDistribute - Closing.rewardsClaimed + Current.rewardsToDistribute
    BY PeriodFields
  <2>4. Current \in FeePeriod
    BY PeriodFields
  <2>5. Closed(Current, Closing) = [Current EXCEPT !.feesToDistribute = fees, !.feesClaimed = burned,
                                                   !.rewardsToDistribute = rewards]
    BY <2>1, <2>2, <2>3, <2>4 DEF Closed, FeePeriod
  <2>6. QED
    BY <2>4, <2>5 DEF FeePeriod
<1>6. recentFeePeriods' = [recentFeePeriods EXCEPT ![c] = p, ![d] = b]
  BY <1>3, <1>4, <1>5 DEF _closeSecondary, Begun
<1>7. currentFeePeriod' = d
  BY <1>1, <1>2, RingSlots DEF _closeSecondary, PoolTypes
<1>8. Current' = recentFeePeriods'[d] /\ Closing' = recentFeePeriods'[c]
  BY <1>3, <1>7, RecentAreNext
<1>9. QED
  BY <1>1, <1>3, <1>4, <1>5, <1>6, <1>7, <1>8 DEF PoolTypes

LEMMA ClaimRing ==
  ASSUME PoolTypes, NEW a \in Account, claimFees(a),
         NEW due \in Nat, due = feesAvailable(a).rewards,
         due <= Closing.rewardsToDistribute - Closing.rewardsClaimed,
         Current.rewardsClaimed = 0
  PROVE  /\ recentFeePeriods' \in [Index -> FeePeriod]
         /\ Current' = Current
         /\ Closing' = [Closing EXCEPT !.rewardsClaimed = @ + due]
         /\ escrowed' = [escrowed EXCEPT ![a] = @ + due]
<1>1. PICK c \in Index : c = currentFeePeriod
  BY DEF PoolTypes
<1>2. PICK d \in Index : d = 1 - currentFeePeriod
  BY RecentAre DEF PoolTypes
<1>3. /\ Slot(0) = c /\ Slot(1) = d /\ c # d
      /\ Current = recentFeePeriods[c] /\ Closing = recentFeePeriods[d]
  BY <1>1, <1>2, RecentAre DEF PoolTypes
<1>4. FromOldest(due) = due
  BY PeriodFields DEF FromOldest, Lesser, Closing
<1>5. FromCurrent(due) = 0
  <2>1. Current.rewardsToDistribute - Current.rewardsClaimed \in Nat
    BY PeriodFields
  <2>2. QED
    BY <1>4, <2>1 DEF FromCurrent, Lesser, Current
<1>6. PICK p \in FeePeriod : p = [Closing EXCEPT !.rewardsClaimed = @ + due]
  <2>1. Closing \in FeePeriod /\ Closing.rewardsClaimed + due \in Nat
    BY PeriodFields
  <2>2. QED
    BY <2>1 DEF FeePeriod
<1>7. PICK q \in FeePeriod : q = [Current EXCEPT !.rewardsClaimed = @ + 0] /\ q = Current
  <2>1. Current \in FeePeriod /\ Current.rewardsClaimed + 0 = Current.rewardsClaimed
    BY PeriodFields
  <2>2. QED
    BY <2>1 DEF FeePeriod
<1>8. recentFeePeriods' = [recentFeePeriods EXCEPT ![d] = p, ![c] = q]
  BY <1>3, <1>4, <1>5, <1>6, <1>7 DEF claimFees, PoolTypes
<1>9. currentFeePeriod' = c
  BY <1>1 DEF claimFees
<1>10. escrowed' = [escrowed EXCEPT ![a] = @ + due]
  <2>1. FromOldest(due) + FromCurrent(due) = due
    BY <1>4, <1>5
  <2>2. escrowed' = [escrowed EXCEPT ![a] = @ + (FromOldest(due) + FromCurrent(due))]
    BY DEF claimFees
  <2>3. QED
    BY <2>1, <2>2
<1>11. QED
  BY <1>1, <1>2, <1>3, <1>6, <1>7, <1>8, <1>9, <1>10, RecentAreNext DEF PoolTypes

-----------------------------------------------------------------------------
(* The inductive invariant.                                                *)

\* What the accounts owned in a period, and that this is the supply recorded.
Owned(p) == [a \in Account |-> BalanceAt(balances[a], p)]
RecordedFor(p) == totalSupplyOnPeriod[p] = SumOf(Owned(p))

\* The closed period is older than the current one, which the shares and the
\* clock have reached; nobody has claimed from a later one than the closed.
Dates ==
  /\ Closing.feePeriodId < Current.feePeriodId
  /\ Current.feePeriodId <= currentPeriodId
  /\ currentPeriodId <= now
  /\ Current.feePeriodId <= Current.startTime
  /\ Current.startTime <= now
  /\ \A a \in Account : lastFeeWithdrawal[a] <= Closing.feePeriodId

\* Nothing is claimed from the current period, nor more than there is, and
\* there is nothing to claim before the first close.
Counters ==
  /\ Current.rewardsClaimed = 0
  /\ Current.feesClaimed = 0
  /\ Closing.rewardsClaimed <= Closing.rewardsToDistribute
  /\ Closing.feesClaimed <= Closing.feesToDistribute
  /\ Closing.feePeriodId = 0 => Closing.feesToDistribute = 0 /\ Closing.rewardsToDistribute = 0

\* The supply of both periods is what the accounts owned in them.
Recorded ==
  /\ RecordedFor(Current.feePeriodId)
  /\ Closing.feePeriodId > 0 => RecordedFor(Closing.feePeriodId)

\* What the shares of an account are worth, by its whole history.
Percent(a, p) ==
  IF Owned(p)[a] = 0 THEN 0 ELSE divideDecimal(Owned(p)[a], totalSupplyOnPeriod[p], Unit)
Worth(a) == multiplyDecimal(Closing.rewardsToDistribute, Percent(a, Closing.feePeriodId), Unit)

\* What the accounts that have not claimed yet have to come, and that it is
\* still in the closed period.
Due == [a \in Account |-> IF lastFeeWithdrawal[a] < Closing.feePeriodId THEN Worth(a) ELSE 0]
DueIsThere == SumOf(Due) <= Unclaimed(1)

PInv ==
  /\ IInv
  /\ PoolTypes
  /\ Dates
  /\ Counters
  /\ Recorded
  /\ DueIsThere
  /\ EscrowCoversRewards

LEMMA BalanceAtType ==
  ASSUME NEW h \in Seq(PeriodBalance), NEW p \in Nat
  PROVE  BalanceAt(h, p) \in Nat
<1>1. CASE \E i \in DOMAIN h : h[i].periodId <= p
  <2>1. PICK i \in DOMAIN h : InForce(h, p, i)
    BY <1>1, InForceExists
  <2>2. DOMAIN h \subseteq Int
    OBVIOUS
  <2>3. BalanceAt(h, p) = h[i].amount
    BY <2>1, <2>2, BalanceAtIs
  <2>4. QED
    BY <2>3, EntryType
<1>2. CASE ~ \E i \in DOMAIN h : h[i].periodId <= p
  BY <1>2 DEF BalanceAt
<1>3. QED
  BY <1>1, <1>2

LEMMA OwnedType ==
  ASSUME IInv, NEW p \in Nat
  PROVE  Owned(p) \in [Account -> Nat]
BY BalanceAtType DEF Owned, IInv, TypeOK

(* The ids of both periods are ids of periods of the shares.               *)
LEMMA IdsAre ==
  ASSUME PoolTypes, Dates, currentPeriodId \in PeriodId
  PROVE  /\ Current.feePeriodId \in PeriodId /\ Closing.feePeriodId \in Nat
         /\ Closing.feePeriodId > 0 => Closing.feePeriodId \in PeriodId
         /\ Closing.feePeriodId < currentPeriodId
         /\ currentPeriodId \in Nat /\ now \in PeriodId /\ now \in Nat
<1>1. Current.feePeriodId \in Nat /\ Closing.feePeriodId \in Nat
  BY PeriodFields
<1>2. MaxPeriodId \in Nat /\ currentPeriodId \in 1 .. MaxPeriodId /\ now \in 2 .. MaxPeriodId
  BY PeriodAssumption DEF PeriodId, PoolTypes
<1>3. QED
  BY <1>1, <1>2 DEF Dates, PeriodId

(* The supply of the period that is current is what the accounts own.      *)
LEMMA CurrentRecorded == IInv => RecordedFor(currentPeriodId)
<1> SUFFICES ASSUME IInv PROVE RecordedFor(currentPeriodId)
  OBVIOUS
<1>1. currentPeriodId \in PeriodId /\ Pages[currentPeriodId] = Holdings
  BY CurrentPage DEF IInv, TypeOK
<1>2. Owned(currentPeriodId) = Holdings
  BY <1>1 DEF Owned, Pages
<1>3. QED
  BY <1>2 DEF RecordedFor, IInv, SupplyIsSumOfBalances, totalSupply, Holdings

LEMMA CurrentRecordedNext == IInv' => RecordedFor(currentPeriodId)'
BY CurrentRecorded, PTL

(* A step of the shares leaves a period that has been recorded so.         *)
LEMMA StaysRecorded ==
  ASSUME IInv, [Next]_vars, NEW p \in PeriodId, p <= currentPeriodId, RecordedFor(p)
  PROVE  totalSupplyOnPeriod'[p] = SumOf([a \in Account |-> BalanceAt(balances'[a], p)])
<1>1. IInv' /\ Frozen
  BY StepPreserves
<1>2. currentPeriodId \in Nat /\ p \in Nat
  BY PeriodAssumption DEF PeriodId, IInv, TypeOK
<1>3. CASE p < currentPeriodId
  <2>1. [a \in Account |-> BalanceAt(balances'[a], p)] = Owned(p)
    BY <1>1, <1>3 DEF Frozen, Owned
  <2>2. QED
    BY <1>1, <1>3, <2>1 DEF Frozen, RecordedFor
<1>4. CASE p = currentPeriodId /\ currentPeriodId' = currentPeriodId
  BY <1>1, <1>4, CurrentRecordedNext DEF RecordedFor, Owned
<1>5. CASE p = currentPeriodId /\ currentPeriodId' # currentPeriodId
  <2>1. PICK sender \in Operator \cup {Issuer}, id \in PeriodId : takeSnapshot(sender, id)
    BY <1>5 DEF Next, vars, mintShare, burnShare, transferFrom, importAddresses, finishSetup,
                addAuthorizedBroker, removeAuthorizedBroker,
                addAuthorizedToSnapshot, removeAuthorizedToSnapshot
  <2>2. id \in Nat /\ id > currentPeriodId
    BY <2>1, PeriodAssumption DEF takeSnapshot, PeriodId
  <2>3. balances' = balances /\ totalSupplyOnPeriod'[p] = totalSupplyOnPeriod[p]
    BY <1>2, <1>5, <2>1, <2>2 DEF takeSnapshot, IInv, TypeOK
  <2>4. QED
    BY <2>3 DEF RecordedFor, Owned
<1>6. QED
  BY <1>2, <1>3, <1>4, <1>5

(* What is due is a natural for every account.                             *)
LEMMA WorthType ==
  ASSUME IInv, PoolTypes, NEW p \in PeriodId, RecordedFor(p), NEW a \in Account
  PROVE  /\ Owned(p)[a] \in Nat
         /\ Owned(p)[a] # 0 => totalSupplyOnPeriod[p] \in Nat \ {0}
         /\ Percent(a, p) \in Nat
<1>1. p \in Nat
  BY PeriodAssumption DEF PeriodId
<1>2. PICK f \in [Account -> Nat] : f = Owned(p)
  BY <1>1, OwnedType
<1>3. f[a] <= SumOf(f) /\ SumOf(f) \in Nat /\ f[a] \in Nat
  BY AccountAssumption, SumOfBound, SumOfType
<1>4. totalSupplyOnPeriod[p] = SumOf(f)
  BY <1>2 DEF RecordedFor
<1>5. Unit \in Nat
  BY PoolUnitAssumption
<1>6. CASE f[a] = 0
  BY <1>2, <1>6 DEF Percent
<1>7. CASE f[a] # 0
  <2>1. totalSupplyOnPeriod[p] \in Nat \ {0}
    BY <1>3, <1>4, <1>7
  <2>2. divideDecimal(f[a], totalSupplyOnPeriod[p], Unit) \in Nat
    BY <1>3, <1>5, <2>1, DivideDecimalType
  <2>3. QED
    BY <1>2, <1>3, <2>1, <2>2, <1>7 DEF Percent
<1>8. QED
  BY <1>6, <1>7

LEMMA DueType ==
  ASSUME IInv, PoolTypes, Dates, Recorded
  PROVE  /\ Due \in [Account -> Nat]
         /\ \A a \in Account : lastFeeWithdrawal[a] < Closing.feePeriodId =>
              /\ Closing.feePeriodId \in PeriodId
              /\ Worth(a) \in Nat /\ Due[a] = Worth(a)
<1>1. Closing.rewardsToDistribute \in Nat /\ Closing.feePeriodId \in Nat
  BY PeriodFields
<1>2. ASSUME NEW a \in Account, lastFeeWithdrawal[a] < Closing.feePeriodId
      PROVE  Closing.feePeriodId \in PeriodId /\ Worth(a) \in Nat
  <2>1. lastFeeWithdrawal[a] \in Nat
    BY DEF PoolTypes
  <2>2. Closing.feePeriodId > 0
    BY <1>1, <1>2, <2>1
  <2>3. Closing.feePeriodId \in PeriodId /\ RecordedFor(Closing.feePeriodId)
    BY <2>2, IdsAre DEF Recorded, IInv, TypeOK
  <2>4. Percent(a, Closing.feePeriodId) \in Nat
    BY <2>3, WorthType
  <2>5. QED
    BY <1>1, <2>3, <2>4, PoolUnitAssumption, MultiplyDecimalType DEF Worth
<1>3. QED
  BY <1>2 DEF Due

(* Together the accounts have no more to come than the period distributes. *)
LEMMA AllDue ==
  IInv /\ PoolTypes /\ Dates /\ Recorded => SumOf(Due) <= Closing.rewardsToDistribute
<1> SUFFICES ASSUME IInv, PoolTypes, Dates, Recorded
             PROVE  SumOf(Due) <= Closing.rewardsToDistribute
  OBVIOUS
<1>1. PICK worth \in Nat : worth = Closing.rewardsToDistribute
  BY PeriodFields
<1>2. PICK d \in [Account -> Nat] : d = Due
  BY DueType
<1>3. Closing.feePeriodId \in Nat /\ currentPeriodId \in PeriodId
  BY PeriodFields DEF IInv, TypeOK
<1>4. CASE Closing.feePeriodId = 0
  <2>1. \A a \in Account : d[a] = 0
    BY <1>2, <1>4 DEF Due, PoolTypes
  <2>2. QED
    BY <1>1, <1>2, <2>1, SumOfZero
<1>5. CASE Closing.feePeriodId # 0
  <2>1. PICK p \in PeriodId : p = Closing.feePeriodId /\ RecordedFor(p)
    BY <1>3, <1>5, IdsAre DEF Recorded
  <2>2. PICK f \in [Account -> Nat] : f = Owned(p)
    BY <2>1, OwnedType, PeriodAssumption DEF PeriodId
  <2>3. PICK total \in Nat : total = SumOf(f) /\ total = totalSupplyOnPeriod[p]
    BY <2>1, <2>2, AccountAssumption, SumOfType DEF RecordedFor
  <2>4. ASSUME NEW a \in Account
        PROVE  total * d[a] <= worth * f[a] /\ (f[a] = 0 => d[a] = 0)
    <3>1. worth * f[a] \in Nat /\ total * 0 = 0 /\ f[a] \in Nat /\ worth * 0 = 0
      BY ProductType
    <3>2. CASE d[a] = 0
      BY <3>1, <3>2
    <3>3. CASE d[a] # 0
      <4>1. d[a] = multiplyDecimal(worth, Percent(a, p), Unit)
        BY <1>1, <1>2, <2>1, <3>3 DEF Due, Worth
      <4>2. CASE f[a] = 0
        <5>1. Percent(a, p) = 0
          BY <2>2, <4>2 DEF Percent
        <5>2. multiplyDecimal(worth, 0, Unit) = 0
          BY PoolUnitAssumption DEF multiplyDecimal
        <5>3. QED
          BY <3>3, <4>1, <5>1, <5>2
      <4>3. CASE f[a] # 0
        <5>1. total \in Nat \ {0}
          BY <2>1, <2>2, <2>3, <4>3, WorthType
        <5>2. Percent(a, p) = divideDecimal(f[a], total, Unit)
          BY <2>2, <2>3, <4>3 DEF Percent
        <5>3. total * multiplyDecimal(worth, divideDecimal(f[a], total, Unit), Unit) <= worth * f[a]
          BY <3>1, <5>1, PoolUnitAssumption, PartBelow
        <5>4. QED
          BY <4>1, <4>3, <5>2, <5>3
      <4>4. QED
        BY <4>2, <4>3
    <3>4. QED
      BY <3>2, <3>3
  <2>5. \A a \in Account : SumOf(f) * d[a] <= worth * f[a]
    BY <2>3, <2>4
  <2>6. \A a \in Account : f[a] = 0 => d[a] = 0
    BY <2>4
  <2>7. SumOf(d) <= worth
    BY <2>5, <2>6, AccountAssumption, PartsOfWhole
  <2>8. QED
    BY <1>1, <1>2, <2>7
<1>6. QED
  BY <1>4, <1>5

LEMMA AllDueNext ==
  (IInv /\ PoolTypes /\ Dates /\ Recorded)' => (SumOf(Due) <= Closing.rewardsToDistribute)'
BY AllDue, PTL

(* What the shares are worth of the closed period does not change.         *)
LEMMA WorthStays ==
  ASSUME PInv, [Next]_vars, Closing.feePeriodId > 0,
         Closing'.feePeriodId = Closing.feePeriodId, NEW a \in Account
  PROVE  /\ BalanceAt(balances'[a], Closing.feePeriodId) = BalanceAt(balances[a], Closing.feePeriodId)
         /\ totalSupplyOnPeriod'[Closing.feePeriodId] = totalSupplyOnPeriod[Closing.feePeriodId]
         /\ Closing'.rewardsToDistribute = Closing.rewardsToDistribute => Worth(a)' = Worth(a)
<1>1. PICK p \in PeriodId : p = Closing.feePeriodId /\ p < currentPeriodId
  BY IdsAre DEF PInv, IInv, TypeOK
<1>2. Frozen
  BY StepPreserves DEF PInv
<1>3. BalanceAt(balances'[a], p) = BalanceAt(balances[a], p) /\ totalSupplyOnPeriod'[p] = totalSupplyOnPeriod[p]
  BY <1>1, <1>2 DEF Frozen
<1>4. Owned(p)[a] = BalanceAt(balances[a], p) /\ Owned(p)'[a] = BalanceAt(balances'[a], p)
  BY DEF Owned
<1>5. Percent(a, p)' = Percent(a, p)
  BY <1>3, <1>4 DEF Percent
<1>6. Closing.feePeriodId' = p
  BY <1>1
<1>7. Worth(a) = multiplyDecimal(Closing.rewardsToDistribute, Percent(a, p), Unit)
  BY <1>1 DEF Worth
<1>8. Worth(a)' = multiplyDecimal(Closing'.rewardsToDistribute, Percent(a, p)', Unit)
  BY <1>6 DEF Worth, Percent, Owned
<1>9. QED
  BY <1>1, <1>3, <1>5, <1>7, <1>8

(* While no period is closed, what depends on the shares stays as it was.  *)
LEMMA NoCloseKeeps ==
  ASSUME PInv, [Next]_vars,
         Current'.feePeriodId = Current.feePeriodId,
         Closing'.feePeriodId = Closing.feePeriodId,
         Closing'.rewardsToDistribute = Closing.rewardsToDistribute
  PROVE  /\ IInv' /\ Recorded'
         /\ \A a \in Account : lastFeeWithdrawal'[a] = lastFeeWithdrawal[a] => Due'[a] = Due[a]
<1>1. IInv'
  BY StepPreserves DEF PInv
<1>2. PICK p \in PeriodId : p = Current.feePeriodId
  BY IdsAre DEF PInv, IInv, TypeOK
<1>3. totalSupplyOnPeriod'[p] = SumOf([a \in Account |-> BalanceAt(balances'[a], p)])
  BY <1>2, StaysRecorded DEF PInv, Recorded, Dates
<1>4. ASSUME Closing.feePeriodId > 0
      PROVE  LET q == Closing.feePeriodId
             IN  totalSupplyOnPeriod'[q] = SumOf([a \in Account |-> BalanceAt(balances'[a], q)])
  <2>1. PICK q \in PeriodId : q = Closing.feePeriodId /\ q < currentPeriodId
    BY <1>4, IdsAre DEF PInv, IInv, TypeOK
  <2>2. RecordedFor(q)
    BY <1>4, <2>1 DEF PInv, Recorded
  <2>3. q <= currentPeriodId
    BY <2>1, PeriodAssumption DEF PeriodId, PInv, IInv, TypeOK
  <2>4. QED
    BY <2>1, <2>2, <2>3, StaysRecorded DEF PInv
<1>5. Recorded'
  BY <1>2, <1>3, <1>4 DEF Recorded, RecordedFor, Owned
<1>6. ASSUME NEW a \in Account, lastFeeWithdrawal'[a] = lastFeeWithdrawal[a]
      PROVE  Due'[a] = Due[a]
  <2>1. /\ Due[a] = IF lastFeeWithdrawal[a] < Closing.feePeriodId THEN Worth(a) ELSE 0
        /\ Due'[a] = IF lastFeeWithdrawal'[a] < Closing'.feePeriodId THEN Worth(a)' ELSE 0
    BY DEF Due
  <2>2. CASE lastFeeWithdrawal[a] < Closing.feePeriodId
    <3>1. lastFeeWithdrawal[a] \in Nat /\ Closing.feePeriodId \in Nat
      BY PeriodFields DEF PInv, PoolTypes
    <3>2. Closing.feePeriodId > 0
      BY <2>2, <3>1
    <3>3. Worth(a)' = Worth(a)
      BY <3>2, WorthStays
    <3>4. QED
      BY <1>6, <2>1, <3>3
  <2>3. CASE ~(lastFeeWithdrawal[a] < Closing.feePeriodId)
    BY <1>6, <2>1, <2>3
  <2>4. QED
    BY <2>2, <2>3
<1>7. QED
  BY <1>1, <1>5, <1>6

LEMMA DueNextType ==
  (IInv /\ PoolTypes /\ Dates /\ Recorded)' => (Due \in [Account -> Nat])'
<1>1. IInv /\ PoolTypes /\ Dates /\ Recorded => Due \in [Account -> Nat]
  BY DueType
<1>2. QED
  BY <1>1, PTL

(* What is due to an account that the code lets claim: its worth.          *)
LEMMA EntitlementIs ==
  ASSUME IInv, Closing.feePeriodId \in PeriodId, NEW a \in Account,
         balanceOfOnPeriod(a, Closing.feePeriodId) # Reverts
  PROVE  /\ sharePercentOnPeriod(a, Closing.feePeriodId) = Percent(a, Closing.feePeriodId)
         /\ Entitlement(a).rewards = Worth(a)
<1>1. PICK p \in PeriodId : p = Closing.feePeriodId
  OBVIOUS
<1>2. balanceOfOnPeriod(a, p) = BalanceAt(balances[a], p)
  BY <1>1, ScanExact DEF ScanIsExactOrReverts
<1>3. Owned(p)[a] = BalanceAt(balances[a], p)
  BY DEF Owned
<1>4. sharePercentOnPeriod(a, p) = Percent(a, p)
  BY <1>2, <1>3 DEF sharePercentOnPeriod, Percent
<1>5. p # 0
  BY PeriodAssumption DEF PeriodId
<1>6. Entitlement(a).rewards = multiplyDecimal(Closing.rewardsToDistribute, Percent(a, p), Unit)
  BY <1>1, <1>4, <1>5 DEF Entitlement, Closing
<1>7. QED
  BY <1>1, <1>4, <1>6 DEF Worth

LEMMA ClaimIsDue ==
  ASSUME PInv, NEW a \in Account, claimFees(a)
  PROVE  /\ lastFeeWithdrawal[a] < Closing.feePeriodId
         /\ Entitlement(a).rewards = Due[a]
         /\ feesAvailable(a).rewards = Due[a]
         /\ Due \in [Account -> Nat]
         /\ Due[a] <= Closing.rewardsToDistribute - Closing.rewardsClaimed
<1>1. Due \in [Account -> Nat]
  BY DueType DEF PInv
<1>2. lastFeeWithdrawal[a] < Closing.feePeriodId
  <2>1. lastFeeWithdrawal[a] \in Nat /\ Closing.feePeriodId \in Nat
    BY PeriodFields DEF PInv, PoolTypes
  <2>2. SUFFICES ASSUME ~(lastFeeWithdrawal[a] < Closing.feePeriodId) PROVE FALSE
    OBVIOUS
  <2>3. feesAvailable(a) = [fees |-> 0, rewards |-> 0]
    BY <2>2 DEF feesAvailable, Closing
  <2>4. QED
    BY <2>3 DEF claimFees
<1>3. Closing.feePeriodId \in PeriodId /\ Due[a] = Worth(a)
  BY <1>2, DueType DEF PInv
<1>4. balanceOfOnPeriod(a, Closing.feePeriodId) # Reverts
  <2>1. Closing.feePeriodId > lastFeeWithdrawal[a]
    BY <1>2, PeriodFields DEF PInv, PoolTypes
  <2>2. QED
    BY <2>1 DEF claimFees, ShareReadable, Closing
<1>5. Entitlement(a).rewards = Worth(a)
  BY <1>3, <1>4, EntitlementIs DEF PInv
<1>6. feesAvailable(a) = Entitlement(a)
  BY <1>2 DEF feesAvailable, Closing
<1>7. Due[a] <= Closing.rewardsToDistribute - Closing.rewardsClaimed
  <2>1. PICK d \in [Account -> Nat] : d = Due
    BY <1>1
  <2>2. d[a] <= SumOf(d) /\ SumOf(d) \in Nat
    BY AccountAssumption, SumOfBound, SumOfType
  <2>3. Closing.rewardsToDistribute - Closing.rewardsClaimed \in Int
    BY PeriodFields DEF PInv
  <2>4. SumOf(d) <= Closing.rewardsToDistribute - Closing.rewardsClaimed
    BY <2>1 DEF PInv, DueIsThere, Unclaimed, Closing
  <2>5. QED
    BY <2>1, <2>2, <2>3, <2>4
<1>8. QED
  BY <1>1, <1>2, <1>3, <1>5, <1>6, <1>7

-----------------------------------------------------------------------------
(* Each step preserves the invariant.                                      *)

LEMMA PoolInitInv == PoolInit => PInv
<1> SUFFICES ASSUME PoolInit PROVE PInv
  OBVIOUS
<1>1. IInv
  BY FreshIInv DEF PoolInit, Fresh
<1>2. MaxPeriodId \in Nat /\ MaxPeriodId >= 2 /\ 0 \in 0 .. MaxPeriodId /\ 1 \in PeriodId /\ now \in 2 .. MaxPeriodId
  BY PeriodAssumption, ClockAssumption DEF PeriodId, PoolInit
<1>3. 0 \in Index /\ 1 \in Index /\ now = 2
  BY DEF Index, FEE_PERIOD_LENGTH, PoolInit
<1>4. PICK b \in FeePeriod : b = [NoPeriod EXCEPT !.feePeriodId = 1, !.startTime = now]
  BY <1>3 DEF NoPeriod, FeePeriod
<1>5. NoPeriod \in FeePeriod
  BY DEF NoPeriod, FeePeriod
<1>6. recentFeePeriods = [i \in Index |-> IF i = 0 THEN b ELSE NoPeriod] /\ currentFeePeriod = 0
  BY <1>4 DEF PoolInit
<1>7. PoolTypes
  <2>1. 0 \in 0 .. RewardCap
    BY RewardAssumption
  <2>2. QED
    BY <1>2, <1>3, <1>5, <1>6, <2>1 DEF PoolInit, PoolTypes
<1>8. Current = b /\ Closing = NoPeriod
  <2>1. Current = recentFeePeriods[0] /\ Closing = recentFeePeriods[1 - 0]
    BY <1>6, <1>7, RecentAre DEF PoolTypes
  <2>2. QED
    BY <1>3, <1>6, <2>1
<1>9. /\ b.feePeriodId = 1 /\ b.startTime = now /\ b.rewardsClaimed = 0 /\ b.feesClaimed = 0
      /\ b.rewardsToDistribute = 0 /\ NoPeriod.feePeriodId = 0 /\ NoPeriod.rewardsClaimed = 0
      /\ NoPeriod.feesClaimed = 0 /\ NoPeriod.rewardsToDistribute = 0 /\ NoPeriod.feesToDistribute = 0
  BY <1>4 DEF NoPeriod
<1>10. Dates
  BY <1>3, <1>8, <1>9 DEF Dates, PoolInit
<1>11. Counters
  BY <1>8, <1>9 DEF Counters
<1>12. Recorded
  <2>1. RecordedFor(1)
    BY <1>1, CurrentRecorded DEF PoolInit
  <2>2. QED
    BY <1>8, <1>9, <2>1 DEF Recorded
<1>13. Unclaimed(0) = 0 /\ Unclaimed(1) = 0
  BY <1>8, <1>9 DEF Unclaimed, Current, Closing
<1>14. DueIsThere
  <2>1. SumOf(Due) <= Closing.rewardsToDistribute
    BY <1>1, <1>7, <1>10, <1>12, AllDue
  <2>2. QED
    BY <1>8, <1>9, <1>13, <2>1 DEF DueIsThere
<1>15. EscrowCoversRewards
  <2>1. PICK e \in [Account -> Nat] : e = escrowed /\ \A a \in Account : e[a] = 0
    BY DEF PoolInit
  <2>2. SumOf(e) = 0
    BY <2>1, SumOfZero
  <2>3. QED
    BY <1>13, <2>1, <2>2 DEF EscrowCoversRewards, PoolInit
<1>16. QED
  BY <1>1, <1>7, <1>10, <1>11, <1>12, <1>14, <1>15 DEF PInv

(* The shares move, others take a snapshot, time passes, or nothing does.  *)
LEMMA QuietPreserves ==
  ASSUME PInv, [Next]_vars, UNCHANGED <<poolVars, escrowVars>>,
         now' \in 2 .. MaxPeriodId, now <= now', currentPeriodId <= currentPeriodId',
         currentPeriodId' <= now'
  PROVE  PInv'
<1>1. Current' = Current /\ Closing' = Closing
  BY StayRing DEF PInv, poolVars
<1>2. /\ IInv' /\ Recorded'
      /\ \A a \in Account : lastFeeWithdrawal'[a] = lastFeeWithdrawal[a] => Due'[a] = Due[a]
  BY <1>1, NoCloseKeeps
<1>3. PoolTypes'
  BY DEF PInv, PoolTypes, poolVars, escrowVars
<1>4. Dates'
  <2>1. /\ currentPeriodId \in Nat /\ currentPeriodId' \in Nat /\ now \in Nat /\ now' \in Nat
    BY <1>2, PeriodAssumption DEF PInv, IInv, TypeOK, PoolTypes, PeriodId
  <2>2. Current.feePeriodId \in Nat /\ Current.startTime \in Nat
    BY PeriodFields DEF PInv
  <2>3. QED
    BY <1>1, <2>1, <2>2 DEF PInv, Dates, poolVars
<1>5. Counters'
  BY <1>1 DEF PInv, Counters
<1>6. Unclaimed(0)' = Unclaimed(0) /\ Unclaimed(1)' = Unclaimed(1)
  BY <1>1 DEF Unclaimed, Current, Closing
<1>7. Due' = Due
  BY <1>2 DEF Due, poolVars
<1>8. DueIsThere' /\ EscrowCoversRewards'
  BY <1>6, <1>7 DEF PInv, DueIsThere, EscrowCoversRewards, escrowVars
<1>9. QED
  BY <1>2, <1>3, <1>4, <1>5, <1>8 DEF PInv

(* Fees or rewards are reported: only the current period grows.            *)
LEMMA ReportPreserves ==
  ASSUME PInv, UNCHANGED <<vars, now, currentFeePeriod, lastFeeWithdrawal, escrowed>>,
         recentFeePeriods' \in [Index -> FeePeriod], Closing' = Closing, NEW rewards \in Nat,
         Current'.feePeriodId = Current.feePeriodId, Current'.startTime = Current.startTime,
         Current'.rewardsClaimed = Current.rewardsClaimed, Current'.feesClaimed = Current.feesClaimed,
         Current'.rewardsToDistribute = Current.rewardsToDistribute + rewards,
         escrowTokens' = escrowTokens + rewards, escrowTokens' <= RewardCap
  PROVE  PInv'
<1>1. /\ IInv' /\ Recorded'
      /\ \A a \in Account : lastFeeWithdrawal'[a] = lastFeeWithdrawal[a] => Due'[a] = Due[a]
  BY NoCloseKeeps
<1>2. PoolTypes'
  <2>1. escrowTokens' \in 0 .. RewardCap
    BY RewardAssumption DEF PInv, PoolTypes
  <2>2. QED
    BY <2>1 DEF PInv, PoolTypes
<1>3. Dates'
  BY DEF PInv, Dates, vars
<1>4. Counters'
  BY DEF PInv, Counters
<1>5. Unclaimed(0)' = Unclaimed(0) + rewards /\ Unclaimed(1)' = Unclaimed(1)
  <2>1. /\ Unclaimed(0)' = Current'.rewardsToDistribute - Current'.rewardsClaimed
        /\ Unclaimed(0) = Current.rewardsToDistribute - Current.rewardsClaimed
    BY DEF Unclaimed, Current
  <2>2. Current.rewardsToDistribute \in Nat /\ Current.rewardsClaimed \in Nat
    BY PeriodFields DEF PInv
  <2>3. QED
    BY <2>1, <2>2 DEF Unclaimed, Closing
<1>6. Due' = Due
  BY <1>1 DEF Due
<1>7. DueIsThere'
  BY <1>5, <1>6 DEF PInv, DueIsThere
<1>8. EscrowCoversRewards'
  <2>1. PICK e \in [Account -> Nat] : e = escrowed
    BY DEF PInv, PoolTypes
  <2>2. SumOf(e) \in Nat
    BY AccountAssumption, SumOfType
  <2>3. Unclaimed(0) \in Int /\ Unclaimed(1) \in Int
    BY PeriodFields DEF PInv, Unclaimed, Current, Closing
  <2>4. escrowTokens = SumOf(e) + Unclaimed(0) + Unclaimed(1) /\ escrowed' = e
    BY <2>1 DEF PInv, EscrowCoversRewards
  <2>5. escrowTokens' = SumOf(e) + Unclaimed(0)' + Unclaimed(1)'
    BY <1>5, <2>2, <2>3, <2>4
  <2>6. QED
    BY <2>4, <2>5 DEF EscrowCoversRewards
<1>9. QED
  BY <1>1, <1>2, <1>3, <1>4, <1>7, <1>8 DEF PInv

LEMMA FeePaidPreserves ==
  ASSUME PInv, NEW n \in Nat, recordFeePaid(n)
  PROVE  PInv'
<1>1. /\ recentFeePeriods' \in [Index -> FeePeriod]
      /\ Current' = [Current EXCEPT !.feesToDistribute = @ + n]
      /\ Closing' = Closing
  BY FeePaidRing DEF PInv
<1>2. Current \in FeePeriod /\ Current.rewardsToDistribute + 0 = Current.rewardsToDistribute
  BY PeriodFields DEF PInv
<1>3. /\ Current'.feePeriodId = Current.feePeriodId /\ Current'.startTime = Current.startTime
      /\ Current'.rewardsClaimed = Current.rewardsClaimed /\ Current'.feesClaimed = Current.feesClaimed
      /\ Current'.rewardsToDistribute = Current.rewardsToDistribute + 0
  BY <1>1, <1>2 DEF FeePeriod
<1>4. UNCHANGED <<vars, now, currentFeePeriod, lastFeeWithdrawal, escrowed, escrowTokens>>
  BY DEF recordFeePaid, escrowVars
<1>5. escrowTokens \in Int /\ escrowTokens <= RewardCap
  BY RewardAssumption DEF PInv, PoolTypes
<1>6. escrowTokens' = escrowTokens + 0 /\ escrowTokens' <= RewardCap
  BY <1>4, <1>5
<1>7. QED
  BY <1>1, <1>3, <1>4, <1>6, ReportPreserves

LEMMA DistributePreserves ==
  ASSUME PInv, NEW n \in Nat, distributeRewards(n)
  PROVE  PInv'
<1>1. /\ recentFeePeriods' \in [Index -> FeePeriod]
      /\ Current' = [Current EXCEPT !.rewardsToDistribute = @ + n]
      /\ Closing' = Closing
  BY DistributeRing DEF PInv
<1>2. Current \in FeePeriod
  BY PeriodFields DEF PInv
<1>3. /\ Current'.feePeriodId = Current.feePeriodId /\ Current'.startTime = Current.startTime
      /\ Current'.rewardsClaimed = Current.rewardsClaimed /\ Current'.feesClaimed = Current.feesClaimed
      /\ Current'.rewardsToDistribute = Current.rewardsToDistribute + n
  BY <1>1, <1>2 DEF FeePeriod
<1>4. /\ UNCHANGED <<vars, now, currentFeePeriod, lastFeeWithdrawal, escrowed>>
      /\ escrowTokens' = escrowTokens + n /\ escrowTokens' <= RewardCap
  BY DEF distributeRewards
<1>5. QED
  BY <1>1, <1>3, <1>4, ReportPreserves

(* A period is closed.                                                     *)
LEMMA ClosePreserves ==
  ASSUME PInv, _closeSecondary, Current.startTime < now
  PROVE  PInv'
<1>1. /\ recentFeePeriods' \in [Index -> FeePeriod]
      /\ currentFeePeriod' \in Index
      /\ Current' = Begun
      /\ Closing' = Closed(Current, Closing)
      /\ Closed(Current, Closing) \in FeePeriod
  BY CloseRing DEF PInv, Counters
<1>2. /\ UNCHANGED <<now, lastFeeWithdrawal, escrowTokens, escrowed>>
      /\ setCurrentPeriodId(now)
  BY DEF _closeSecondary, escrowVars
<1>3. currentPeriodId \in PeriodId /\ now \in PeriodId /\ now \in Nat /\ currentPeriodId \in Nat
  BY IdsAre DEF PInv, IInv, TypeOK
<1>4. [Next]_vars
  <2>1. CASE currentPeriodId < now
    BY <1>2, <1>3, <2>1 DEF setCurrentPeriodId, Next
  <2>2. CASE ~(currentPeriodId < now)
    BY <1>2, <2>2 DEF setCurrentPeriodId
  <2>3. QED
    BY <2>1, <2>2
<1>5. IInv'
  BY <1>4, StepPreserves DEF PInv
<1>6. currentPeriodId' = now
  BY <1>2, <1>3 DEF setCurrentPeriodId, takeSnapshot, vars, PInv, Dates
<1>7. /\ Current'.feePeriodId = now /\ Current'.startTime = now /\ Current'.rewardsClaimed = 0
      /\ Current'.feesClaimed = 0 /\ Current'.rewardsToDistribute = 0
  <2>1. PICK b : b = Begun
    OBVIOUS
  <2>2. /\ b.feePeriodId = now /\ b.startTime = now /\ b.rewardsClaimed = 0
        /\ b.feesClaimed = 0 /\ b.rewardsToDistribute = 0
    BY <2>1 DEF Begun, NoPeriod
  <2>3. QED
    BY <1>1, <2>1, <2>2
<1>8. PICK fees \in Nat : fees = Closing.feesToDistribute - Closing.feesClaimed + Current.feesToDistribute
  BY PeriodFields DEF PInv, Counters
<1>9. /\ Closing'.feePeriodId = Current.feePeriodId
      /\ Closing'.rewardsClaimed = 0
      /\ Closing'.rewardsToDistribute = Unclaimed(1) + Current.rewardsToDistribute
      /\ Closing'.feesToDistribute = fees
      /\ Closing'.feesClaimed = IF fees > 0 THEN fees ELSE 0
  <2>1. Current \in FeePeriod
    BY PeriodFields DEF PInv
  <2>2. PICK burned : burned = IF fees > 0 THEN fees ELSE Current.feesClaimed
    OBVIOUS
  <2>3. PICK rewards : rewards = Closing.rewardsToDistribute - Closing.rewardsClaimed + Current.rewardsToDistribute
    OBVIOUS
  <2>4. Closed(Current, Closing) = [Current EXCEPT !.feesToDistribute = fees, !.feesClaimed = burned,
                                                   !.rewardsToDistribute = rewards]
    BY <1>8, <2>1, <2>2, <2>3 DEF Closed, FeePeriod
  <2>5. /\ Closing'.feePeriodId = Current.feePeriodId
        /\ Closing'.rewardsClaimed = Current.rewardsClaimed
        /\ Closing'.rewardsToDistribute = rewards
        /\ Closing'.feesToDistribute = fees
        /\ Closing'.feesClaimed = burned
    BY <1>1, <2>1, <2>4 DEF FeePeriod
  <2>6. Current.rewardsClaimed = 0 /\ Current.feesClaimed = 0
    BY DEF PInv, Counters
  <2>7. rewards = Unclaimed(1) + Current.rewardsToDistribute
    BY <2>3 DEF Unclaimed, Closing
  <2>8. QED
    BY <2>2, <2>5, <2>6, <2>7
<1>10. PoolTypes'
  BY <1>1, <1>2 DEF PInv, PoolTypes
<1>11. Dates'
  <2>1. /\ Current.feePeriodId \in Nat /\ Current.startTime \in Nat /\ Closing.feePeriodId \in Nat
    BY PeriodFields DEF PInv
  <2>2. Current.feePeriodId < now /\ Closing.feePeriodId < Current.feePeriodId
    BY <1>3, <2>1 DEF PInv, Dates
  <2>3. \A a \in Account : lastFeeWithdrawal[a] \in Nat /\ lastFeeWithdrawal[a] <= Closing.feePeriodId
    BY DEF PInv, PoolTypes, Dates
  <2>4. \A a \in Account : lastFeeWithdrawal'[a] <= Current.feePeriodId
    BY <1>2, <2>1, <2>2, <2>3
  <2>5. QED
    BY <1>2, <1>3, <1>6, <1>7, <1>9, <2>2, <2>4 DEF Dates
<1>12. Unclaimed(1) \in Nat /\ Current.rewardsToDistribute \in Nat /\ Current.rewardsClaimed = 0
  BY PeriodFields DEF PInv, Counters, Unclaimed, Closing
<1>13. Counters'
  <2>1. Closing'.feePeriodId # 0
    BY <1>9, PeriodFields DEF PInv, Dates
  <2>2. QED
    BY <1>7, <1>9, <1>12, <2>1 DEF Counters
<1>14. Recorded'
  <2>1. RecordedFor(now)'
    <3>1. RecordedFor(currentPeriodId)'
      BY <1>5, CurrentRecordedNext
    <3>2. QED
      BY <1>2, <1>6, <3>1 DEF RecordedFor, Owned
  <2>2. RecordedFor(Current.feePeriodId)'
    BY <1>2, <1>7, <2>1 DEF RecordedFor, Owned
  <2>3. PICK p \in PeriodId : p = Current.feePeriodId
    BY <1>3, IdsAre DEF PInv
  <2>4. totalSupplyOnPeriod'[p] = SumOf([a \in Account |-> BalanceAt(balances'[a], p)])
    BY <1>4, <2>3, StaysRecorded DEF PInv, Recorded, Dates
  <2>5. RecordedFor(Closing.feePeriodId)'
    BY <1>9, <2>3, <2>4 DEF RecordedFor, Owned
  <2>6. QED
    BY <2>2, <2>5 DEF Recorded
<1>15. Unclaimed(0)' = 0 /\ Unclaimed(1)' = Closing'.rewardsToDistribute
  <2>1. Unclaimed(0)' = 0
    BY <1>7 DEF Unclaimed, Current
  <2>2. Closing'.rewardsToDistribute \in Int
    BY <1>9, <1>12
  <2>3. QED
    BY <1>9, <2>1, <2>2 DEF Unclaimed, Closing
<1>16. DueIsThere'
  BY <1>5, <1>10, <1>11, <1>14, <1>15, AllDueNext DEF DueIsThere
<1>17. EscrowCoversRewards'
  <2>1. PICK e \in [Account -> Nat] : e = escrowed
    BY DEF PInv, PoolTypes
  <2>2. SumOf(e) \in Nat
    BY AccountAssumption, SumOfType
  <2>3. Unclaimed(0) = Current.rewardsToDistribute
    BY <1>12 DEF Unclaimed, Current
  <2>4. escrowTokens = SumOf(e) + Unclaimed(0) + Unclaimed(1) /\ escrowed' = e
    BY <1>2, <2>1 DEF PInv, EscrowCoversRewards
  <2>5. escrowTokens' = SumOf(e) + Unclaimed(0)' + Unclaimed(1)'
    BY <1>2, <1>9, <1>12, <1>15, <2>2, <2>3, <2>4
  <2>6. QED
    BY <2>4, <2>5 DEF EscrowCoversRewards
<1>18. QED
  BY <1>5, <1>10, <1>11, <1>13, <1>14, <1>16, <1>17 DEF PInv

(* An account claims.                                                      *)
LEMMA ClaimPreserves ==
  ASSUME PInv, NEW a \in Account, claimFees(a)
  PROVE  PInv'
<1>1. /\ lastFeeWithdrawal[a] < Closing.feePeriodId /\ feesAvailable(a).rewards = Due[a]
      /\ Due \in [Account -> Nat]
      /\ Due[a] <= Closing.rewardsToDistribute - Closing.rewardsClaimed
  BY ClaimIsDue
<1>2. PICK due \in Nat : due = Due[a]
  BY <1>1
<1>3. /\ recentFeePeriods' \in [Index -> FeePeriod]
      /\ Current' = Current
      /\ Closing' = [Closing EXCEPT !.rewardsClaimed = @ + due]
      /\ escrowed' = [escrowed EXCEPT ![a] = @ + due]
  BY <1>1, <1>2, ClaimRing DEF PInv, Counters
<1>4. /\ UNCHANGED <<vars, now, currentFeePeriod, escrowTokens>>
      /\ lastFeeWithdrawal' = [lastFeeWithdrawal EXCEPT ![a] = Closing.feePeriodId]
  BY DEF claimFees, Closing
<1>5. /\ Closing \in FeePeriod /\ Closing.rewardsClaimed \in Nat /\ Closing.rewardsToDistribute \in Nat
      /\ Closing.feePeriodId \in Nat
  BY PeriodFields DEF PInv
<1>6. /\ Closing'.feePeriodId = Closing.feePeriodId
      /\ Closing'.rewardsToDistribute = Closing.rewardsToDistribute
      /\ Closing'.rewardsClaimed = Closing.rewardsClaimed + due
      /\ Closing'.feesToDistribute = Closing.feesToDistribute
      /\ Closing'.feesClaimed = Closing.feesClaimed
  BY <1>3, <1>5 DEF FeePeriod
<1>7. /\ IInv' /\ Recorded'
      /\ \A b \in Account : lastFeeWithdrawal'[b] = lastFeeWithdrawal[b] => Due'[b] = Due[b]
  BY <1>3, <1>4, <1>6, NoCloseKeeps
<1>8. Closing.feePeriodId \in 0 .. MaxPeriodId
  BY IdsAre, PeriodAssumption DEF PInv, IInv, TypeOK, PeriodId
<1>9. PoolTypes'
  BY <1>2, <1>3, <1>4, <1>8 DEF PInv, PoolTypes
<1>10. Dates'
  <2>1. \A b \in Account : lastFeeWithdrawal'[b] <= Closing.feePeriodId
    <3> TAKE b \in Account
    <3>1. lastFeeWithdrawal'[b] = IF b = a THEN Closing.feePeriodId ELSE lastFeeWithdrawal[b]
      BY <1>4 DEF PInv, PoolTypes
    <3>2. QED
      BY <1>5, <3>1 DEF PInv, Dates
  <2>2. QED
    BY <1>3, <1>4, <1>6, <2>1 DEF PInv, Dates, vars
<1>11. Counters'
  BY <1>1, <1>2, <1>3, <1>5, <1>6 DEF PInv, Counters
<1>12. Unclaimed(0)' = Unclaimed(0) /\ Unclaimed(1)' = Unclaimed(1) - due
  <2>1. Unclaimed(0)' = Unclaimed(0)
    BY <1>3 DEF Unclaimed, Current
  <2>2. /\ Unclaimed(1)' = Closing'.rewardsToDistribute - Closing'.rewardsClaimed
        /\ Unclaimed(1) = Closing.rewardsToDistribute - Closing.rewardsClaimed
    BY DEF Unclaimed, Closing
  <2>3. QED
    BY <1>5, <1>6, <2>1, <2>2
<1>13. Unclaimed(1) \in Int /\ Unclaimed(0) \in Int
  BY PeriodFields DEF PInv, Unclaimed, Current, Closing
<1>14. DueIsThere'
  <2>1. PICK d \in [Account -> Nat] : d = Due
    BY <1>1
  <2>2. PICK nothing \in Nat : nothing = 0
    OBVIOUS
  <2>3. PICK z : z = [d EXCEPT ![a] = nothing]
    OBVIOUS
  <2>4. \A b \in Account : Due'[b] = z[b]
    <3> TAKE b \in Account
    <3>1. CASE b = a
      <4>1. lastFeeWithdrawal'[a] = Closing.feePeriodId
        BY <1>4 DEF PInv, PoolTypes
      <4>2. Due'[a] = 0
        BY <1>5, <1>6, <4>1 DEF Due
      <4>3. QED
        BY <2>2, <2>3, <3>1, <4>2
    <3>2. CASE b # a
      <4>1. lastFeeWithdrawal'[b] = lastFeeWithdrawal[b]
        BY <1>4, <3>2 DEF PInv, PoolTypes
      <4>2. QED
        BY <1>7, <2>1, <2>3, <3>2, <4>1
    <3>3. QED
      BY <3>1, <3>2
  <2>5. Due' = z
    BY <2>3, <2>4 DEF Due
  <2>6. SumOf(z) = SumOf(d) - d[a] + nothing
    BY <2>3, AccountAssumption, SumOfUpdate
  <2>7. SumOf(d) \in Nat /\ d[a] = due
    BY <1>2, <2>1, AccountAssumption, SumOfType
  <2>8. SumOf(d) <= Unclaimed(1)
    BY <2>1 DEF PInv, DueIsThere
  <2>9. QED
    BY <1>12, <1>13, <2>2, <2>5, <2>6, <2>7, <2>8 DEF DueIsThere
<1>15. EscrowCoversRewards'
  <2>1. PICK e \in [Account -> Nat] : e = escrowed
    BY DEF PInv, PoolTypes
  <2>2. PICK v \in Nat : v = e[a] + due
    OBVIOUS
  <2>3. PICK f : f = [e EXCEPT ![a] = v]
    OBVIOUS
  <2>4. SumOf(f) = SumOf(e) - e[a] + v
    BY <2>3, AccountAssumption, SumOfUpdate
  <2>5. SumOf(e) \in Nat /\ escrowed' = f
    BY <1>3, <2>1, <2>2, <2>3, AccountAssumption, SumOfType
  <2>6. escrowTokens = SumOf(e) + Unclaimed(0) + Unclaimed(1)
    BY <2>1 DEF PInv, EscrowCoversRewards
  <2>7. escrowTokens' = SumOf(f) + Unclaimed(0)' + Unclaimed(1)'
    BY <1>4, <1>12, <1>13, <2>2, <2>4, <2>5, <2>6
  <2>8. QED
    BY <2>5, <2>7 DEF EscrowCoversRewards
<1>16. QED
  BY <1>7, <1>9, <1>10, <1>11, <1>14, <1>15 DEF PInv

LEMMA SharesStep ==
  ASSUME PInv, SharesMove \/ OtherSnapshot
  PROVE  /\ [Next]_vars /\ UNCHANGED <<now, poolVars, escrowVars>>
         /\ currentPeriodId <= currentPeriodId' /\ currentPeriodId' <= now
<1>1. currentPeriodId \in Nat /\ now \in PeriodId /\ now \in Nat /\ currentPeriodId <= now
  BY IdsAre DEF PInv, IInv, TypeOK, Dates
<1>2. CASE SharesMove
  <2>1. /\ \/ \E a \in Account, n \in Amount : mintShare(a, n) \/ burnShare(a, n)
           \/ \E broker \in Operator, from \in Account, to \in Account, n \in Amount :
                transferFrom(broker, from, to, n)
        /\ UNCHANGED <<now, poolVars, escrowVars>>
    BY <1>2 DEF SharesMove
  <2>2. Next
    BY <2>1 DEF Next
  <2>3. currentPeriodId' = currentPeriodId
    BY <2>1 DEF mintShare, burnShare, transferFrom
  <2>4. QED
    BY <1>1, <2>1, <2>2, <2>3
<1>3. CASE OtherSnapshot
  <2>1. PICK sender \in Operator : takeSnapshot(sender, now)
    BY <1>3 DEF OtherSnapshot
  <2>2. Next
    BY <1>1, <2>1 DEF Next
  <2>3. currentPeriodId' = now /\ UNCHANGED <<now, poolVars, escrowVars>>
    BY <1>3, <2>1 DEF takeSnapshot, OtherSnapshot
  <2>4. QED
    BY <1>1, <2>2, <2>3
<1>4. QED
  BY <1>2, <1>3

LEMMA TimeStep ==
  ASSUME PInv, TimePasses \/ UNCHANGED systemVars
  PROVE  /\ [Next]_vars /\ UNCHANGED <<poolVars, escrowVars>>
         /\ now' \in 2 .. MaxPeriodId /\ now <= now'
         /\ currentPeriodId <= currentPeriodId' /\ currentPeriodId' <= now'
<1>1. currentPeriodId \in Nat /\ now \in Nat /\ currentPeriodId <= now /\ now \in 2 .. MaxPeriodId
  BY IdsAre DEF PInv, IInv, TypeOK, Dates, PoolTypes
<1>2. MaxPeriodId \in Nat
  BY PeriodAssumption
<1>3. /\ UNCHANGED vars /\ UNCHANGED <<poolVars, escrowVars>>
      /\ now' = now \/ (now < MaxPeriodId /\ now' = now + 1)
  BY DEF TimePasses, systemVars
<1>4. currentPeriodId' = currentPeriodId
  BY <1>3 DEF vars
<1>5. QED
  BY <1>1, <1>2, <1>3, <1>4

(* The closes: without a relay in the second a period began, that period   *)
(* is older than the new one.                                              *)
LEMMA CloseIsLater ==
  ASSUME PInv, ~SameSecondRelay, closeCurrentFeePeriod \/ closeSecondary
  PROVE  _closeSecondary /\ Current.startTime < now
<1>1. Current.startTime \in Nat /\ now \in Nat /\ FeePeriodDuration \in Nat \ {0}
  BY PeriodFields, RewardAssumption DEF PInv, PoolTypes
<1>2. QED
  BY <1>1 DEF closeCurrentFeePeriod, closeSecondary, Current

LEMMA PoolStepPreserves ==
  ASSUME PInv, ~SameSecondRelay, [PoolNext]_systemVars
  PROVE  PInv'
<1>1. RewardAmount \subseteq Nat
  BY RewardAssumption
<1>2. ASSUME NEW n \in RewardAmount, recordFeePaid(n) \/ distributeRewards(n)
      PROVE  PInv'
  BY <1>1, <1>2, FeePaidPreserves, DistributePreserves
<1>3. CASE closeCurrentFeePeriod \/ closeSecondary
  BY <1>3, CloseIsLater, ClosePreserves
<1>4. ASSUME NEW a \in Account, claimFees(a)
      PROVE  PInv'
  BY <1>4, ClaimPreserves
<1>5. CASE SharesMove \/ OtherSnapshot
  <2>1. /\ [Next]_vars /\ UNCHANGED <<now, poolVars, escrowVars>>
        /\ currentPeriodId <= currentPeriodId' /\ currentPeriodId' <= now
    BY <1>5, SharesStep
  <2>2. now' = now /\ now \in 2 .. MaxPeriodId /\ now \in Nat
    BY <2>1 DEF PInv, PoolTypes
  <2>3. QED
    BY <2>1, <2>2, QuietPreserves
<1>6. CASE TimePasses \/ UNCHANGED systemVars
  BY <1>6, TimeStep, QuietPreserves
<1>7. QED
  BY <1>2, <1>3, <1>4, <1>5, <1>6 DEF PoolNext

-----------------------------------------------------------------------------
(* What follows from it.                                                   *)

LEMMA ScanGetsThere ==
  ASSUME IInv, NEW a \in Account, NEW p \in PeriodId,
         \/ Len(balances[a]) <= MaxPeriodIterate
         \/ Cardinality({i \in DOMAIN balances[a] : balances[a][i].periodId > p}) < MaxPeriodIterate
  PROVE  balanceOfOnPeriod(a, p) # Reverts
<1> DEFINE h       == balances[a]
           oldest  == IF MaxPeriodIterate < Len(h) THEN Len(h) - MaxPeriodIterate + 1 ELSE 1
           visible == {i \in oldest .. Len(h) : h[i].periodId <= p}
           later   == {i \in DOMAIN h : h[i].periodId > p}
<1>1. h \in Seq(PeriodBalance) /\ Len(h) \in Nat /\ p \in Nat /\ MaxPeriodIterate \in Nat \ {0}
  BY PeriodAssumption, IterateAssumption DEF IInv, TypeOK, PeriodId
<1>2. oldest \in Nat /\ oldest >= 1
  BY <1>1
<1>3. CASE visible # {}
  <2>1. visible \in SUBSET (1 .. Len(h))
    BY <1>1, <1>2
  <2>2. \E k \in visible : \A j \in visible : j <= k
    BY <1>1, <1>3, <2>1, LargestExists
  <2>3. PICK k : k = CHOOSE i \in visible : \A j \in visible : j <= i
    OBVIOUS
  <2>4. k \in visible
    <3> HIDE DEF visible
    <3>1. QED
      BY <2>2, <2>3
  <2>5. h[k].amount \in Nat
    BY <1>1, <2>1, <2>4, EntryType
  <2>6. balanceOfOnPeriod(a, p) = h[k].amount
    BY <1>3, <2>3 DEF balanceOfOnPeriod
  <2>7. QED
    BY <2>5, <2>6 DEF Reverts
<1>4. CASE visible = {} /\ oldest = 1
  <2>1. balanceOfOnPeriod(a, p) = 0
    BY <1>4 DEF balanceOfOnPeriod
  <2>2. QED
    BY <2>1 DEF Reverts
<1>5. CASE visible = {} /\ oldest # 1
  <2>1. MaxPeriodIterate < Len(h) /\ oldest = Len(h) - MaxPeriodIterate + 1
    BY <1>5
  <2>2. oldest .. Len(h) \subseteq later
    <3> SUFFICES ASSUME NEW i \in oldest .. Len(h) PROVE i \in later
      OBVIOUS
    <3>1. i \in DOMAIN h /\ h[i].periodId \in Nat
      BY <1>1, <1>2, EntryType
    <3>2. ~(h[i].periodId <= p)
      BY <1>5
    <3>3. QED
      BY <1>1, <3>1, <3>2
  <2>3. IsFiniteSet(later)
    <3>1. PICK to \in Int : to = Len(h)
      BY <1>1
    <3>2. IsFiniteSet(1 .. to)
      BY FS_Interval
    <3>3. later \subseteq 1 .. to
      BY <1>1, <3>1
    <3> HIDE DEF later
    <3>4. QED
      BY <3>2, <3>3, FS_Subset
  <2>4. Cardinality(oldest .. Len(h)) = MaxPeriodIterate
    <3>1. PICK from \in Int : from = oldest
      BY <1>2
    <3>2. Len(h) \in Int /\ ~(from > Len(h)) /\ Len(h) - from + 1 = MaxPeriodIterate
      BY <1>1, <2>1, <3>1
    <3>3. PICK to \in Int : to = Len(h)
      BY <3>2
    <3>4. Cardinality(from .. to) = to - from + 1
      BY <3>2, <3>3, FS_Interval
    <3>5. QED
      BY <3>1, <3>2, <3>3, <3>4
  <2>5. Cardinality(oldest .. Len(h)) <= Cardinality(later) /\ Cardinality(later) \in Nat
    <3> HIDE DEF later, oldest
    <3>1. QED
      BY <2>2, <2>3, FS_Subset, FS_CardinalityType
  <2>6. QED
    BY <1>1, <2>1, <2>4, <2>5
<1>6. QED
  BY <1>3, <1>4, <1>5

LEMMA ReadableWhenReached ==
  ASSUME PInv
  PROVE  ClosedPeriodReadable
<1> SUFFICES ASSUME Closing.feePeriodId > 0, NEW a \in Account, Reached(a)
             PROVE  ShareReadable(a, Closing.feePeriodId)
  BY DEF ClosedPeriodReadable, Closing
<1>1. PICK p \in PeriodId : p = Closing.feePeriodId /\ RecordedFor(p)
  BY IdsAre DEF PInv, IInv, TypeOK, Recorded
<1>2. \/ Len(balances[a]) <= MaxPeriodIterate
      \/ Cardinality({i \in DOMAIN balances[a] : balances[a][i].periodId > p}) < MaxPeriodIterate
  BY <1>1 DEF Reached, LaterCheckpoints, Closing
<1>3. balanceOfOnPeriod(a, p) # Reverts
  BY <1>2, ScanGetsThere DEF PInv
<1>4. balanceOfOnPeriod(a, p) = BalanceAt(balances[a], p)
  BY <1>3, ScanExact DEF PInv, ScanIsExactOrReverts
<1>5. Owned(p)[a] = BalanceAt(balances[a], p)
  BY DEF Owned
<1>6. Owned(p)[a] # 0 => totalSupplyOnPeriod[p] \in Nat \ {0}
  BY <1>1, WorthType DEF PInv
<1>7. balanceOfOnPeriod(a, p) = 0 \/ totalSupplyOnPeriod[p] > 0
  BY <1>4, <1>5, <1>6
<1>8. QED
  BY <1>1, <1>3, <1>7 DEF ShareReadable

LEMMA PoolTyped ==
  ASSUME PInv
  PROVE  PoolTypeOK
BY DEF PInv, PoolTypes, PoolTypeOK, IInv, Dates, Current

LEMMA PayableWhenReached ==
  ASSUME PInv
  PROVE  ClaimsPayable
BY PoolTyped, ReadableWhenReached DEF ClaimsPayable, PInv

(* A claim pays what the shares are worth, out of the closed period.       *)
LEMMA ClaimPays ==
  ASSUME PInv, [PoolNext]_systemVars, NEW a \in Account, escrowed'[a] # escrowed[a]
  PROVE  /\ escrowed'[a] - escrowed[a] = Entitlement(a).rewards
         /\ Unclaimed(1) - Unclaimed(1)' = Entitlement(a).rewards
         /\ lastFeeWithdrawal[a] < Recent(1).feePeriodId
         /\ lastFeeWithdrawal'[a] = Recent(1).feePeriodId
<1>1. PICK b \in Account : claimFees(b)
  <2>1. escrowed' # escrowed
    OBVIOUS
  <2>2. ASSUME \/ \E n \in RewardAmount : recordFeePaid(n) \/ distributeRewards(n)
               \/ closeCurrentFeePeriod \/ closeSecondary
        PROVE  escrowed' = escrowed
    BY <2>2 DEF recordFeePaid, distributeRewards, closeCurrentFeePeriod, closeSecondary,
                _closeSecondary, escrowVars
  <2>3. ASSUME SharesMove \/ OtherSnapshot \/ TimePasses \/ UNCHANGED systemVars
        PROVE  escrowed' = escrowed
    BY <2>3 DEF SharesMove, OtherSnapshot, TimePasses, systemVars, escrowVars
  <2>4. QED
    BY <2>1, <2>2, <2>3 DEF PoolNext
<1>2. /\ lastFeeWithdrawal[b] < Closing.feePeriodId /\ feesAvailable(b).rewards = Due[b]
      /\ Entitlement(b).rewards = Due[b]
      /\ Due \in [Account -> Nat]
      /\ Due[b] <= Closing.rewardsToDistribute - Closing.rewardsClaimed
  BY <1>1, ClaimIsDue
<1>3. PICK due \in Nat : due = Due[b]
  BY <1>2
<1>4. /\ Closing' = [Closing EXCEPT !.rewardsClaimed = @ + due]
      /\ escrowed' = [escrowed EXCEPT ![b] = @ + due]
  BY <1>1, <1>2, <1>3, ClaimRing DEF PInv, Counters
<1>5. a = b
  BY <1>4 DEF PInv, PoolTypes
<1>6. escrowed'[a] = escrowed[a] + due /\ escrowed[a] \in Nat
  BY <1>4, <1>5 DEF PInv, PoolTypes
<1>7. Unclaimed(1) - Unclaimed(1)' = due
  <2>1. /\ Closing \in FeePeriod /\ Closing.rewardsClaimed \in Nat /\ Closing.rewardsToDistribute \in Nat
    BY PeriodFields DEF PInv
  <2>2. /\ Closing'.rewardsToDistribute = Closing.rewardsToDistribute
        /\ Closing'.rewardsClaimed = Closing.rewardsClaimed + due
    BY <1>4, <2>1 DEF FeePeriod
  <2>3. /\ Unclaimed(1)' = Closing'.rewardsToDistribute - Closing'.rewardsClaimed
        /\ Unclaimed(1) = Closing.rewardsToDistribute - Closing.rewardsClaimed
    BY DEF Unclaimed, Closing
  <2>4. QED
    BY <2>1, <2>2, <2>3
<1>8. lastFeeWithdrawal'[a] = Closing.feePeriodId
  BY <1>1, <1>5 DEF claimFees, PInv, PoolTypes, Closing
<1>9. QED
  BY <1>2, <1>3, <1>5, <1>6, <1>7, <1>8 DEF Closing

(* What is left of the closed period is fixed but for what is claimed, and *)
(* so is what an account owned in it.                                      *)
LEMMA ClosedPeriodKept ==
  ASSUME PInv, ~SameSecondRelay, [PoolNext]_systemVars, currentFeePeriod' = currentFeePeriod
  PROVE  /\ [Next]_vars
         /\ Closing' = [Closing EXCEPT !.rewardsClaimed = Closing'.rewardsClaimed]
         /\ Current'.feePeriodId = Current.feePeriodId
<1>1. Closing \in FeePeriod /\ Current \in FeePeriod
  BY PeriodFields DEF PInv
<1>2. ASSUME Closing' = Closing
      PROVE  Closing' = [Closing EXCEPT !.rewardsClaimed = Closing'.rewardsClaimed]
  BY <1>1, <1>2 DEF FeePeriod
<1>3. ASSUME NEW n \in RewardAmount, recordFeePaid(n) \/ distributeRewards(n)
      PROVE  /\ UNCHANGED vars /\ Closing' = Closing
             /\ Current'.feePeriodId = Current.feePeriodId
  <2>1. n \in Nat
    BY RewardAssumption
  <2>2. CASE recordFeePaid(n)
    <3>1. Closing' = Closing /\ Current' = [Current EXCEPT !.feesToDistribute = @ + n]
      BY <2>1, <2>2, FeePaidRing DEF PInv
    <3>2. QED
      BY <1>1, <2>2, <3>1 DEF recordFeePaid, FeePeriod
  <2>3. CASE distributeRewards(n)
    <3>1. Closing' = Closing /\ Current' = [Current EXCEPT !.rewardsToDistribute = @ + n]
      BY <2>1, <2>3, DistributeRing DEF PInv
    <3>2. QED
      BY <1>1, <2>3, <3>1 DEF distributeRewards, FeePeriod
  <2>4. QED
    BY <1>3, <2>2, <2>3
<1>4. ASSUME closeCurrentFeePeriod \/ closeSecondary
      PROVE  FALSE
  BY <1>4, CloseIsLater, CloseRing DEF PInv, Counters
<1>5. ASSUME NEW a \in Account, claimFees(a)
      PROVE  /\ UNCHANGED vars /\ Current' = Current
             /\ Closing' = [Closing EXCEPT !.rewardsClaimed = Closing'.rewardsClaimed]
  <2>1. /\ feesAvailable(a).rewards = Due[a] /\ Due \in [Account -> Nat]
        /\ Due[a] <= Closing.rewardsToDistribute - Closing.rewardsClaimed
    BY <1>5, ClaimIsDue
  <2>2. PICK due \in Nat : due = Due[a]
    BY <2>1
  <2>3. Closing' = [Closing EXCEPT !.rewardsClaimed = @ + due] /\ Current' = Current
    BY <1>5, <2>1, <2>2, ClaimRing DEF PInv, Counters
  <2>4. UNCHANGED vars
    BY <1>5 DEF claimFees
  <2>5. QED
    BY <1>1, <2>3, <2>4 DEF FeePeriod
<1>6. CASE SharesMove \/ OtherSnapshot
  BY <1>2, <1>6, SharesStep, StayRing DEF PInv, poolVars
<1>7. CASE TimePasses \/ UNCHANGED systemVars
  BY <1>2, <1>7, TimeStep, StayRing DEF PInv, poolVars
<1>8. QED
  BY <1>2, <1>3, <1>4, <1>5, <1>6, <1>7 DEF PoolNext

\* Of an account that the scan reaches the code reads what its history says.
ReadsExactly(a) ==
  Closing.feePeriodId > 0 /\ Reached(a) =>
    sharePercentOnPeriod(a, Closing.feePeriodId) = Percent(a, Closing.feePeriodId)

LEMMA ReadsExactlyWhenReached == PInv => \A a \in Account : ReadsExactly(a)
<1> SUFFICES ASSUME PInv, Closing.feePeriodId > 0, NEW a \in Account, Reached(a)
             PROVE  sharePercentOnPeriod(a, Closing.feePeriodId) = Percent(a, Closing.feePeriodId)
  BY DEF ReadsExactly
<1>1. Closing.feePeriodId \in PeriodId
  BY IdsAre DEF PInv, IInv, TypeOK
<1>2. balanceOfOnPeriod(a, Closing.feePeriodId) # Reverts
  BY ReadableWhenReached DEF ClosedPeriodReadable, ShareReadable, Closing
<1>3. QED
  BY <1>1, <1>2, EntitlementIs DEF PInv

LEMMA ReadsExactlyNext == PInv' => (\A a \in Account : ReadsExactly(a))'
BY ReadsExactlyWhenReached, PTL

LEMMA StaysWhenReached ==
  ASSUME PInv, ~SameSecondRelay, [PoolNext]_systemVars
  PROVE  EntitlementStays
<1> SUFFICES ASSUME currentFeePeriod' = currentFeePeriod
             PROVE  /\ Closing' = [Closing EXCEPT !.rewardsClaimed = Closing'.rewardsClaimed]
                    /\ Closing.feesToDistribute + Closing.rewardsToDistribute > 0 =>
                         \A a \in Account : Reached(a) /\ Reached(a)' =>
                           sharePercentOnPeriod(a, Closing.feePeriodId)'
                             = sharePercentOnPeriod(a, Closing.feePeriodId)
  BY DEF EntitlementStays, Closing
<1>1. [Next]_vars /\ Closing' = [Closing EXCEPT !.rewardsClaimed = Closing'.rewardsClaimed]
  BY ClosedPeriodKept
<1>2. Closing'.feePeriodId = Closing.feePeriodId
  BY <1>1, PeriodFields DEF PInv, FeePeriod
<1>3. ASSUME Closing.feesToDistribute + Closing.rewardsToDistribute > 0, NEW a \in Account,
             Reached(a), Reached(a)'
      PROVE  sharePercentOnPeriod(a, Closing.feePeriodId)'
               = sharePercentOnPeriod(a, Closing.feePeriodId)
  <2>1. Closing.feePeriodId \in Nat /\ Closing.feePeriodId > 0
    BY <1>3, PeriodFields DEF PInv, Counters
  <2>2. PICK p : p = Closing.feePeriodId
    OBVIOUS
  <2>3. BalanceAt(balances'[a], p) = BalanceAt(balances[a], p) /\ totalSupplyOnPeriod'[p] = totalSupplyOnPeriod[p]
    BY <1>1, <1>2, <2>1, <2>2, WorthStays
  <2>4. Owned(p)[a] = BalanceAt(balances[a], p) /\ Owned(p)'[a] = BalanceAt(balances'[a], p)
    BY DEF Owned
  <2>5. Percent(a, p)' = Percent(a, p)
    BY <2>3, <2>4 DEF Percent
  <2>6. sharePercentOnPeriod(a, p) = Percent(a, p)
    BY <1>3, <2>1, <2>2, ReadsExactlyWhenReached DEF ReadsExactly
  <2>7. PInv'
    BY PoolStepPreserves
  <2>8. ReadsExactly(a)'
    BY <2>7, ReadsExactlyNext
  <2>9. Closing.feePeriodId' = p
    BY <1>2, <2>2
  <2>10. Percent(a, Closing.feePeriodId)' = Percent(a, p)'
    BY <2>9 DEF Percent, Owned
  <2>11. sharePercentOnPeriod(a, Closing.feePeriodId)' = Percent(a, Closing.feePeriodId)'
    BY <1>3, <2>1, <2>2, <2>8, <2>9 DEF ReadsExactly
  <2>12. QED
    BY <2>2, <2>5, <2>6, <2>10, <2>11
<1>4. QED
  BY <1>1, <1>3

-----------------------------------------------------------------------------
(* When the scan reaches everybody.                                        *)

ScanReaches == Closing.feePeriodId > 0 => \A a \in Account : Reached(a)

\* There are no more periods than it looks at checkpoints, or the pool is the
\* only one to take snapshots and it looks at two.
ScanSuffices ==
  \/ MaxPeriodIterate >= MaxPeriodId
  \/ Operator = {} /\ MaxPeriodIterate >= 2

\* With nobody else to take snapshots, the periods of the shares are those of
\* the pool.
OnlyPoolCloses ==
  /\ currentPeriodId = Current.feePeriodId
  /\ \A a \in Account : \A i \in DOMAIN balances[a] :
       balances[a][i].periodId > Closing.feePeriodId => balances[a][i].periodId = currentPeriodId

LEMMA OnlyPoolClosesInit == PoolInit => OnlyPoolCloses
<1> SUFFICES ASSUME PoolInit PROVE OnlyPoolCloses
  OBVIOUS
<1>1. Current = recentFeePeriods[0]
  <2>1. currentFeePeriod \in Index
    BY DEF PoolInit, Index, FEE_PERIOD_LENGTH
  <2>2. QED
    BY <2>1, RecentAre DEF PoolInit
<1>2. 0 \in Index
  BY DEF Index, FEE_PERIOD_LENGTH
<1>3. PICK b : b = [NoPeriod EXCEPT !.feePeriodId = 1, !.startTime = now]
  OBVIOUS
<1>4. Current = b
  BY <1>1, <1>2, <1>3 DEF PoolInit
<1>5. b.feePeriodId = 1
  BY <1>3 DEF NoPeriod
<1>6. QED
  BY <1>4, <1>5 DEF PoolInit, OnlyPoolCloses

(* Shares that move write into the current period only.                    *)
LEMMA SharesMoveExtend ==
  ASSUME IInv, SharesMove
  PROVE  /\ currentPeriodId' = currentPeriodId
         /\ \A a \in Account : Extends(balances'[a], balances[a])
<1>1. ASSUME NEW a \in Account, NEW n \in Amount, mintShare(a, n) \/ burnShare(a, n)
      PROVE  \E h : Records(h)
  BY <1>1, MintRecords, BurnRecords
<1>2. ASSUME NEW broker \in Operator, NEW from \in Account, NEW to \in Account, NEW n \in Amount,
             transferFrom(broker, from, to, n)
      PROVE  \E h : Records(h)
  BY <1>2, TransferRecords
<1>3. \E h : Records(h)
  BY <1>1, <1>2 DEF SharesMove
<1>4. QED
  BY <1>3 DEF Records

LEMMA OnlyPoolClosesStep ==
  ASSUME PInv, OnlyPoolCloses, Operator = {}, ~SameSecondRelay, [PoolNext]_systemVars
  PROVE  OnlyPoolCloses'
<1>1. ~OtherSnapshot
  BY DEF OtherSnapshot
<1>2. CASE currentFeePeriod' = currentFeePeriod
  <2>1. Closing'.feePeriodId = Closing.feePeriodId /\ Current'.feePeriodId = Current.feePeriodId
    BY <1>2, ClosedPeriodKept, PeriodFields DEF PInv, FeePeriod
  <2>2. CASE SharesMove
    <3>1. /\ currentPeriodId' = currentPeriodId
          /\ \A a \in Account : Extends(balances'[a], balances[a])
      BY <2>2, SharesMoveExtend DEF PInv
    <3>2. ASSUME NEW a \in Account, NEW i \in DOMAIN balances'[a],
                 balances'[a][i].periodId > Closing.feePeriodId,
                 balances'[a][i].periodId # currentPeriodId
          PROVE  FALSE
      <4>1. PICK j \in DOMAIN balances[a] : balances[a][j].periodId = balances'[a][i].periodId
        BY <3>1, <3>2 DEF Extends
      <4>2. QED
        BY <3>2, <4>1 DEF OnlyPoolCloses
    <3>3. QED
      BY <2>1, <3>1, <3>2 DEF OnlyPoolCloses
  <2>3. CASE ~SharesMove
    <3>1. ~(closeCurrentFeePeriod \/ closeSecondary)
      BY <1>2, CloseIsLater, CloseRing DEF PInv, Counters
    <3>2. UNCHANGED vars
      <4>1. ASSUME \/ \E n \in RewardAmount : recordFeePaid(n) \/ distributeRewards(n)
                   \/ \E a \in Account : claimFees(a)
            PROVE  UNCHANGED vars
        BY <4>1 DEF recordFeePaid, distributeRewards, claimFees
      <4>2. ASSUME TimePasses \/ UNCHANGED systemVars
            PROVE  UNCHANGED vars
        BY <4>2 DEF TimePasses, systemVars
      <4>3. QED
        BY <1>1, <2>3, <3>1, <4>1, <4>2 DEF PoolNext
    <3>3. QED
      BY <2>1, <3>2 DEF OnlyPoolCloses, vars
  <2>4. QED
    BY <2>2, <2>3
<1>3. CASE currentFeePeriod' # currentFeePeriod
  <2>1. closeCurrentFeePeriod \/ closeSecondary
    <3>1. ASSUME \/ \E n \in RewardAmount : recordFeePaid(n) \/ distributeRewards(n)
                 \/ \E a \in Account : claimFees(a)
          PROVE  FALSE
      BY <1>3, <3>1 DEF recordFeePaid, distributeRewards, claimFees
    <3>2. ASSUME SharesMove \/ TimePasses \/ UNCHANGED systemVars
          PROVE  FALSE
      BY <1>3, <3>2 DEF SharesMove, TimePasses, systemVars, poolVars
    <3>3. QED
      BY <1>1, <3>1, <3>2 DEF PoolNext
  <2>2. _closeSecondary
    BY <2>1, CloseIsLater
  <2>3. Current' = Begun /\ Closing' = Closed(Current, Closing)
    BY <2>2, CloseRing DEF PInv, Counters
  <2>4. Current'.feePeriodId = now
    <3>1. PICK b : b = Begun
      OBVIOUS
    <3>2. b.feePeriodId = now
      BY <3>1 DEF Begun, NoPeriod
    <3>3. QED
      BY <2>3, <3>1, <3>2
  <2>5. Closing'.feePeriodId = Current.feePeriodId
    <3>1. Current \in FeePeriod
      BY PeriodFields DEF PInv
    <3>2. PICK f : f = Closing.feesToDistribute - Closing.feesClaimed + Current.feesToDistribute
      OBVIOUS
    <3>3. PICK g : g = IF f > 0 THEN f ELSE Current.feesClaimed
      OBVIOUS
    <3>4. PICK r : r = Closing.rewardsToDistribute - Closing.rewardsClaimed + Current.rewardsToDistribute
      OBVIOUS
    <3>5. Closed(Current, Closing) = [Current EXCEPT !.feesToDistribute = f, !.feesClaimed = g,
                                                     !.rewardsToDistribute = r]
      BY <3>1, <3>2, <3>3, <3>4 DEF Closed, FeePeriod
    <3>6. QED
      BY <2>3, <3>1, <3>5 DEF FeePeriod
  <2>6. currentPeriodId \in Nat /\ now \in Nat /\ currentPeriodId <= now
    BY IdsAre DEF PInv, IInv, TypeOK, Dates
  <2>7. currentPeriodId' = now /\ balances' = balances
    BY <2>2, <2>6 DEF _closeSecondary, setCurrentPeriodId, takeSnapshot, vars
  <2>8. ASSUME NEW a \in Account, NEW i \in DOMAIN balances[a]
        PROVE  ~(balances[a][i].periodId > Current.feePeriodId)
    <3>1. balances[a] \in Seq(PeriodBalance) /\ Ordered(balances[a], currentPeriodId)
      BY DEF PInv, IInv, TypeOK, HistoryOrdered
    <3>2. balances[a][i].periodId \in Nat /\ balances[a][i].periodId <= currentPeriodId
      BY <3>1, EntryType DEF Ordered
    <3>3. QED
      BY <2>6, <3>2 DEF OnlyPoolCloses
  <2>9. QED
    BY <2>4, <2>5, <2>7, <2>8 DEF OnlyPoolCloses
<1>4. QED
  BY <1>2, <1>3

(* No account has two checkpoints of one period.                           *)
LEMMA CheckpointsOfPeriods ==
  ASSUME IInv, NEW a \in Account, NEW Later \in SUBSET DOMAIN balances[a],
         NEW S, IsFiniteSet(S), \A i \in Later : balances[a][i].periodId \in S
  PROVE  Cardinality(Later) <= Cardinality(S)
<1>1. PICK f \in [Later -> S] : \A i \in Later : f[i] = balances[a][i].periodId
  <2>1. PICK g : g = [i \in Later |-> balances[a][i].periodId]
    OBVIOUS
  <2>2. QED
    BY <2>1
<1>2. balances[a] \in Seq(PeriodBalance) /\ Ordered(balances[a], currentPeriodId)
  BY DEF IInv, TypeOK, HistoryOrdered
<1>3. ASSUME NEW i \in Later, NEW j \in Later, f[i] = f[j]
      PROVE  i = j
  <2>1. i \in Nat /\ j \in Nat /\ i \in DOMAIN balances[a] /\ j \in DOMAIN balances[a]
    BY <1>2
  <2>2. balances[a][i].periodId \in Nat /\ balances[a][j].periodId \in Nat
    BY <1>2, <2>1, EntryType
  <2>3. balances[a][i].periodId = balances[a][j].periodId
    BY <1>1, <1>3
  <2>4. ~(i < j) /\ ~(j < i)
    BY <1>2, <2>1, <2>2, <2>3 DEF Ordered
  <2>5. QED
    BY <2>1, <2>4
<1>4. f \in Injection(Later, S)
  BY <1>3 DEF Injection, IsInjective
<1>5. QED
  BY <1>4, FS_Injection

LEMMA ScanReachesThere ==
  ASSUME PInv, \/ MaxPeriodIterate >= MaxPeriodId
               \/ OnlyPoolCloses /\ MaxPeriodIterate >= 2
  PROVE  ScanReaches
<1> SUFFICES ASSUME Closing.feePeriodId > 0, NEW a \in Account
             PROVE  Cardinality(LaterCheckpoints(a)) < MaxPeriodIterate
  BY DEF ScanReaches, Reached
<1>1. PICK Later \in SUBSET DOMAIN balances[a] : Later = LaterCheckpoints(a)
  BY DEF LaterCheckpoints
<1>2. MaxPeriodIterate \in Nat /\ MaxPeriodId \in Int /\ PeriodId = 1 .. MaxPeriodId
  BY IterateAssumption, PeriodAssumption DEF PeriodId
<1>3. IsFiniteSet(DOMAIN balances[a])
  <2>1. PICK n \in Int : DOMAIN balances[a] = 1 .. n
    BY DEF PInv, IInv, TypeOK
  <2>2. QED
    BY <2>1, FS_Interval
<1>4. Cardinality(Later) \in Nat
  BY <1>3, FS_Subset, FS_CardinalityType
<1>5. \A i \in Later : /\ balances[a][i].periodId > Closing.feePeriodId
                       /\ balances[a][i].periodId \in PeriodId
                       /\ balances[a][i].periodId \in Nat
  <2>1. PICK h \in Seq(PeriodBalance) : h = balances[a]
    BY DEF PInv, IInv, TypeOK
  <2>2. \A i \in DOMAIN h : h[i].periodId \in PeriodId /\ h[i].periodId \in Nat
    BY EntryType
  <2>3. \A i \in Later : balances[a][i].periodId > Closing.feePeriodId
    BY <1>1 DEF LaterCheckpoints, Closing
  <2>4. QED
    BY <2>1, <2>2, <2>3
<1>6. CASE MaxPeriodIterate >= MaxPeriodId
  <2>1. PICK c \in Nat : c = Closing.feePeriodId /\ c >= 1
    BY PeriodFields DEF PInv
  <2>2. MaxPeriodId >= 1
    BY PeriodAssumption
  <2>3. \A i \in Later : balances[a][i].periodId \in 2 .. MaxPeriodId
    <3> TAKE i \in Later
    <3>1. PICK q \in Nat : q = balances[a][i].periodId /\ q \in 1 .. MaxPeriodId /\ q > c
      BY <1>2, <1>5, <2>1
    <3>2. q \in 2 .. MaxPeriodId
      BY <1>2, <2>1, <3>1
    <3>3. QED
      BY <3>1, <3>2
  <2>4. IsFiniteSet(2 .. MaxPeriodId) /\ Cardinality(2 .. MaxPeriodId) = MaxPeriodId - 1
    <3>1. PICK two \in Int : two = 2
      OBVIOUS
    <3>2. IsFiniteSet(two .. MaxPeriodId) /\ Cardinality(two .. MaxPeriodId) =
            IF two > MaxPeriodId THEN 0 ELSE MaxPeriodId - two + 1
      BY <1>2, FS_Interval
    <3>3. (IF two > MaxPeriodId THEN 0 ELSE MaxPeriodId - two + 1) = MaxPeriodId - 1
      BY <1>2, <2>2, <3>1
    <3>4. QED
      BY <3>1, <3>2, <3>3
  <2>5. Cardinality(Later) <= Cardinality(2 .. MaxPeriodId)
    BY <2>3, <2>4, CheckpointsOfPeriods DEF PInv
  <2>6. QED
    BY <1>1, <1>2, <1>4, <1>6, <2>4, <2>5
<1>7. CASE OnlyPoolCloses /\ MaxPeriodIterate >= 2
  <2>1. \A i \in Later : balances[a][i].periodId \in {currentPeriodId}
    BY <1>5, <1>7 DEF OnlyPoolCloses
  <2>2. IsFiniteSet({currentPeriodId}) /\ Cardinality({currentPeriodId}) = 1
    BY FS_Singleton
  <2>3. Cardinality(Later) <= 1
    BY <2>1, <2>2, CheckpointsOfPeriods DEF PInv
  <2>4. QED
    BY <1>1, <1>2, <1>4, <1>7, <2>3
<1>8. QED
  BY <1>6, <1>7

-----------------------------------------------------------------------------
(* The theorems about the fee periods.  In them a close is never relayed   *)
(* in the second the current period began, as in the runs.                 *)

LEMMA PInvInvariant ==
  ASSUME ~SameSecondRelay
  PROVE  PoolSpec => []PInv
<1>1. PoolInit => PInv
  BY PoolInitInv
<1>2. PInv /\ [PoolNext]_systemVars => PInv'
  BY PoolStepPreserves
<1>3. QED
  BY <1>1, <1>2, PTL DEF PoolSpec

LEMMA ReachInvariant ==
  ASSUME ~SameSecondRelay, ScanSuffices
  PROVE  PoolSpec => []ScanReaches
<1>1. CASE MaxPeriodIterate >= MaxPeriodId
  <2>1. PInv => ScanReaches
    BY <1>1, ScanReachesThere
  <2>2. QED
    BY <2>1, PInvInvariant, PTL
<1>2. CASE Operator = {} /\ MaxPeriodIterate >= 2
  <2>1. PoolInit => OnlyPoolCloses
    BY OnlyPoolClosesInit
  <2>2. PInv /\ OnlyPoolCloses /\ [PoolNext]_systemVars => OnlyPoolCloses'
    BY <1>2, OnlyPoolClosesStep
  <2>3. PInv /\ OnlyPoolCloses => ScanReaches
    BY <1>2, ScanReachesThere
  <2>4. QED
    BY <2>1, <2>2, <2>3, PInvInvariant, PTL DEF PoolSpec
<1>3. QED
  BY <1>1, <1>2 DEF ScanSuffices

(* The tokens of the escrow are always those of the vesting entries and of *)
(* what both periods still have to give.                                   *)
THEOREM RewardsConserved ==
  ASSUME ~SameSecondRelay
  PROVE  PoolSpec => [](PoolTypeOK /\ EscrowCoversRewards)
<1>1. PInv => PoolTypeOK /\ EscrowCoversRewards
  BY PoolTyped DEF PInv
<1>2. QED
  BY <1>1, PInvInvariant, PTL

(* Every claim of the closed period by an account that the scan of         *)
(* balanceOfOnPeriod reaches can be carried out, whatever closes, claims,  *)
(* movements of shares and snapshots came before, and however long the     *)
(* scan is.                                                                *)
THEOREM ReachedClaimsPayable ==
  ASSUME ~SameSecondRelay
  PROVE  PoolSpec => []ClaimsPayable
<1>1. PInv => ClaimsPayable
  BY PayableWhenReached
<1>2. QED
  BY <1>1, PInvInvariant, PTL

(* It reaches everybody if it is longer than any history, or if the pool   *)
(* alone takes snapshots: then two checkpoints are enough.                 *)
THEOREM EverybodyReached ==
  ASSUME ~SameSecondRelay, ScanSuffices
  PROVE  PoolSpec => []ScanReaches
BY ReachInvariant

(* Whatever the scan, an account is paid once for a period, all that its   *)
(* shares are worth, out of what that period has left.                     *)
THEOREM PaidOnceInFull ==
  ASSUME ~SameSecondRelay
  PROVE  PoolSpec => PaidInFullAndOnce
<1>1. PInv /\ [PoolNext]_systemVars =>
        [\A a \in Account : escrowed'[a] # escrowed[a] =>
           /\ escrowed'[a] - escrowed[a] = Entitlement(a).rewards
           /\ Unclaimed(1) - Unclaimed(1)' = Entitlement(a).rewards
           /\ lastFeeWithdrawal[a] < Recent(1).feePeriodId
           /\ lastFeeWithdrawal'[a] = Recent(1).feePeriodId]_systemVars
  BY ClaimPays
<1>2. QED
  BY <1>1, PInvInvariant, PTL DEF PoolSpec, PaidInFullAndOnce

(* Between two closes nothing changes what is to be claimed, nor which part *)
(* of it is that of an account the scan reaches.                            *)
THEOREM EntitlementsStay ==
  ASSUME ~SameSecondRelay
  PROVE  PoolSpec => EntitlementFixed
<1>1. PInv /\ [PoolNext]_systemVars => [EntitlementStays]_systemVars
  BY StaysWhenReached
<1>2. QED
  BY <1>1, PInvInvariant, PTL DEF PoolSpec, EntitlementFixed
=============================================================================
