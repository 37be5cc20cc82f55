------------------------- MODULE SynthetixDebtShare -------------------------
(***************************************************************************)
(* contracts/SynthetixDebtShare.sol: the shares of the debt pool.  Each    *)
(* account has a history of checkpoints, one per period in which its       *)
(* balance changed, and the total supply is kept per period, so that       *)
(* FeePool can ask what an account owned when a past fee period closed.    *)
(* Issuer mints and burns, authorized brokers move shares, the owner       *)
(* imports balances until the set-up is finished.                          *)
(***************************************************************************)
EXTENDS Integers, Sequences, FiniteSets, Sums

CONSTANTS
  Account,           \* holders of shares (address(0) is not one of them)
  Operator,          \* addresses the owner may authorize
  Issuer,            \* the address the resolver gives for "Issuer"
  Amount,            \* amounts passed by callers
  MaxPeriodId,       \* bound on period ids
  MaxPeriodIterate,  \* MAX_PERIOD_ITERATE, 30 in the code
  Uint128,           \* 2^128: amounts in a checkpoint are taken modulo it
  SupplyCap          \* bound on the shares in existence

ASSUME AccountAssumption == IsFiniteSet(Account)
ASSUME AmountAssumption == Amount \subseteq Nat
ASSUME PeriodAssumption == MaxPeriodId \in Nat \ {0}
ASSUME IterateAssumption == MaxPeriodIterate \in Nat \ {0}
\* The supply stays below 2^128: about 3.4e20 shares of 18 decimals.
ASSUME CapAssumption == /\ Uint128 \in Nat
                        /\ SupplyCap \in Nat
                        /\ SupplyCap < Uint128

VARIABLES
  balances,             \* per account, the sequence of its checkpoints
  totalSupplyOnPeriod,  \* per period id, the supply while it was current
  currentPeriodId,
  authorizedBrokers,
  authorizedToSnapshot,
  isInitialized         \* set once the owner has finished the import

vars == <<balances, totalSupplyOnPeriod, currentPeriodId, authorizedBrokers,
          authorizedToSnapshot, isInitialized>>

PeriodId == 1 .. MaxPeriodId
PeriodBalance == [amount : 0 .. Uint128 - 1, periodId : PeriodId]

-----------------------------------------------------------------------------
(* Views *)

Latest(history) == IF history = <<>> THEN 0 ELSE history[Len(history)].amount

balanceOf(account) == Latest(balances[account])

totalSupply == totalSupplyOnPeriod[currentPeriodId]

\* The checkpoint that was in force in a period: the last one not after it.
InForce(history, period, i) ==
  /\ i \in DOMAIN history
  /\ history[i].periodId <= period
  /\ \A j \in DOMAIN history : history[j].periodId <= period => j <= i

\* What the whole history says an account owned in a period.
BalanceAt(history, period) ==
  IF \E i \in DOMAIN history : history[i].periodId <= period
    THEN history[CHOOSE i \in DOMAIN history : InForce(history, period, i)].amount
    ELSE 0

Reverts == -1  \* not a uint: the call fails

\* A slip: zero when the scan ends.
balanceOfOnPeriodOrZero(account, period) ==
  LET history == balances[account]
      visible == {i \in DOMAIN history : /\ i > Len(history) - MaxPeriodIterate
                                         /\ history[i].periodId <= period}
  IN  IF visible # {}
        THEN history[CHOOSE i \in visible : \A j \in visible : j <= i].amount
        ELSE 0

\* A slip: the loop ends one checkpoint early.
balanceOfOnPeriodShort(account, period) ==
  LET history == balances[account]
      oldest  == IF MaxPeriodIterate < Len(history)
                   THEN Len(history) - MaxPeriodIterate + 1 ELSE 1
      visible == {i \in oldest + 1 .. Len(history) : history[i].periodId <= period}
  IN  IF visible # {}
        THEN history[CHOOSE i \in visible : \A j \in visible : j <= i].amount
        ELSE IF history = <<>> THEN 0 ELSE Reverts

\* The view looks at the last MaxPeriodIterate checkpoints only: it fails when
\* none of them is old enough and older ones were not looked at.
balanceOfOnPeriod(account, period) ==
  LET history == balances[account]
      oldest  == IF MaxPeriodIterate < Len(history)
                   THEN Len(history) - MaxPeriodIterate + 1 ELSE 1
      visible == {i \in oldest .. Len(history) : history[i].periodId <= period}
  IN  IF visible # {}
        THEN history[CHOOSE i \in visible : \A j \in visible : j <= i].amount
        ELSE IF oldest = 1 THEN 0 ELSE Reverts

-----------------------------------------------------------------------------
(* Checkpoints *)

\* Slips: a checkpoint for every change, one that replaces what an earlier
\* period left, and one that is written into the earlier period.
CheckpointEveryChange(history, amount) ==
  Append(history, [amount |-> amount % Uint128, periodId |-> currentPeriodId])

CheckpointInPlace(history, amount) ==
  IF history = <<>>
    THEN CheckpointEveryChange(history, amount)
    ELSE [history EXCEPT ![Len(history)] =
            [amount |-> amount % Uint128, periodId |-> currentPeriodId]]

CheckpointInOldPeriod(history, amount) ==
  IF history = <<>>
    THEN CheckpointEveryChange(history, amount)
    ELSE [history EXCEPT ![Len(history)].amount = amount % Uint128]

\* Record a balance: a new checkpoint, unless the last one is of this period.
Checkpoint(history, amount) ==
  IF history = <<>> \/ history[Len(history)].periodId # currentPeriodId
    THEN Append(history, [amount |-> amount % Uint128, periodId |-> currentPeriodId])
    ELSE [history EXCEPT ![Len(history)] =
            [amount |-> amount % Uint128, periodId |-> currentPeriodId]]

_increaseBalance(history, amount) == Checkpoint(history, Latest(history) + amount)

CanDeduct(history, amount) == history # <<>> /\ Latest(history) >= amount

_deductBalance(history, amount) == Checkpoint(history, Latest(history) - amount)

-----------------------------------------------------------------------------

Init ==
  /\ balances = [a \in Account |-> <<>>]
  /\ totalSupplyOnPeriod = [p \in PeriodId |-> 0]
  /\ currentPeriodId = 1
  /\ authorizedBrokers = {}
  /\ authorizedToSnapshot = {}
  /\ isInitialized = FALSE

addAuthorizedBroker(target) ==
  /\ authorizedBrokers' = authorizedBrokers \cup {target}
  /\ UNCHANGED <<balances, totalSupplyOnPeriod, currentPeriodId,
                 authorizedToSnapshot, isInitialized>>

removeAuthorizedBroker(target) ==
  /\ authorizedBrokers' = authorizedBrokers \ {target}
  /\ UNCHANGED <<balances, totalSupplyOnPeriod, currentPeriodId,
                 authorizedToSnapshot, isInitialized>>

addAuthorizedToSnapshot(target) ==
  /\ authorizedToSnapshot' = authorizedToSnapshot \cup {target}
  /\ UNCHANGED <<balances, totalSupplyOnPeriod, currentPeriodId,
                 authorizedBrokers, isInitialized>>

removeAuthorizedToSnapshot(target) ==
  /\ authorizedToSnapshot' = authorizedToSnapshot \ {target}
  /\ UNCHANGED <<balances, totalSupplyOnPeriod, currentPeriodId,
                 authorizedBrokers, isInitialized>>

\* A slip: any id but the current one.
takeSnapshotOfAnyPeriod(sender, id) ==
  /\ sender \in authorizedToSnapshot \cup {Issuer}
  /\ id # currentPeriodId
  /\ totalSupplyOnPeriod' = [totalSupplyOnPeriod EXCEPT ![id] = totalSupply]
  /\ currentPeriodId' = id
  /\ UNCHANGED <<balances, authorizedBrokers, authorizedToSnapshot, isInitialized>>

\* Period ids only grow, and may skip: FeePool uses timestamps.
takeSnapshot(sender, id) ==
  /\ sender \in authorizedToSnapshot \cup {Issuer}
  /\ id > currentPeriodId
  /\ totalSupplyOnPeriod' = [totalSupplyOnPeriod EXCEPT ![id] = totalSupply]
  /\ currentPeriodId' = id
  /\ UNCHANGED <<balances, authorizedBrokers, authorizedToSnapshot, isInitialized>>

mintShare(account, amount) ==
  /\ totalSupply + amount <= SupplyCap
  /\ balances' = [balances EXCEPT ![account] = _increaseBalance(@, amount)]
  /\ totalSupplyOnPeriod' =
       [totalSupplyOnPeriod EXCEPT ![currentPeriodId] = @ + amount]
  /\ UNCHANGED <<currentPeriodId, authorizedBrokers, authorizedToSnapshot,
                 isInitialized>>

\* A slip: neither subtraction is checked.
burnShareUnchecked(account, amount) ==
  /\ balances' = [balances EXCEPT ![account] = _deductBalance(@, amount)]
  /\ totalSupplyOnPeriod' =
       [totalSupplyOnPeriod EXCEPT ![currentPeriodId] = @ - amount]
  /\ UNCHANGED <<currentPeriodId, authorizedBrokers, authorizedToSnapshot,
                 isInitialized>>

\* Both subtractions are checked: of the balance and of the supply.
burnShare(account, amount) ==
  /\ CanDeduct(balances[account], amount)
  /\ totalSupply >= amount
  /\ balances' = [balances EXCEPT ![account] = _deductBalance(@, amount)]
  /\ totalSupplyOnPeriod' =
       [totalSupplyOnPeriod EXCEPT ![currentPeriodId] = @ - amount]
  /\ UNCHANGED <<currentPeriodId, authorizedBrokers, authorizedToSnapshot,
                 isInitialized>>

\* The deduction comes first: it matters when from = to.
transferFrom(broker, from, to, amount) ==
  /\ broker \in authorizedBrokers
  /\ CanDeduct(balances[from], amount)
  /\ LET deducted == [balances EXCEPT ![from] = _deductBalance(@, amount)]
     IN  balances' = [deducted EXCEPT ![to] = _increaseBalance(@, amount)]
  /\ UNCHANGED <<totalSupplyOnPeriod, currentPeriodId, authorizedBrokers,
                 authorizedToSnapshot, isInitialized>>

\* The owner sets the balances of a list of distinct accounts, each raised or
\* lowered to its target, and the supply follows the differences.
importAddresses(accounts, target) ==
  /\ ~isInitialized
  /\ LET current == [a \in Account |-> balanceOf(a)]
         supply  == totalSupply + SumOver(target, accounts) - SumOver(current, accounts)
     IN  /\ supply <= SupplyCap
         /\ balances' = [a \in Account |->
                           IF a \in accounts /\ balanceOf(a) # target[a]
                             THEN Checkpoint(balances[a], target[a])
                             ELSE balances[a]]
         /\ totalSupplyOnPeriod' =
              [totalSupplyOnPeriod EXCEPT ![currentPeriodId] = supply]
  /\ UNCHANGED <<currentPeriodId, authorizedBrokers, authorizedToSnapshot,
                 isInitialized>>

finishSetup ==
  /\ isInitialized' = TRUE
  /\ UNCHANGED <<balances, totalSupplyOnPeriod, currentPeriodId,
                 authorizedBrokers, authorizedToSnapshot>>

Next ==
  \/ \E target \in Operator : \/ addAuthorizedBroker(target)
                              \/ removeAuthorizedBroker(target)
                              \/ addAuthorizedToSnapshot(target)
                              \/ removeAuthorizedToSnapshot(target)
  \/ \E sender \in Operator \cup {Issuer}, id \in PeriodId : takeSnapshot(sender, id)
  \/ \E account \in Account, amount \in Amount : \/ mintShare(account, amount)
                                                 \/ burnShare(account, amount)
  \/ \E broker \in Operator, from, to \in Account, amount \in Amount :
       transferFrom(broker, from, to, amount)
  \/ \E accounts \in SUBSET Account : \E target \in [accounts -> Amount] :
       importAddresses(accounts, target)
  \/ finishSetup

Spec == Init /\ [][Next]_vars

-----------------------------------------------------------------------------
(* Properties *)

(* Every variable keeps the type the contract declares for it, and no      *)
(* supply passes the cap.                                                  *)
TypeOK ==
  /\ balances \in [Account -> Seq(PeriodBalance)]
  /\ totalSupplyOnPeriod \in [PeriodId -> 0 .. SupplyCap]
  /\ currentPeriodId \in PeriodId
  /\ authorizedBrokers \subseteq Operator
  /\ authorizedToSnapshot \subseteq Operator
  /\ isInitialized \in BOOLEAN

(* The checkpoints of an account are in strictly increasing order of       *)
(* period and none is in the future: balanceOfOnPeriod scans them from the *)
(* end and stops at the first that is old enough.                          *)
Ordered(history, period) ==
  /\ \A i, j \in DOMAIN history :
       i < j => history[i].periodId < history[j].periodId
  /\ \A i \in DOMAIN history : history[i].periodId <= period

HistoryOrdered == \A a \in Account : Ordered(balances[a], currentPeriodId)

(* The supply is the sum of the balances: uint128 checkpoints against a    *)
(* uint256 total, moved by mint, burn, broker transfer and import.         *)
SupplyIsSumOfBalances ==
  totalSupply = SumOf([a \in Account |-> balanceOf(a)])

(* The supply recorded for a period is the sum of what the accounts owned  *)
(* in it, for every past period with a supply or a checkpoint: the shares  *)
(* FeePool pays for a closed period add up to the whole.  (The id of a     *)
(* period that was skipped has neither.)                                   *)
PeriodSupplyIsSum ==
  \A p \in PeriodId :
    \/ totalSupplyOnPeriod[p] # 0
    \/ \E a \in Account : \E i \in DOMAIN balances[a] : balances[a][i].periodId = p
    => totalSupplyOnPeriod[p] = SumOf([a \in Account |-> BalanceAt(balances[a], p)])

(* The bounded scan of balanceOfOnPeriod agrees with the whole history or  *)
(* fails: it never answers zero, or a later balance, for an account whose  *)
(* checkpoint lies beyond the scan.                                        *)
ScanIsExactOrReverts ==
  \A a \in Account, p \in PeriodId :
    balanceOfOnPeriod(a, p) \in {BalanceAt(balances[a], p), Reverts}

(* What an account owned in a closed period never changes again, and       *)
(* neither does the supply recorded for it.                                *)
ClosedPeriodsFrozen ==
  [][\A p \in PeriodId : p < currentPeriodId =>
       /\ totalSupplyOnPeriod'[p] = totalSupplyOnPeriod[p]
       /\ \A a \in Account : BalanceAt(balances'[a], p) = BalanceAt(balances[a], p)]_vars

-----------------------------------------------------------------------------
(* The contract implements the book of DebtShareBook: the page of a period *)
(* is what the checkpoints say each account owned in it.                   *)
Pages == [p \in PeriodId |-> [a \in Account |-> BalanceAt(balances[a], p)]]

\* What the accounts may own together.
Holding == {h \in [Account -> 0 .. SupplyCap] : SumOf(h) <= SupplyCap}

Book == INSTANCE DebtShareBook WITH
  book <- Pages, period <- currentPeriodId, importing <- ~isInitialized

ImplementsBook == Book!Spec
=============================================================================
