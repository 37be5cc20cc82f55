---------------------------- MODULE DebtShareBook ----------------------------
(***************************************************************************)
(* What SynthetixDebtShare promises: a book with one page per period.  The *)
(* pages of the current period and of those to come hold what each account *)
(* owns now; a page that has been closed is never written again.  Shares   *)
(* come and go by minting and burning, move from one account to another,   *)
(* and can be set at will only while the import is open.                   *)
(***************************************************************************)
EXTENDS Integers

CONSTANTS
  Account,      \* holders of shares
  Amount,       \* amounts passed by callers
  MaxPeriodId,  \* bound on period ids
  Holding       \* what the accounts may own together, functions from Account to Nat

VARIABLES book, period, importing

vars == <<book, period, importing>>

PeriodId == 1 .. MaxPeriodId

Init ==
  /\ book = [p \in PeriodId |-> [a \in Account |-> 0]]
  /\ period = 1
  /\ importing = TRUE

Write(holdings) ==
  /\ holdings \in Holding
  /\ book' = [p \in PeriodId |-> IF p < period THEN book[p] ELSE holdings]
  /\ period' = period

Mint(a, n) ==
  /\ Write([book[period] EXCEPT ![a] = @ + n])
  /\ UNCHANGED importing

Burn(a, n) ==
  /\ Write([book[period] EXCEPT ![a] = @ - n])
  /\ UNCHANGED importing

Move(from, to, n) ==
  /\ book[period][from] >= n
  /\ Write([[book[period] EXCEPT ![from] = @ - n] EXCEPT ![to] = @ + n])
  /\ UNCHANGED importing

Import(holdings) ==
  /\ importing
  /\ Write(holdings)
  /\ UNCHANGED importing

CloseImport ==
  /\ importing' = FALSE
  /\ UNCHANGED <<book, period>>

ClosePeriod(id) ==
  /\ id > period
  /\ period' = id
  /\ UNCHANGED <<book, importing>>

Next ==
  \/ \E a \in Account, n \in Amount : Mint(a, n) \/ Burn(a, n)
  \/ \E from, to \in Account, n \in Amount : Move(from, to, n)
  \/ \E holdings \in Holding : Import(holdings)
  \/ CloseImport
  \/ \E id \in PeriodId : ClosePeriod(id)

Spec == Init /\ [][Next]_vars
=============================================================================
