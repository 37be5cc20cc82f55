----------------------------- MODULE EscrowBook -----------------------------
(***************************************************************************)
(* What RewardEscrowV2 promises, whatever escrow came before it: a book of *)
(* entries, each an amount and the time from which it is free.  An entry   *)
(* is released to its owner, whole and once, when its time has come.  It   *)
(* moves to another account, or to the other layer, as it is.  A part is   *)
(* taken when its owner is liquidated, and the rest keeps its time.  With  *)
(* each of these as many tokens go, so that those held always cover it.    *)
(***************************************************************************)
EXTENDS Integers, FiniteSets, Functions

CONSTANTS
  Account,   \* owners of entries
  OldBook    \* the books it may take over, with what was released before

VARIABLES
  used,      \* the ids given so far, each once and for all
  open,      \* whether a book was taken over
  book,      \* the entries of each account, by id
  paid,      \* what was released to each account
  held,      \* the tokens there are for all of it
  now

vars == <<open, used, book, paid, held, now>>

Blank == [i \in {} |-> 0]
Total(entries, ids) == SumFunctionOnSet([i \in ids |-> entries[i].escrowAmount], ids)
Without(entries, ids) == Restrict(entries, DOMAIN entries \ ids)
With(entries, more) ==
  [i \in DOMAIN entries \cup DOMAIN more |-> IF i \in DOMAIN more THEN more[i] ELSE entries[i]]
AllOf(entries) == Total(entries, DOMAIN entries)
Covered == SumFunction([a \in Account |-> AllOf(book[a])]) <= held

\* The entries a step takes from an account, and those it adds.
Gone(a) == DOMAIN book[a] \ DOMAIN book'[a]
Come(a) == DOMAIN book'[a] \ DOMAIN book[a]

\* What comes has new ids.
NewIds(a) == Come(a) \cap used = {} /\ used' = used \cup Come(a)

Init ==
  /\ open = FALSE /\ used = {}
  /\ book = [a \in Account |-> Blank]
  /\ paid = [a \in Account |-> 0]
  /\ held \in Nat /\ now \in Nat

TakeOver(old) ==
  /\ ~open /\ open'
  /\ book' = old.book /\ paid' = old.paid /\ used' = old.used
  /\ Covered'
  /\ UNCHANGED <<held, now>>

Escrow(a, id) ==
  /\ NewIds(a)
  /\ LET entry == book'[a][id]
     IN  /\ entry.escrowAmount > 0 /\ entry.endTime > now
         /\ book' = [book EXCEPT ![a] = With(@, [i \in {id} |-> entry])]
         /\ held' \in {held, held + entry.escrowAmount}
  /\ Covered'
  /\ UNCHANGED <<open, paid, now>>

Release(a, ids) ==
  /\ \A i \in ids : book[a][i].endTime <= now
  /\ book' = [book EXCEPT ![a] = Without(@, ids)]
  /\ paid' = [paid EXCEPT ![a] = @ + Total(book[a], ids)]
  /\ held' = held - Total(book[a], ids)
  /\ UNCHANGED <<open, used, now>>

Move(from, to, ids) ==
  /\ from # to /\ NewIds(to)
  /\ \E given \in Bijection(ids, Come(to)) :
       book' = [book EXCEPT ![from] = Without(@, ids),
                  ![to] = With(@, [j \in Come(to) |->
                                     book[from][CHOOSE i \in ids : given[i] = j]])]
  /\ UNCHANGED <<open, paid, held, now>>

\* Exactly n is taken, whatever the sizes of the entries.
Take(a, ids, n) ==
  /\ n > 0 /\ NewIds(a)
  /\ \E last \in ids :
       LET over == Total(book[a], ids) - n
           rest == [book[a][last] EXCEPT !.escrowAmount = over]
       IN  /\ 0 <= over /\ over < book[a][last].escrowAmount
           /\ Cardinality(Come(a)) = (IF over = 0 THEN 0 ELSE 1)
           /\ book' = [book EXCEPT ![a] =
                         With(Without(@, ids), [i \in Come(a) |-> rest])]
  /\ held' = held - n
  /\ UNCHANGED <<open, paid, now>>

Leave(a, ids) ==
  /\ book' = [book EXCEPT ![a] = Without(@, ids)]
  /\ held' = held - Total(book[a], ids)
  /\ UNCHANGED <<open, used, paid, now>>

Arrive(a) ==
  /\ Come(a) # {} /\ NewIds(a)
  /\ book' = [book EXCEPT ![a] = With(@, Restrict(book'[a], Come(a)))]
  /\ held' = held + Total(book'[a], Come(a))
  /\ UNCHANGED <<open, paid, now>>

Fund ==
  /\ held' > held
  /\ UNCHANGED <<open, used, book, paid, now>>

Tick ==
  /\ now' > now
  /\ UNCHANGED <<open, used, book, paid, held>>

Next ==
  \/ \E old \in OldBook : TakeOver(old)
  \/ \E a \in Account :
       \/ \E id \in Come(a) : Escrow(a, id)
       \/ Release(a, Gone(a)) \/ Leave(a, Gone(a)) \/ Arrive(a)
       \/ \E to \in Account : Move(a, to, Gone(a))
       \/ \E n \in 1 .. Total(book[a], Gone(a)) : Take(a, Gone(a), n)
  \/ Fund \/ Tick

Spec == Init /\ [][Next]_vars
=============================================================================
