--------------------------- MODULE RewardEscrowV2 ---------------------------
(***************************************************************************)
(* BaseRewardEscrowV2.sol and what each layer adds to it: RewardEscrowV2   *)
(* lets entries leave for the other layer, ImportableRewardEscrowV2 lets   *)
(* them arrive.  Rewards become entries, which are free after a duration;  *)
(* the tokens are held here until then.  All storage is in                 *)
(* RewardEscrowV2Storage, over the escrow that was frozen, whose tokens    *)
(* the owner of the HZN token moves here.                                  *)
(***************************************************************************)
EXTENDS RewardEscrowV2Storage

CONSTANTS
  Nobody,             \* no account
  OldEscrow,          \* what the frozen escrow may hold
  Quantity,           \* amounts escrowed, revoked and sent here
  Duration,           \* durations callers and the owner ask for
  EntryIds,           \* lists of ids callers pass, which may repeat ids or be wrong
  Arrival,            \* lists of entries that arrive from the other layer
  MaxTime, MaxTokens, MaxCalls  \* bounds

\* The frozen escrow kept its own books: balances are the sums of entries, and
\* an entry with an amount has an end time, an id already given, and a listing.
ASSUME OldEscrowAssumption ==
  \A f \in OldEscrow :
    /\ f \in Frozen
    /\ f.totalEscrowed = SumFunction(f.escrowed)
    /\ \A a \in Account :
         /\ f.escrowed[a] = SumFunction([id \in EntryId |-> f.entries[a][id].escrowAmount])
         /\ ToSet(f.ids[a]) \subseteq 1 .. f.nextEntryId - 1
         /\ \A id \in EntryId : f.entries[a][id].escrowAmount > 0 =>
              /\ f.entries[a][id].endTime > 0 /\ id \in ToSet(f.ids[a])
              /\ \A b \in Account \ {a} : f.entries[b][id].escrowAmount = 0
ASSUME EscrowAmountAssumption ==
  /\ Nobody \notin Account
  /\ Quantity \subseteq Nat \ {0} /\ Duration \subseteq Nat
  /\ EntryIds \subseteq Seq(EntryId) \ {<<>>} /\ Arrival \subseteq Seq(Entry) \ {<<>>}
  /\ {MaxTime, MaxTokens, MaxCalls} \subseteq Nat
\* No end time reaches 2^32, the year 2106.
ASSUME EndTimeAssumption ==
  \A d \in Duration, t \in 0 .. MaxTime : t + d < Uint32

VARIABLES
  st,                 \* RewardEscrowV2Storage
  old, oldTokens,     \* the frozen escrow, and the HZN it still holds
  tokens,             \* the HZN held here
  nominatedReceiver,  \* per account, whom it wants to merge into
  max_duration, maxAccountMergingDuration,
  accountMergingDuration, accountMergingStartTime,
  importable,         \* whether this is the layer where entries arrive
  now,                \* block.timestamp
  calls               \* how many there were, for the bound

settings == <<max_duration, maxAccountMergingDuration, accountMergingDuration,
              accountMergingStartTime>>
world == <<old, importable>>
vars == <<st, old, oldTokens, tokens, nominatedReceiver, settings, importable, now, calls>>

Init ==
  /\ st = NewStorage
  /\ old \in OldEscrow
  /\ oldTokens = old.totalEscrowed
  /\ tokens = 0
  /\ nominatedReceiver = [a \in Account |-> Nobody]
  /\ max_duration = Max(Duration)
  /\ maxAccountMergingDuration = Max(Duration)
  /\ accountMergingDuration = Max(Duration)
  /\ accountMergingStartTime \in {0, Max(Duration)}
  /\ importable \in BOOLEAN
  /\ now = Max(Duration)
  /\ calls = 0

Called == HasFallback(st) /\ calls < MaxCalls /\ calls' = calls + 1

setFallback ==
  /\ ~HasFallback(st)
  /\ st' = setFallbackRewardEscrow(st, old)
  /\ UNCHANGED <<world, oldTokens, tokens, nominatedReceiver, settings, now, calls>>

\* BaseSynthetix: the tokens follow, before or after; a second time does nothing.
migrateEscrowContractBalance ==
  /\ tokens' = tokens + oldTokens
  /\ oldTokens' = 0
  /\ UNCHANGED <<st, world, nominatedReceiver, settings, now, calls>>

-----------------------------------------------------------------------------
(* Vesting, and entries taken *)

_claimableAmount(entry) == IF now >= entry.endTime THEN entry.escrowAmount ELSE 0

\* Empty the entries of a list which have something to give, those that are not
\* free yet too or not.  Each is read when it comes to it, so that an id listed
\* twice counts once.
Emptied(account, ids, lockedToo) ==
  LET Step(acc, id) ==
        LET entry == vestingSchedules(acc.st, account, id)
            gives == IF lockedToo THEN entry.escrowAmount ELSE _claimableAmount(entry)
        IN  IF gives = 0 THEN acc
            ELSE [st    |-> setZeroAmount(acc.st, account, id, now),
                  total |-> acc.total + gives,
                  taken |-> Append(acc.taken, entry)]
  IN  FoldLeft(Step, [st |-> st, total |-> 0, taken |-> <<>>], ids)

\* What is subtracted is transferred; s is the storage so far.
CanSubtract(s, account, amount) ==
  CanUpdateEscrowAccountBalance(s, account, -amount) /\ tokens >= amount

\* Nothing changes when there is nothing to vest.
vest(account, ids) ==
  LET vested == Emptied(account, ids, FALSE)
  IN  /\ Called
      /\ vested.total # 0
      /\ CanSubtract(vested.st, account, vested.total)
      /\ st' = updateVestedAccountBalance(
                 updateEscrowAccountBalance(vested.st, account, -vested.total),
                 account, vested.total)
      /\ tokens' = tokens - vested.total
      /\ UNCHANGED <<world, oldTokens, nominatedReceiver, settings, now>>

\* A slip: what was taken too much is free at once.
RefundNow(last, amount) == [endTime |-> now, escrowAmount |-> amount]

\* What a revocation took too much stays in escrow until the same time.
Refund(last, amount) == [endTime |-> last.endTime, escrowAmount |-> amount]

\* Synthetix, when it liquidates or moves an account; the tokens go elsewhere.
revokeFrom(account, targetAmount, startIndex) ==
  /\ Called
  /\ CanSetZeroAmountUntilTarget(st, account, startIndex, targetAmount)
  /\ LET revoked == setZeroAmountUntilTarget(st, account, startIndex, targetAmount, now)
         over    == revoked.total - targetAmount
         refund  == Refund(revoked.last, over)
         kept    == IF over > 0 THEN addVestingEntry(revoked.st, account, refund)
                                ELSE revoked.st
     IN  /\ over >= 0
         /\ over > 0 => CanAddVestingEntry(revoked.st, refund)
         /\ CanSubtract(kept, account, targetAmount)
         /\ st' = updateEscrowAccountBalance(kept, account, -targetAmount)
  /\ tokens' = tokens - targetAmount
  /\ UNCHANGED <<world, oldTokens, nominatedReceiver, settings, now>>

-----------------------------------------------------------------------------
(* New entries *)

\* The tokens must be here, for the new entry as well.
Provided(before, after, held) == totalEscrowedBalance(after) <= held

_appendVestingEntry(account, quantity, duration, held) ==
  LET raised == updateEscrowAccountBalance(st, account, quantity)
      entry  == [endTime |-> now + duration, escrowAmount |-> quantity]
  IN  /\ quantity # 0
      /\ duration > 0 /\ duration <= max_duration
      /\ Provided(st, raised, held)
      /\ CanAddVestingEntry(raised, entry)
      /\ st' = addVestingEntry(raised, account, entry)

\* Anyone with HZN, for anyone.
createEscrowEntry(beneficiary, deposit, duration) ==
  /\ Called
  /\ tokens + deposit <= MaxTokens
  /\ _appendVestingEntry(beneficiary, deposit, duration, tokens + deposit)
  /\ tokens' = tokens + deposit
  /\ UNCHANGED <<world, oldTokens, nominatedReceiver, settings, now>>

\* FeePool, for rewards whose tokens were sent here.
appendVestingEntry(account, quantity, duration) ==
  /\ Called
  /\ _appendVestingEntry(account, quantity, duration, tokens)
  /\ UNCHANGED <<world, oldTokens, tokens, nominatedReceiver, settings, now>>

-----------------------------------------------------------------------------
(* Merging accounts.  Issuer must say that the account that leaves has no  *)
(* debt; when it does is left open.                                        *)

accountMergingIsOpen == accountMergingStartTime + accountMergingDuration > now

startMergingWindow ==
  /\ Called
  /\ accountMergingStartTime' = now
  /\ UNCHANGED <<st, world, oldTokens, tokens, nominatedReceiver, max_duration,
                 maxAccountMergingDuration, accountMergingDuration, now>>

setAccountMergingDuration(duration) ==
  /\ Called
  /\ duration <= maxAccountMergingDuration
  /\ accountMergingDuration' = duration
  /\ UNCHANGED <<st, world, oldTokens, tokens, nominatedReceiver, max_duration,
                 maxAccountMergingDuration, accountMergingStartTime, now>>

setMaxAccountMergingWindow(duration) ==
  /\ Called
  /\ maxAccountMergingDuration' = duration
  /\ UNCHANGED <<st, world, oldTokens, tokens, nominatedReceiver, max_duration,
                 accountMergingDuration, accountMergingStartTime, now>>

setMaxEscrowDuration(duration) ==
  /\ Called
  /\ max_duration' = duration
  /\ UNCHANGED <<st, world, oldTokens, tokens, nominatedReceiver, maxAccountMergingDuration,
                 accountMergingDuration, accountMergingStartTime, now>>

nominateAccountToMerge(from, account) ==
  /\ Called
  /\ account # from
  /\ accountMergingIsOpen
  /\ nominatedReceiver' = [nominatedReceiver EXCEPT ![from] = account]
  /\ UNCHANGED <<st, world, oldTokens, tokens, settings, now>>

\* The entries keep their times and get new ids.
Received(s, to, entries) ==
  FoldLeft(LAMBDA acc, entry : addVestingEntry(acc, to, entry), s, entries)

CanReceive(s, entries) ==
  /\ \A i \in DOMAIN entries : entries[i].endTime # 0
  /\ s.nextEntryId + Len(entries) - 1 <= MaxEntryId

mergeAccount(from, to, ids) ==
  LET left == Emptied(from, ids, TRUE)
      came == Received(left.st, to, left.taken)
  IN  /\ Called
      /\ accountMergingIsOpen
      /\ nominatedReceiver[from] = to
      /\ CanReceive(left.st, left.taken)
      /\ CanUpdateEscrowAccountBalance(came, from, -left.total)
      /\ st' = updateEscrowAccountBalance(
                 updateEscrowAccountBalance(came, from, -left.total), to, left.total)
      /\ UNCHANGED <<world, oldTokens, tokens, nominatedReceiver, settings, now>>

-----------------------------------------------------------------------------
(* The other layer *)

\* RewardEscrowV2, called by the bridge, which gets the tokens.
burnForMigration(account, ids) ==
  LET burnt == Emptied(account, ids, TRUE)
  IN  /\ Called
      /\ ~importable
      /\ burnt.total > 0
      /\ CanSubtract(burnt.st, account, burnt.total)
      /\ st' = updateEscrowAccountBalance(burnt.st, account, -burnt.total)
      /\ tokens' = tokens - burnt.total
      /\ UNCHANGED <<world, oldTokens, nominatedReceiver, settings, now>>

\* ImportableRewardEscrowV2, called by the bridge once it has minted the tokens.
importVestingEntries(account, entries) ==
  LET amount == FoldLeft(LAMBDA sum, entry : sum + entry.escrowAmount, 0, entries)
      raised == updateEscrowAccountBalance(st, account, amount)
  IN  /\ Called
      /\ importable
      /\ tokens + amount <= MaxTokens
      /\ Provided(st, raised, tokens + amount)
      /\ CanReceive(raised, entries)
      /\ st' = Received(raised, account, entries)
      /\ tokens' = tokens + amount
      /\ UNCHANGED <<world, oldTokens, nominatedReceiver, settings, now>>

-----------------------------------------------------------------------------
(* The rest of the system *)

tokensArrive(amount) ==
  /\ calls < MaxCalls /\ calls' = calls + 1
  /\ tokens + oldTokens + amount <= MaxTokens
  /\ tokens' = tokens + amount
  /\ UNCHANGED <<st, world, oldTokens, nominatedReceiver, settings, now>>

timePasses ==
  /\ now < MaxTime
  /\ now' = now + 1
  /\ UNCHANGED <<st, world, oldTokens, tokens, nominatedReceiver, settings, calls>>

Next ==
  \/ setFallback \/ migrateEscrowContractBalance
  \/ \E a \in Account, ids \in EntryIds : vest(a, ids) \/ burnForMigration(a, ids)
  \/ \E a \in Account, n \in Quantity, i \in 0 .. MaxEntryId : revokeFrom(a, n, i)
  \/ \E a \in Account, n \in Quantity, d \in Duration :
       createEscrowEntry(a, n, d) \/ appendVestingEntry(a, n, d)
  \/ startMergingWindow
  \/ \E d \in Duration : \/ setAccountMergingDuration(d) \/ setMaxAccountMergingWindow(d)
                         \/ setMaxEscrowDuration(d)
  \/ \E from, to \in Account : \/ nominateAccountToMerge(from, to)
                               \/ \E ids \in EntryIds : mergeAccount(from, to, ids)
  \/ \E a \in Account, entries \in Arrival : importVestingEntries(a, entries)
  \/ \E n \in Quantity : tokensArrive(n)
  \/ timePasses

Spec == Init /\ [][Next]_vars

-----------------------------------------------------------------------------
(* Properties *)

EntryOf(a, id) == vestingSchedules(st, a, id)
AmountOf(a, id) == EntryOf(a, id).escrowAmount
ListOf(a) == accountVestingEntryIDs(st, a)

(* Every variable has its type, and every view gives a uint: no placeholder *)
(* is ever taken for a number.                                              *)
TypeOK ==
  /\ old \in OldEscrow /\ oldTokens \in {0, old.totalEscrowed}
  /\ tokens \in 0 .. MaxTokens
  /\ nominatedReceiver \in [Account -> Account \cup {Nobody}]
  /\ {max_duration, maxAccountMergingDuration, accountMergingDuration} \subseteq Duration
  /\ accountMergingStartTime \in 0 .. now /\ now \in 0 .. MaxTime
  /\ importable \in BOOLEAN /\ calls \in 0 .. MaxCalls
  /\ st.nextEntryId \in 0 .. MaxEntryId + 1 /\ st._totalEscrowedBalance \in Nat
  /\ HasFallback(st) => \A a \in Account :
       /\ totalEscrowedAccountBalance(st, a) \in Nat
       /\ totalVestedAccountBalance(st, a) \in Nat
       /\ ListOf(a) \in Seq(EntryId) /\ numVestingEntries(st, a) = Len(ListOf(a))
       /\ \A id \in EntryId : EntryOf(a, id) \in Entry

(* The balance of an account is what its entries hold, and the total what   *)
(* all balances do, also when balances and entries were written here and    *)
(* there, and when a balance has come back to zero.                         *)
BalancesAreSums ==
  HasFallback(st) =>
    /\ \A a \in Account : totalEscrowedAccountBalance(st, a)
                            = SumFunction([id \in EntryId |-> AmountOf(a, id)])
    /\ totalEscrowedBalance(st)
         = SumFunction([a \in Account |-> totalEscrowedAccountBalance(st, a)])

(* The HZN held here, or still to come from the frozen escrow, cover all    *)
(* that is in escrow, in any order of the move, new entries and vesting.    *)
EscrowCovered == HasFallback(st) => totalEscrowedBalance(st) <= tokens + oldTokens

(* All of an account's escrow can be reached by its list: revoking it all   *)
(* from the first index on, as revokeAllEscrow and migrateAccountBalances   *)
(* of BaseSynthetix do, never finds less than the balance.                  *)
EscrowReachable ==
  HasFallback(st) => \A a \in Account :
    LET balance == totalEscrowedAccountBalance(st, a)
    IN  balance > 0 =>
          /\ CanSetZeroAmountUntilTarget(st, a, 0, balance)
          /\ setZeroAmountUntilTarget(st, a, 0, balance, now).total = balance

(* The views of the two storages agree with each other and with the tokens. *)
EscrowConsistent == TypeOK /\ BalancesAreSums /\ EscrowCovered /\ EscrowReachable

(* An index into an account's list, such as the start index of a            *)
(* liquidation, keeps its meaning: what is listed stays where it is.        *)
ListsAreStable ==
  [][HasFallback(st) => \A a \in Account : IsPrefix(ListOf(a), ListOf(a)')]_vars

\* The book that a storage stands for.
Positive(entries) == {id \in EntryId : entries[id].escrowAmount > 0}
Page(entries) == [id \in Positive(entries) |-> entries[id]]
Pages(s) ==
  [a \in Account |-> Page([id \in EntryId |->
     IF HasFallback(s) THEN vestingSchedules(s, a, id) ELSE NoEntry])]
OldBooks == {[book |-> [a \in Account |-> Page(f.entries[a])], paid |-> f.vested,
              used |-> 1 .. f.nextEntryId - 1] : f \in OldEscrow}

Book == INSTANCE EscrowBook WITH
  OldBook <- OldBooks,
  open <- HasFallback(st),
  used <- 1 .. st.nextEntryId - 1,
  book <- Pages(st),
  paid <- [a \in Account |-> IF HasFallback(st) THEN totalVestedAccountBalance(st, a) ELSE 0],
  held <- tokens + oldTokens

(* The storage with its fallback, placeholders, lists and ids is a book of  *)
(* entries: no entry is paid twice or early, whichever contract it is in,   *)
(* and none changes its amount or time except as the book allows.           *)
ImplementsBook == Book!Spec
=============================================================================
