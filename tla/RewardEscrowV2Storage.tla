----------------------- MODULE RewardEscrowV2Storage -----------------------
(***************************************************************************)
(* contracts/RewardEscrowV2Storage.sol: vesting entries and balances that  *)
(* are written here and read through to the frozen escrow as long as they  *)
(* have not been.  A mapping that was never written reads zero, so zero    *)
(* stands for "not here": an end time of zero for an entry, and for a      *)
(* number zero itself, which is written as -1 when it is meant.            *)
(*                                                                         *)
(* A storage is a record, and each function of the contract an operator    *)
(* from storages to storages.  The Can operators are their requirements.   *)
(***************************************************************************)
EXTENDS Integers, FiniteSets, SequencesExt

CONSTANTS
  Account,      \* beneficiaries
  MaxEntryId,   \* bound on entry ids
  Uint32,       \* 2^32: end times are stored modulo it
  NoFallback    \* the frozen escrow before it is set

ASSUME EscrowAccountAssumption == IsFiniteSet(Account)
ASSUME EscrowSizeAssumption == {MaxEntryId, Uint32} \subseteq Nat \ {0}

EntryId == 1 .. MaxEntryId
ZERO_PLACEHOLDER == -1

Entry == [endTime : Nat, escrowAmount : Nat]
NoEntry == [endTime |-> 0, escrowAmount |-> 0]

Same(x) == [a \in Account |-> x]

\* What the frozen escrow holds, for good.
Frozen == [entries : [Account -> [EntryId -> Entry]], ids : [Account -> Seq(EntryId)],
           escrowed : [Account -> Nat], vested : [Account -> Nat],
           totalEscrowed : Nat, nextEntryId : Nat]

NewStorage ==
  [_vestingSchedules |-> Same([id \in EntryId |-> NoEntry]),
   _accountVestingEntryIds |-> Same(<<>>),
   _fallbackCounts |-> Same(0),
   _totalEscrowedAccountBalance |-> Same(0),
   _totalVestedAccountBalance |-> Same(0),
   _totalEscrowedBalance |-> 0,
   nextEntryId |-> 0,
   firstNonFallbackId |-> 0,
   fallbackRewardEscrow |-> NoFallback]

\* Modifier withFallback: every function but setFallbackRewardEscrow needs it.
HasFallback(st) == st.fallbackRewardEscrow # NoFallback

-----------------------------------------------------------------------------
(* Numbers that may be zero *)

_writeWithZeroPlaceholder(v) == IF v = 0 THEN ZERO_PLACEHOLDER ELSE v
_readWithZeroPlaceholder(v) == IF v = ZERO_PLACEHOLDER THEN 0 ELSE v

ReadThrough(stored, frozen) == IF stored = 0 THEN frozen ELSE _readWithZeroPlaceholder(stored)

-----------------------------------------------------------------------------
(* Views *)

\* An entry from before, as long as it was not written here.
vestingSchedules(st, account, id) ==
  LET stored == st._vestingSchedules[account][id]
  IN  IF id < st.firstNonFallbackId /\ stored.endTime = 0
        THEN st.fallbackRewardEscrow.entries[account][id]
        ELSE stored

_fallbackNumVestingEntries(st, account) ==
  ReadThrough(st._fallbackCounts[account], Len(st.fallbackRewardEscrow.ids[account]))

numVestingEntries(st, account) ==
  _fallbackNumVestingEntries(st, account) + Len(st._accountVestingEntryIds[account])

\* A slip: the entries of this contract come first.
IDsHereFirst(st, account) ==
  st._accountVestingEntryIds[account]
    \o SubSeq(st.fallbackRewardEscrow.ids[account], 1, _fallbackNumVestingEntries(st, account))

\* The list that accountVestingEntryIDs(account, index) indexes, from 0 there.
accountVestingEntryIDs(st, account) ==
  SubSeq(st.fallbackRewardEscrow.ids[account], 1, _fallbackNumVestingEntries(st, account))
    \o st._accountVestingEntryIds[account]

totalEscrowedAccountBalance(st, account) ==
  ReadThrough(st._totalEscrowedAccountBalance[account],
              st.fallbackRewardEscrow.escrowed[account])

totalVestedAccountBalance(st, account) ==
  ReadThrough(st._totalVestedAccountBalance[account],
              st.fallbackRewardEscrow.vested[account])

totalEscrowedBalance(st) == st._totalEscrowedBalance

-----------------------------------------------------------------------------
(* Writes *)

setFallbackRewardEscrow(st, frozen) ==
  [st EXCEPT !.fallbackRewardEscrow = frozen,
             !.nextEntryId = frozen.nextEntryId,
             !.firstNonFallbackId = frozen.nextEntryId,
             !._totalEscrowedBalance = frozen.totalEscrowed]

\* An emptied entry keeps an end time, by which it is known to be here.
_setZeroAmountWithEndTime(st, account, id, endTime, now) ==
  [st EXCEPT !._vestingSchedules[account][id] =
     [endTime |-> (IF endTime # 0 THEN endTime ELSE now) % Uint32, escrowAmount |-> 0]]

setZeroAmount(st, account, id, now) ==
  LET stored == st._vestingSchedules[account][id].endTime
  IN  _setZeroAmountWithEndTime(st, account, id,
        IF stored # 0 THEN stored ELSE st.fallbackRewardEscrow.entries[account][id].endTime,
        now)

_cacheFallbackIDCount(st, account) ==
  IF st._fallbackCounts[account] # 0 THEN st
    ELSE [st EXCEPT !._fallbackCounts[account] =
            _writeWithZeroPlaceholder(Len(st.fallbackRewardEscrow.ids[account]))]

\* The loop of setZeroAmountUntilTarget over entries in the order of their ids,
\* which may occur twice; "last" is the last entry it looked at.
ZeroUntil(st, account, ids, target, now) ==
  LET Step(acc, id) ==
        LET entry == vestingSchedules(acc.st, account, id)
        IN  IF acc.total >= target THEN acc
            ELSE IF entry.escrowAmount = 0 THEN [acc EXCEPT !.last = entry]
            ELSE [st    |-> _setZeroAmountWithEndTime(acc.st, account, id, entry.endTime, now),
                  total |-> acc.total + entry.escrowAmount,
                  last  |-> entry]
  IN  FoldLeft(Step, [st |-> st, total |-> 0, last |-> NoEntry], ids)

CanSetZeroAmountUntilTarget(st, account, startIndex, targetAmount) ==
  targetAmount > 0 /\ startIndex < numVestingEntries(st, account)

\* A slip: the last entry is never reached.
ZeroUntilLastButOne(st, account, startIndex, targetAmount, now) ==
  LET counted == _cacheFallbackIDCount(st, account)
      ids     == accountVestingEntryIDs(counted, account)
  IN  ZeroUntil(counted, account, SubSeq(ids, startIndex + 1, Len(ids) - 1), targetAmount, now)

\* startIndex counts from 0.
setZeroAmountUntilTarget(st, account, startIndex, targetAmount, now) ==
  LET counted == _cacheFallbackIDCount(st, account)
      ids     == accountVestingEntryIDs(counted, account)
  IN  ZeroUntil(counted, account, SubSeq(ids, startIndex + 1, Len(ids)), targetAmount, now)

CanUpdateEscrowAccountBalance(st, account, delta) ==
  /\ totalEscrowedAccountBalance(st, account) + delta >= 0
  /\ totalEscrowedBalance(st) + delta >= 0

updateEscrowAccountBalance(st, account, delta) ==
  [st EXCEPT !._totalEscrowedAccountBalance[account] =
               _writeWithZeroPlaceholder(totalEscrowedAccountBalance(st, account) + delta),
             !._totalEscrowedBalance = @ + delta]

updateVestedAccountBalance(st, account, delta) ==
  [st EXCEPT !._totalVestedAccountBalance[account] =
               _writeWithZeroPlaceholder(totalVestedAccountBalance(st, account) + delta)]

CanAddVestingEntry(st, entry) == entry.endTime # 0 /\ st.nextEntryId \in EntryId

addVestingEntry(st, account, entry) ==
  [st EXCEPT !._vestingSchedules[account][st.nextEntryId] =
               [entry EXCEPT !.endTime = @ % Uint32],
             !._accountVestingEntryIds[account] = Append(@, st.nextEntryId),
             !.nextEntryId = @ + 1]
=============================================================================
