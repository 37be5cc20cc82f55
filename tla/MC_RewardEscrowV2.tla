------------------------- MODULE MC_RewardEscrowV2 -------------------------
(* RewardEscrowV2 for TLC: two accounts, and a frozen escrow that is empty *)
(* or left by the merge of a1 into a2 and back: entry 1 is listed twice by *)
(* a1, deleted for a2, and what a2 had itself was vested.                  *)
EXTENDS RewardEscrowV2

CONSTANTS a1, a2

MCAccount == {a1, a2}
E(endTime, amount) == [endTime |-> endTime, escrowAmount |-> amount]
OnlyEntries(entries) ==
  [id \in EntryId |-> IF id \in DOMAIN entries THEN entries[id] ELSE NoEntry]

Untouched ==
  [entries |-> Same(OnlyEntries(<<>>)), ids |-> Same(<<>>), escrowed |-> Same(0),
   vested |-> Same(0), totalEscrowed |-> 0, nextEntryId |-> 1]

MergedBack ==
  [entries |-> [a \in MCAccount |-> IF a = a1 THEN OnlyEntries(<<E(3, 2), E(4, 1)>>)
                                              ELSE OnlyEntries(<<NoEntry, NoEntry, E(1, 0)>>)],
   ids |-> [a \in MCAccount |-> IF a = a1 THEN <<1, 2, 1>> ELSE <<3, 1>>],
   escrowed |-> [a \in MCAccount |-> IF a = a1 THEN 3 ELSE 0],
   vested |-> [a \in MCAccount |-> IF a = a1 THEN 0 ELSE 1],
   totalEscrowed |-> 3, nextEntryId |-> 4]

MCOldEscrow == {Untouched, MergedBack}
MCQuantity == {1, 2}
MCDuration == {1, 2}
MCEntryIds == {<<1>>, <<1, 1>>, <<4, 2>>, <<1, 2, 5>>}
MCArrival == {<<E(1, 1), E(4, 1)>>, <<E(4, 1), NoEntry>>}
=============================================================================
