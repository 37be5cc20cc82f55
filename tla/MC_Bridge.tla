------------------------------ MODULE MC_Bridge ------------------------------
(* One account, a vesting entry of two units, a unit of everything else; ids *)
(* that are not the account's; calls with two lists, of two ids each.        *)
EXTENDS Bridge

CONSTANTS a, e

MCAccount == {a}
MCEntry == {e}
MCEntryAmount == [x \in MCEntry |-> 2]
MCFirstHZN == [h \in Holder |-> IF h = a THEN 1 ELSE IF h = "RewardEscrowV2" THEN 2
                                ELSE IF h = "RewardsDistribution" THEN 1 ELSE 0]
MCFirstEntries == [x \in MCAccount |-> MCEntry]
MCFirstSynths == [l \in Layer |-> [x \in MCAccount |-> IF l = 1 THEN 1 ELSE 0]]
MCAmount == {1}
==============================================================================
