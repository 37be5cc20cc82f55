---------------------------- MODULE MC_Issuance ----------------------------
(* Issuance for TLC: two accounts, hundredths, HZN worth 1.0 or 0.4, an     *)
(* issuance ratio of 0.2, liquidation from 0.3 on.                          *)
EXTENDS Issuance, TLC

CONSTANTS a1, a2

MCAccount == {a1, a2}
AccountSymmetry == Permutations(MCAccount)
MCPrice == {40, 100}
MCAmount == {100}
MCTransfer == {500}
MCDebtChange == {50}
MCMigration == {100}
=============================================================================
