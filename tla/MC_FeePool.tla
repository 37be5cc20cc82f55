----------------------------- MODULE MC_FeePool -----------------------------
(* FeePool for TLC: two accounts, one operator, up to two shares, unit      *)
(* three, so that half of the shares rounds.                             *)
EXTENDS FeePool, TLC

CONSTANTS a1, a2, operator

MCAccount == {a1, a2}
AccountSymmetry == Permutations(MCAccount)
MCOperator == {operator}
MCAmount == {1}
MCRewards == {3}
=============================================================================
