----------------------- MODULE MC_SynthetixDebtShare -----------------------
(* SynthetixDebtShare for TLC: two accounts, one operator, three periods,  *)
(* scans of two checkpoints, checkpoints of three bits.                    *)
EXTENDS SynthetixDebtShare, TLC

CONSTANTS a1, a2, issuer, operator

MCAccount == {a1, a2}
AccountSymmetry == Permutations(MCAccount)
MCOperator == {operator}
MCAmount == {0, 1, 2}
=============================================================================
