-------------------------------- MODULE Sums --------------------------------
(***************************************************************************)
(* Sums of ledgers.  The contracts keep totals (totalSupply, cachedDebt)   *)
(* next to mappings from addresses or currency keys to uint; the           *)
(* properties relate the two.  The sum of f is defined as the number of    *)
(* units its elements hold, the cardinality of the disjoint union of the   *)
(* intervals 1..f[x]: unlike a recursive sum, the finite-set theorems of   *)
(* the proof library apply to it, so that the lemmas of Arithmetic_proofs  *)
(* hold for every finite domain.                                           *)
(***************************************************************************)
EXTENDS Integers, FiniteSets

\* The units held by x under f, and by all the elements of S.
UnitsOf(f, x) == {x} \X (1 .. f[x])
UnitsOver(f, S) == UNION {UnitsOf(f, x) : x \in S}

\* The sum of f[x] over x in S, and over the whole domain of f.
SumOver(f, S) == Cardinality(UnitsOver(f, S))
SumOf(f) == SumOver(f, DOMAIN f)
=============================================================================
