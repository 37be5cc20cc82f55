---------------------------- MODULE MC_DebtPool ----------------------------
(* DebtPool for TLC: zUSD and one synth worth 1.5 or nothing, with a unit  *)
(* of two, so that values round; its price may be invalid and still there. *)
EXTENDS DebtPool

CONSTANTS zETH

MCSynth == {zUSD, zETH}
Readings(price) == {[rate |-> price, invalid |-> FALSE], [rate |-> price, invalid |-> TRUE],
                    [rate |-> 0, invalid |-> TRUE]}
Rates(one, price) == [k \in MCSynth |-> IF k = zUSD THEN one ELSE price]
MCReading == Readings(3)
MCFirstRate == Rates(2, 3)
MCSupplyCap == [k \in MCSynth |-> IF k = zUSD THEN 2 ELSE 1]
MCAmount == {1}
MCDifference == {-1, 0, 1}
MCFirstListed == {zUSD}
OnlyzETH == {zETH}
=============================================================================
