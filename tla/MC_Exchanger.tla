---------------------------- MODULE MC_Exchanger ----------------------------
(* Exchanger for TLC: zUSD and one synth, prices a factor two and four     *)
(* apart with a breaker at three, a fee of a tenth.                        *)
EXTENDS Exchanger

CONSTANTS a, b, zETH

OneAccount == {a}
TwoAccounts == {a, b}
MCSynth == {zUSD, zETH}
MCFirstPrice == [k \in MCSynth |-> 10]
MCFirstBalance == [h \in Holder |-> [k \in MCSynth |-> IF h = a /\ k = zUSD THEN 10 ELSE 0]]
TenOfzETH == [h \in Holder |-> [k \in MCSynth |-> IF h = a /\ k = zETH THEN 10 ELSE 0]]
MCFeeRate == [k \in MCSynth |-> IF k = zETH THEN 1 ELSE 0]
Twofold == {10, 20}
BackToFirst == {10}
Halved == {5}
Jumps == {0, 16, 40}
MCAmount == {4, 10}
OneAmount == {10}
Five == {5}
FixedPeriod == {2}
TwoPeriods == {0, 2}
Active == {FALSE}
MaySuspend == BOOLEAN
NoReset == {}
=============================================================================
