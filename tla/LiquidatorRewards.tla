------------------------- MODULE LiquidatorRewards -------------------------
(***************************************************************************)
(* contracts/LiquidatorRewards.sol: what liquidated accounts lose is       *)
(* shared among those who hold debt shares, by an accumulator of rewards   *)
(* per share.  The storage of the contract is one record; each function is *)
(* an operator from the record before a call to the record after it, and   *)
(* "shares" are the debt shares the account has at the call.  The tokens   *)
(* themselves move in the callers.                                         *)
(***************************************************************************)
EXTENDS SafeDecimalMath

CONSTANTS
  Account,
  Unit,      \* 1.0
  Uint128    \* 2^128: the width of an entry

ASSUME RewardUnitAssumption == Unit \in Nat \ {0} /\ Uint128 \in Nat \ {0}

Entry == [claimable : Nat, accumulated : Nat]

Rewards == [ accumulated : Nat, entries : [Account -> Entry], initiated : SUBSET Account ]

NewRewards == [ accumulated |-> 0,
                entries     |-> [a \in Account |-> [claimable |-> 0, accumulated |-> 0]],
                initiated   |-> {} ]

earned(r, a, shares) ==
  multiplyDecimal(shares, r.accumulated - r.entries[a].accumulated, Unit) + r.entries[a].claimable

\* The first call for an account only records where it enters.
updateEntry(r, a, shares) ==
  [r EXCEPT !.initiated = @ \cup {a},
            !.entries[a] = [ claimable   |-> IF a \in r.initiated THEN earned(r, a, shares) % Uint128
                                             ELSE @.claimable,
                             accumulated |-> r.accumulated % Uint128 ]]

\* getReward: what it pays, and what it leaves.
rewardPaid(r, a, shares) == updateEntry(r, a, shares).entries[a].claimable
getReward(r, a, shares)  == [updateEntry(r, a, shares) EXCEPT !.entries[a].claimable = 0]

\* With no shares left, nobody ever earns the reward.
notifyRewardAmount(r, reward, supply) ==
  IF supply > 0 THEN [r EXCEPT !.accumulated = @ + divideDecimal(reward, supply, Unit)] ELSE r
=============================================================================
