------------------------------- MODULE MCStaking -------------------------------
(* Staking on a small instance: amounts are in tenths (UNIT = 10). *)
EXTENDS Staking, TLC

CONSTANTS a1, a2

MCCollateral == [a \in Accounts |-> 100]
MCSymmetry == Permutations(Accounts)
MCNoEscrow == [a \in Accounts |-> 0]
MCNoAdjustments == {}
================================================================================
