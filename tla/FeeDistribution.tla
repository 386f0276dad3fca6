---------------------------- MODULE FeeDistribution ----------------------------
(* What the fee pool promises of one currency, whatever its ring of periods    *)
(* looks like: what comes in gathers until the period is closed, a closed      *)
(* period is the only one that is claimed, by every account once, what nobody  *)
(* claims stays to be claimed in the next, and the pool pays what it owes out  *)
(* of what it got.  A claim reaches into the open period only when the closed  *)
(* one is empty.                                                               *)
EXTENDS Naturals

CONSTANT Accounts

VARIABLES open,    \* what has come in since the last close
          closed,  \* what is left to claim
          current, \* the number of the open period
          claimed, \* account -> the period it claimed last
          fund     \* what the pool holds
vars == <<open, closed, current, claimed, fund>>

Init ==
  /\ open = 0 /\ closed = 0 /\ fund = 0
  /\ current = 1
  /\ claimed = [a \in Accounts |-> 0]

\* A fee is paid or a reward is distributed.
Receive ==
  /\ open < open'
  /\ fund' = fund + (open' - open)
  /\ UNCHANGED <<closed, current, claimed>>

\* The open period becomes the one to claim, with what was left of the last.
Close ==
  /\ open' = 0
  /\ closed' = closed + open
  /\ current' = current + 1
  /\ UNCHANGED <<claimed, fund>>

\* An account claims the closed period; what it gets leaves the fund.
Claim(a) ==
  /\ claimed[a] < current - 1
  /\ claimed' = [claimed EXCEPT ![a] = current - 1]
  /\ closed' <= closed
  /\ open' <= open
  /\ open' < open => closed' = 0
  /\ fund' + (closed - closed') + (open - open') = fund
  /\ UNCHANGED current

Next == Receive \/ Close \/ \E a \in Accounts : Claim(a)

Spec == Init /\ [][Next]_vars
================================================================================
