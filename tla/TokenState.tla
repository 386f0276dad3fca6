------------------------------ MODULE TokenState ------------------------------
(***************************************************************************)
(* The account set of the system and the balance map of a token            *)
(* (contracts/TokenState.sol, contracts/ExternStateToken.sol).             *)
(***************************************************************************)
EXTENDS SafeDecimalMath, Integers, FiniteSets

CONSTANT Accounts

ASSUME AccountsAssumption == IsFiniteSet(Accounts)

\* Mutant: the receiver's balance is read before the sender's is written.
MovedFromStaleBalance(balance, from, to, v) ==
  [balance EXCEPT ![from] = @ - v, ![to] = balance[to] + v]

\* _internalTransfer: the balances after moving v between two accounts, which
\* may be the same one.  The caller has checked that from holds v.
Moved(balance, from, to, v) ==
  LET taken == [balance EXCEPT ![from] = @ - v]
  IN [taken EXCEPT ![to] = @ + v]
==============================================================================
