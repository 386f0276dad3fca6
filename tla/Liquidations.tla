----------------------------- MODULE Liquidations -----------------------------
(***************************************************************************)
(* The liquidation flags (contracts/Liquidations.sol).  A flag is only a   *)
(* deadline; whoever flags an account starts its delay, and an account     *)
(* still above the target ratio when the deadline has passed is open for   *)
(* liquidation.  The collateralisation ratio is the Issuer's and is a      *)
(* parameter here.                                                         *)
(***************************************************************************)
EXTENDS TokenState

CONSTANTS IssuanceRatio,      \* target debt / collateral ratio, a decimal
          LiquidationRatio,   \* ratio from which an account can be flagged
          LiquidationPenalty, \* extra collateral the liquidator receives
          LiquidationDelay    \* time between flag and liquidation

\* The ranges SystemSettings.setLiquidationRatio checks against the issuance
\* ratio and the penalty of that moment; setting those two later does not check
\* them again, and the specifications take them to have been set first.
ASSUME LiquidationAssumption ==
  /\ IssuanceRatio \in Nat \ {0}
  /\ LiquidationRatio \in Nat \ {0}
  /\ LiquidationPenalty \in Nat
  /\ LiquidationDelay \in Nat \ {0}
  /\ IssuanceRatio < LiquidationRatio
  /\ LiquidationRatio * (UNIT + LiquidationPenalty) <= UNIT * UNIT

VARIABLES now,     \* the block timestamp
          deadline \* account -> deadline of its flag, 0 when it has none

LiquidationsInit ==
  /\ now = 1
  /\ deadline = [a \in Accounts |-> 0]

deadlinePassed(a) == deadline[a] > 0 /\ now > deadline[a]

\* An account without collateral has ratio 0, and is not open either.
isOpenForLiquidation(a, ratio) == ratio > IssuanceRatio /\ deadlinePassed(a)

\* Mutant: the collateral that the liquidation itself takes is forgotten.
fixOfSameCollateral(debt, collateralValue) ==
  debt - multiplyDecimal(collateralValue, IssuanceRatio)

\* (D - V * r) / (1 - (1 + P) * r)
calculateAmountToFixCollateral(debt, collateralValue) ==
  divideDecimal(debt - multiplyDecimal(collateralValue, IssuanceRatio),
                UNIT - multiplyDecimal(UNIT + LiquidationPenalty, IssuanceRatio))

flagAccount(a, ratio) ==
  /\ deadline[a] = 0
  /\ ratio >= LiquidationRatio
  /\ deadline' = [deadline EXCEPT ![a] = now + LiquidationDelay]

\* Mutant: the flag is kept.
keepAccountInLiquidation(a) == UNCHANGED deadline

removeAccountInLiquidation(a) == deadline' = [deadline EXCEPT ![a] = 0]

checkAndRemoveAccount(a, ratio) ==
  /\ deadline[a] > 0
  /\ IF ratio <= IssuanceRatio THEN removeAccountInLiquidation(a)
                               ELSE UNCHANGED deadline
==============================================================================
