------------------------------- MODULE MCIssuer -------------------------------
(* Issuer on small instances: amounts are in tenths (UNIT = 10). *)
EXTENDS Issuer, TLC

CONSTANTS a1, a2

\* At price 1 (10) the collateral allows debts of 4 and 2 sUSD.
MCCollateral == (a1 :> 200) @@ (a2 :> 100)
\* At price 5 (50) it allows debts of 0.9 and 2 sUSD; at price 1 the first account's
\* collateral is worth a debt of 0.9 and the penalty, rounded.
MCLittleCollateral == (a1 :> 9) @@ (a2 :> 20)
MCOneStaker == (a1 :> 100) @@ (a2 :> 0)
MCNoEscrow == [a \in Accounts |-> 0]
MCEscrowed == (a1 :> 20) @@ (a2 :> 0)
MCNoAdjustments == {}
MCStaleSynths == {{}, {"synths"}}
MCAdjustments == {<<0, 0>>, <<10, 0>>, <<0, 10>>}
==============================================================================
