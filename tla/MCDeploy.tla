-------------------------------- MODULE MCDeploy -------------------------------
(* The deploy command for three synths: sETH is new, iBTC has inverse pricing. *)
EXTENDS Deploy

MCSynths == <<"sUSD", "sETH", "iBTC">>
================================================================================
