-------------------------------- MODULE MCSynths --------------------------------
(* The commands that maintain synths, on a few synths and users that the        *)
(* commands cannot tell apart.                                                  *)
EXTENDS SynthCommands, TLC

Alike == Permutations(Keys) \cup Permutations(Users)
================================================================================
