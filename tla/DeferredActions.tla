---------------------------- MODULE DeferredActions ----------------------------
(* What the deployment tools promise about the work they leave to the owner of *)
(* the contracts: an item is performed only after it was asked for, and every  *)
(* item that was asked for is performed in the end, unless it is lost on the   *)
(* way. What is lost stays lost. An item may be performed again (a stuttering  *)
(* step here): the tools promise "at least once".                              *)
CONSTANT Items

VARIABLES asked, performed, lost
vars == <<asked, performed, lost>>

Init == asked \in SUBSET Items /\ performed = {} /\ lost = {}

\* A deployment defers an item, or a contract nominates its next owner.
Ask(i) ==
  /\ asked' = asked \cup {i}
  /\ UNCHANGED <<performed, lost>>

\* The owner performs an item that was asked for; others may be lost to it.
Perform(i) ==
  /\ i \in asked \ (performed \cup lost)
  /\ performed' = performed \cup {i}
  /\ \E L \in SUBSET (asked \ performed') : lost' = lost \cup L
  /\ UNCHANGED asked

\* Items that were asked for are lost.
Lose ==
  /\ \E L \in SUBSET (asked \ performed) : lost' = lost \cup L
  /\ UNCHANGED <<asked, performed>>

Next == Lose \/ \E i \in Items : Ask(i) \/ Perform(i)

Spec == Init /\ [][Next]_vars /\ \A i \in Items : WF_vars(Perform(i))
================================================================================
