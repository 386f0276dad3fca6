--------------------------------- MODULE Settle ---------------------------------
(* The settle command (commands/settle.js): it lists the accounts that have    *)
(* exchanged since a block, from a file or from the chain, and for each that   *)
(* has exchanges to settle sends a transaction without waiting for the one     *)
(* before, counting the nonces itself from the one that it read at its start.  *)
(* A node keeps transactions until their nonce is next. Nonces are relative    *)
(* here: 0 is the number of transactions mined.                                *)
EXTENDS Integers, TLC

CONSTANTS Pairs,         \* an account and the synth it exchanged into
          SameAccount,   \* the settling account is the deployer's
          MaxExchanges, MaxLost, MaxOthers, MaxStops, MaxBlocks \* bounds

VARIABLES due,        \* chain: pairs with exchanges to settle
          waiting,    \* chain: those in their waiting period
          blocked,    \* chain: pairs of a suspended synth, or of an account that
                      \* has less than what is to be reclaimed of it
          exchanged,  \* chain: pairs that have a SynthExchange event
          seeded,     \* chain: the account has 0.1 ETH
          pool,       \* the node: its transactions by nonce
          cached,     \* the file: a set of pairs, or no set
          settler, latest, exchanges, nonce, \* the run
          sent        \* how many exchanges, lost broadcasts, ... so far

chainOfPairs == <<due, waiting, blocked, exchanged>>
settleChain == <<chainOfPairs, seeded, pool>>
settleRun == <<settler, latest, exchanges, nonce>>
settleVars == <<settleChain, cached, settleRun, sent>>

NoFile == {"none"}

SettleInit ==
  /\ due \in SUBSET Pairs /\ waiting = due /\ blocked = {} /\ exchanged = due
  /\ seeded \in BOOLEAN
  /\ pool = <<>>
  /\ cached = NoFile
  /\ settler = "idle" /\ latest = FALSE /\ exchanges = {} /\ nonce = 0
  /\ sent = [exchanges |-> 0, lost |-> 0, others |-> 0, stops |-> 0, blocks |-> 0]

\* One of the bounded events happens.
once(event, bound) ==
  /\ sent[event] < bound
  /\ sent' = [sent EXCEPT ![event] = @ + 1]

\* A transaction of the account is mined: the others move up.
movedUp == [n \in {k - 1 : k \in DOMAIN pool \ {0}} |-> pool[n + 1]]

(* --------------------------------- the run -------------------------------- *)

startSettle(fetch) ==
  /\ settler = "idle"
  /\ latest' = fetch
  /\ nonce' = 0
  /\ exchanges' = {}
  /\ settler' = IF seeded THEN "fetch" ELSE "seed"
  /\ UNCHANGED <<settleChain, cached, sent>>

\* The deployer sends ETH, with a nonce of its own account; the one read before
\* is then old when the accounts are the same. It fails when the nonce is taken.
seedAccount ==
  /\ settler = "seed"
  /\ IF SameAccount /\ 0 \in DOMAIN pool
     THEN settler' = "idle" /\ UNCHANGED <<seeded, pool, nonce>>
     ELSE /\ settler' = "fetch" /\ seeded' = TRUE
          /\ IF SameAccount THEN pool' = movedUp /\ nonce' = nonce - 1
             ELSE UNCHANGED <<pool, nonce>>
  /\ UNCHANGED <<chainOfPairs, cached, latest, exchanges, sent>>

\* The file is used whenever there is one.
exchangesFromFile == IF cached = NoFile THEN exchanged ELSE cached
\* The file is used if there is one and the latest are not asked for.
exchangesToSettle == IF latest \/ cached = NoFile THEN exchanged ELSE cached
loadExchanges ==
  /\ settler = "fetch"
  /\ exchanges' = exchangesToSettle
  /\ cached' = exchanges'
  /\ settler' = "loop"
  /\ UNCHANGED <<settleChain, latest, nonce, sent>>

nothingToSettle(p) ==
  /\ settler = "loop" /\ p \in exchanges /\ p \notin due
  /\ exchanges' = exchanges \ {p}
  /\ UNCHANGED <<settleChain, cached, settler, latest, nonce, sent>>

\* What the node does with a transaction: a nonce that was mined is refused; one
\* that it holds is refused too, or replaced when the gas price is higher.
broadcast(p) ==
  \/ nonce >= 0 /\ nonce \notin DOMAIN pool /\ pool' = (nonce :> p) @@ pool /\ UNCHANGED sent
  \/ nonce \in DOMAIN pool /\ pool' = [pool EXCEPT ![nonce] = p] /\ UNCHANGED sent
  \/ (nonce < 0 \/ nonce \in DOMAIN pool) /\ UNCHANGED <<pool, sent>>
  \/ once("lost", MaxLost) /\ UNCHANGED pool

\* Whatever becomes of it, the next nonce follows.
nonceAfter == nonce + 1
sendSettle(p) ==
  /\ settler = "loop" /\ p \in exchanges /\ p \in due
  /\ broadcast(p)
  /\ nonce' = nonceAfter
  /\ exchanges' = exchanges \ {p}
  /\ UNCHANGED <<chainOfPairs, seeded, cached, settler, latest>>

endSettle ==
  /\ settler = "loop" /\ exchanges = {}
  /\ settler' = "idle"
  /\ UNCHANGED <<settleChain, cached, latest, exchanges, nonce, sent>>

\* A failed read or a crash: what was sent stays in the node.
stopSettle ==
  /\ settler # "idle"
  /\ once("stops", MaxStops)
  /\ settler' = "idle"
  /\ UNCHANGED <<settleChain, cached, latest, exchanges, nonce>>

(* ------------------------------ the chain ---------------------------------- *)

\* The transaction of the next nonce is mined; it reverts while the pair waits,
\* while its synth is suspended and while the account cannot give what is to be
\* reclaimed.
mineSettle ==
  /\ 0 \in DOMAIN pool
  /\ due' = IF pool[0] \in waiting \cup blocked THEN due ELSE due \ {pool[0]}
  /\ pool' = movedUp
  /\ nonce' = nonce - 1
  /\ UNCHANGED <<waiting, blocked, exchanged, seeded, cached, settler, latest, exchanges, sent>>

\* Another tool sends a transaction of the same account.
otherTool ==
  /\ once("others", MaxOthers) /\ 0 \notin DOMAIN pool
  /\ pool' = movedUp
  /\ nonce' = nonce - 1
  /\ UNCHANGED <<chainOfPairs, seeded, cached, settler, latest, exchanges>>

\* An account that has too little to settle a pair may exchange into it.
userExchanges ==
  /\ once("exchanges", MaxExchanges)
  /\ \E p \in Pairs :
       due' = due \cup {p} /\ waiting' = waiting \cup {p} /\ exchanged' = exchanged \cup {p}
  /\ UNCHANGED <<blocked, seeded, pool, cached, settleRun>>

userSettles ==
  /\ \E p \in due \ (waiting \cup blocked) : due' = due \ {p}
  /\ UNCHANGED <<waiting, blocked, exchanged, seeded, pool, cached, settleRun, sent>>

waitingEnds ==
  /\ waiting # {} /\ waiting' = {}
  /\ UNCHANGED <<due, blocked, exchanged, seeded, pool, cached, settleRun, sent>>

\* A synth is suspended, or an account spends what is to be reclaimed of it; and
\* it is resumed, or the account gets enough again.
settlingIsBlocked ==
  /\ once("blocks", MaxBlocks)
  /\ \E p \in Pairs \ blocked : blocked' = blocked \cup {p}
  /\ UNCHANGED <<due, waiting, exchanged, seeded, pool, cached, settleRun>>
blockEnds ==
  /\ blocked # {} /\ blocked' = {}
  /\ UNCHANGED <<due, waiting, exchanged, seeded, pool, cached, settleRun, sent>>

settleStep ==
  \/ seedAccount \/ loadExchanges \/ endSettle
  \/ \E p \in Pairs : nothingToSettle(p) \/ sendSettle(p)
SettleNext ==
  \/ \E fetch \in BOOLEAN : startSettle(fetch)
  \/ settleStep \/ stopSettle
  \/ mineSettle \/ otherTool \/ userExchanges \/ userSettles \/ waitingEnds
  \/ settlingIsBlocked \/ blockEnds

\* A started run goes on, again and again the latest are fetched, the node's
\* transactions are mined, and waiting periods and whatever else blocks a pair end.
\* No user has to settle.
SettleFairness ==
  /\ WF_settleVars(settleStep) /\ SF_settleVars(startSettle(TRUE))
  /\ WF_settleVars(mineSettle) /\ WF_settleVars(waitingEnds)
  /\ WF_settleVars(blockEnds)
SettleSpec == SettleInit /\ [][SettleNext]_settleVars /\ SettleFairness

(* ------------------------------- properties ------------------------------- *)

\* Whatever is to be settled is settled in the end, although nobody awaits the
\* transactions (settle.js:219): refused, lost and reverted ones leave gaps that
\* a later run, which counts from the mined nonce again, fills (settle.js:74).
\* It is assumed that nothing blocks a pair for ever (Exchanger.sol:500, :624).
DueIsSettled == \A p \in Pairs : p \in due ~> p \notin due
================================================================================
