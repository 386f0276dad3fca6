------------------------------- MODULE SafeOwner -------------------------------
(* The owner and nominate commands (commands/owner.js, commands/nominate.js,   *)
(* safe-utils.js). A deployment run by an account that does not own the        *)
(* contracts leaves the calls it could not make in owner-actions.json. The     *)
(* owner command stages each of them, and acceptOwnership of every contract    *)
(* nominated to it, as a transaction of the Gnosis Safe that is the owner:     *)
(* it reads the last nonce from the Safe's transaction service, approves the   *)
(* hash on chain, posts the transaction to the service and marks the entry     *)
(* complete in the file. The service lists a new transaction some time after   *)
(* the post; the Safe executes by nonce. The command may stop anywhere (a      *)
(* cancelled prompt, a failed call, a crash) and is run again later. Two of    *)
(* the service's failures do not stop it: a failed read of the last nonce is   *)
(* logged and the Safe's own nonce is taken, and a refused post is logged and  *)
(* the entry is marked complete all the same.                                  *)
EXTENDS Naturals, FiniteSets, FiniteSetsExt

CONSTANTS Actions,    \* the entries of owner-actions.json
          Contracts,  \* the contracts of config.json that have an owner
          Other,      \* a transaction staged by another signer
          NoNonce,    \* lastNonce before the first transaction of a run
          MaxOthers,  \* bound on transactions of other signers
          MaxStops,   \* bound on runs that stop before their end
          MaxFaults   \* bound on failed reads and refused posts

Items == Actions \cup Contracts

ASSUME OtherIsNoItem == Other \notin Items
ASSUME OwnerAssumption ==
  /\ IsFiniteSet(Actions) /\ IsFiniteSet(Contracts) /\ Actions \cap Contracts = {}
  /\ MaxOthers \in Nat /\ MaxStops \in Nat /\ MaxFaults \in Nat

VARIABLES safeNonce,  \* chain: the nonce the Safe executes next
          owned,      \* chain: contracts owned by the Safe
          nominated,  \* chain: contracts that have nominated the Safe
          performed,  \* chain: items the Safe has executed
          approved,   \* chain: the hashes approved by the account
          staged,     \* service: every transaction posted
          visible,    \* service: the transactions it lists
          complete,   \* owner-actions.json: entries marked complete
          pc, todo, cur, snapNonce, snapshot, lastNonce, newNonce, \* the run
          astray,     \* history: the run took a nonce blindly
          blind,      \* history: the transactions posted by runs astray
          refused,    \* history: the items whose last post was refused
          others, stops, faults

safe == <<safeNonce, owned, nominated, performed>>
service == <<staged, visible>>
local == <<todo, cur, snapNonce, snapshot, lastNonce, newNonce>>
mishaps == <<astray, blind, refused>>
bounds == <<others, stops, faults>>
ownerVars == <<safe, approved, service, complete, pc, local, mishaps, bounds>>

Tx(n, i) == [nonce |-> n, item |-> i]
isPending(t) == t.nonce >= safeNonce

OwnerInit ==
  /\ safeNonce = 0 /\ owned = {} /\ nominated = {} /\ performed = {}
  /\ approved = {} /\ staged = {} /\ visible = {} /\ complete = {}
  /\ pc = "idle" /\ todo = {} /\ cur = Other
  /\ snapNonce = 0 /\ snapshot = {} /\ lastNonce = NoNonce /\ newNonce = 0
  /\ astray = FALSE /\ blind = {} /\ refused = {}
  /\ others = 0 /\ stops = 0 /\ faults = 0

(* ------------------------------ nominate ---------------------------------- *)

\* One contract of the nominate command: its owner nominates the Safe, unless
\* the Safe owns it or is nominated already.
nominate(c) ==
  /\ c \notin owned /\ c \notin nominated
  /\ nominated' = nominated \cup {c}
  /\ UNCHANGED <<safeNonce, owned, performed, approved, service, complete, pc,
                 local, mishaps, bounds>>

(* ------------------------------- owner ------------------------------------ *)

\* A run reads the file and the nonce of the Safe. It starts when the service
\* has caught up with what earlier runs posted (the operator's care: the command
\* does not look).
start ==
  /\ pc = "idle" /\ visible = staged
  /\ pc' = "load"
  /\ todo' = (Actions \ complete) \cup Contracts
  /\ snapNonce' = safeNonce
  /\ lastNonce' = NoNonce
  /\ astray' = FALSE
  /\ UNCHANGED <<safe, approved, service, complete, cur, snapshot, newNonce,
                 blind, refused, bounds>>

\* It loads the staged transactions once (the last hundred, taken to be all that
\* are not executed), of which it keeps those not executed. After a failed load
\* the first look at them throws: a stop.
getSafeTransactions ==
  /\ pc = "load"
  /\ snapshot' = {t \in visible : isPending(t)}
  /\ pc' = "loop"
  /\ UNCHANGED <<safe, approved, service, complete, todo, cur, snapNonce,
                 lastNonce, newNonce, mishaps, bounds>>

\* The comparison of nonces misses the transaction that is executed next.
existsAfterNext(i) ==
  \E t \in snapshot : t.item = i /\ t.nonce > snapNonce
checkExistingPendingTx(i) ==
  \E t \in snapshot : t.item = i /\ t.nonce >= snapNonce

\* The entries of the file come first, then the contracts, whose owner and
\* nominee are read when their turn comes.
isTurnOf(i) == pc = "loop" /\ i \in todo /\ (i \in Contracts => todo \cap Actions = {})
notOwned(c) == c \notin owned
toAccept(c) == c \notin owned /\ c \in nominated

\* Nothing to accept, or pending already: the loop goes on to the next item.
skip(i) ==
  /\ isTurnOf(i)
  /\ (i \in Contracts /\ ~toAccept(i)) \/ checkExistingPendingTx(i)
  /\ todo' = todo \ {i}
  /\ UNCHANGED <<safe, approved, service, complete, pc, cur, snapNonce, snapshot,
                 lastNonce, newNonce, mishaps, bounds>>

\* The operator confirms that the item be staged.
confirm(i) ==
  /\ isTurnOf(i)
  /\ i \in Contracts => toAccept(i)
  /\ ~checkExistingPendingTx(i)
  /\ cur' = i
  /\ pc' = "nonce"
  /\ UNCHANGED <<safe, approved, service, complete, todo, snapNonce, snapshot,
                 lastNonce, newNonce, mishaps, bounds>>

\* The nonce that was answered is already the next one.
nonceCountedTwice(listed) ==
  IF listed = {} THEN safeNonce ELSE Max({t.nonce : t \in listed}) + 2
\* The nonce after the last transaction listed; the Safe's own if there is none.
getNewTxNonce(listed) ==
  IF listed = {} THEN safeNonce ELSE Max({t.nonce : t \in listed}) + 1

\* While the service still answers with the nonce of the last post, ask again.
nonceIsAny(n) == TRUE
nonceIsFresh(n) == n # lastNonce

takeNonce(n) ==
  /\ pc = "nonce"
  /\ nonceIsFresh(n)
  /\ newNonce' = n
  /\ pc' = "approve"
  /\ UNCHANGED <<safe, approved, service, complete, todo, cur, snapNonce, snapshot,
                 lastNonce, blind, refused, others, stops>>

getLastTx == takeNonce(getNewTxNonce(visible)) /\ UNCHANGED <<astray, faults>>

\* The read fails, which getLastTx logs only: there seems to be no transaction.
\* The run is astray if there is one that waits for the Safe.
getLastTxFails ==
  /\ faults < MaxFaults
  /\ takeNonce(getNewTxNonce({}))
  /\ astray' = (astray \/ \E t \in staged : isPending(t))
  /\ faults' = faults + 1

\* The service has listed every post and its answer is still the last nonce (the
\* last post was refused): the loop would ask for ever, until the operator ends
\* the run.
giveUp ==
  /\ pc = "nonce" /\ visible = staged
  /\ ~nonceIsFresh(getNewTxNonce(visible))
  /\ pc' = "idle"
  /\ UNCHANGED <<safe, approved, service, complete, local, mishaps, bounds>>

\* The entry is marked complete when its hash is approved.
approveAndMark ==
  /\ pc = "approve"
  /\ approved' = approved \cup {Tx(newNonce, cur)}
  /\ complete' = complete \cup ({cur} \cap Actions)
  /\ pc' = "save"
  /\ UNCHANGED <<safe, service, local, mishaps, bounds>>
sendApprovalTransaction ==
  /\ pc = "approve"
  /\ approved' = approved \cup {Tx(newNonce, cur)}
  /\ pc' = "save"
  /\ UNCHANGED <<safe, service, complete, local, mishaps, bounds>>

saveTransactionToApi ==
  /\ pc = "save"
  /\ staged' = staged \cup {Tx(newNonce, cur)}
  /\ blind' = IF astray THEN blind \cup {Tx(newNonce, cur)} ELSE blind
  /\ refused' = refused \ {cur}
  /\ pc' = "mark"
  /\ UNCHANGED <<safe, approved, visible, complete, local, astray, bounds>>

\* The service refuses the post, which saveTransactionToApi logs only.
postIsRefused ==
  /\ pc = "save" /\ faults < MaxFaults
  /\ refused' = refused \cup {cur}
  /\ faults' = faults + 1
  /\ pc' = "mark"
  /\ UNCHANGED <<safe, approved, service, complete, local, astray, blind, others, stops>>

\* The nonce is kept for the next item, and an entry of the file is complete.
markComplete ==
  /\ pc = "mark"
  /\ complete' = complete \cup ({cur} \cap Actions)
  /\ lastNonce' = newNonce
  /\ todo' = todo \ {cur}
  /\ pc' = "loop"
  /\ UNCHANGED <<safe, approved, service, cur, snapNonce, snapshot, newNonce,
                 mishaps, bounds>>

finish ==
  /\ pc = "loop" /\ todo = {}
  /\ pc' = "idle"
  /\ UNCHANGED <<safe, approved, service, complete, local, mishaps, bounds>>

\* A prompt answered with "n", a failed call or a crash ends the run where it is.
stop ==
  /\ pc # "idle" /\ stops < MaxStops
  /\ stops' = stops + 1
  /\ pc' = "idle"
  /\ UNCHANGED <<safe, approved, service, complete, local, mishaps, others, faults>>

(* ------------------------- the Safe and its service ----------------------- *)

\* The service lists a transaction that was posted.
index ==
  /\ \E t \in staged \ visible : visible' = visible \cup {t}
  /\ UNCHANGED <<safe, approved, staged, complete, pc, local, mishaps, bounds>>

\* Another signer stages a transaction of their own with the next free nonce.
\* Two signers do not stage at the same time: the command would not notice.
otherSigner ==
  /\ others < MaxOthers
  /\ visible = staged
  /\ pc \notin {"approve", "save"}
  /\ staged' = staged \cup {Tx(getNewTxNonce(staged), Other)}
  /\ visible' = staged'
  /\ others' = others + 1
  /\ UNCHANGED <<safe, approved, complete, pc, local, mishaps, stops, faults>>

\* The signers execute the transaction of the Safe's nonce, which they have from
\* the service: one of them, if two share the nonce. An accepted nomination makes
\* the Safe the owner; one of a contract that is not nominated changes nothing.
execute ==
  /\ \E t \in visible :
       /\ t.nonce = safeNonce
       /\ performed' = performed \cup ({t.item} \cap Items)
       /\ owned' = owned \cup ({t.item} \cap nominated)
       /\ nominated' = nominated \ {t.item}
  /\ safeNonce' = safeNonce + 1
  /\ UNCHANGED <<approved, service, complete, pc, local, mishaps, bounds>>

(* ------------------------------ specification ----------------------------- *)

runStep ==
  \/ start \/ getSafeTransactions \/ getLastTx \/ getLastTxFails \/ giveUp
  \/ sendApprovalTransaction \/ saveTransactionToApi \/ postIsRefused
  \/ markComplete \/ finish
  \/ \E i \in Items : skip(i) \/ confirm(i)

OwnerNext ==
  \/ runStep \/ stop \/ index \/ otherSigner \/ execute
  \/ \E c \in Contracts : nominate(c)

\* The operator runs the command again and confirms, ends a run that hangs, the
\* service lists what was posted and the signers execute what is due. Nothing
\* forces a nomination.
OwnerSpec ==
  /\ OwnerInit /\ [][OwnerNext]_ownerVars
  /\ WF_ownerVars(runStep) /\ WF_ownerVars(index) /\ WF_ownerVars(execute)

(* ------------------------------- properties ------------------------------- *)

\* An approved transaction of the item waits for the Safe.
waits(i) == \E t \in staged \cap approved : t.item = i /\ isPending(t)
\* A transaction of the item shares its nonce with another one.
crowded(i) == \E t, u \in staged : t.item = i /\ t # u /\ t.nonce = u.nonce
\* The entries the command forgets, and why: the post was refused, or the Safe
\* has executed another transaction with their nonce.
lost == {a \in complete \ performed : ~waits(a) /\ (a \in refused \/ crowded(a))}

\* Every variable has its type; the nonces that are used have no gap: they stay
\* below the number of staged transactions.
OwnerTypeOK ==
  /\ safeNonce \in 0 .. Cardinality(staged) /\ newNonce \in 0 .. Cardinality(staged)
  /\ \A t \in staged : t.nonce \in 0 .. (Cardinality(staged) - 1)
  /\ \A t \in approved : t.nonce \in 0 .. Cardinality(staged)
  /\ \A t \in staged \cup approved : t.item \in Items \cup {Other}
  /\ owned \subseteq Contracts /\ nominated \subseteq Contracts
  /\ performed \subseteq Items /\ complete \subseteq Actions
  /\ visible \subseteq staged /\ snapshot \subseteq staged /\ blind \subseteq staged
  /\ pc \in {"idle", "load", "loop", "nonce", "approve", "save", "mark"}
  /\ todo \subseteq Items /\ cur \in Items \cup {Other} /\ refused \subseteq Items
  /\ snapNonce <= safeNonce /\ lastNonce \in Nat \cup {NoNonce} /\ astray \in BOOLEAN
  /\ others \in 0 .. MaxOthers /\ stops \in 0 .. MaxStops /\ faults \in 0 .. MaxFaults

\* Two staged transactions share a nonce (of two, the Safe executes one and the
\* other is dead) only if one was posted by a run that failed to read the last
\* nonce while a transaction was pending (safe-utils.js:107); never because the
\* service answers with an old nonce until it lists the last post
\* (safe-utils.js:286), wherever a run stopped and whatever post was refused.
NoncesAreDistinct ==
  \A t, u \in staged : t.nonce = u.nonce => t = u \/ t \in blind \/ u \in blind

\* No item waits for the Safe twice, although a run that stopped between the
\* post and the mark leaves an entry that is staged and not complete
\* (safe-utils.js:249), and one that was refused its post hangs.
NothingIsPendingTwice ==
  \A t, u \in staged :
    t.item = u.item /\ t.item # Other /\ isPending(t) /\ isPending(u) => t = u

\* An entry marked complete is never looked at again: the Safe has executed it,
\* or still will because it is pending with an approved hash (owner.js:151),
\* unless its post was refused or its nonce is shared. There is no third way to
\* lose it.
CompletedIsNotLost ==
  \A a \in complete : a \in performed \/ waits(a) \/ a \in lost

\* Staging that fails is reported and retried by hand, says the message of
\* owner.js:155: a complete entry waits for the Safe or was executed.
FailedPostIsNotComplete == \A a \in complete : a \in performed \/ waits(a)

\* Whatever nominates the Safe and whatever a deployment deferred is performed in
\* the end, but for the entries lost to a refused post or a shared nonce, and
\* nothing else is: the promise of DeferredActions, with the file's entries asked
\* for from the start and a contract from its nomination on.
Promise == INSTANCE DeferredActions
             WITH Items <- Items, asked <- Actions \cup owned \cup nominated,
                  performed <- performed, lost <- lost
DeferredActionsArePerformed == Promise!Spec
================================================================================
