---------------------------- MODULE SafeOwnerProofs ----------------------------
(* The owner command stages two transactions on one nonce only after a blind   *)
(* read, never has an item wait for the Safe twice and loses an entry that it  *)
(* marked complete only to a refused post or a shared nonce, for any number of *)
(* actions, contracts, stopped runs, failures of the service and other         *)
(* signers. The argument is about what the service has not listed yet: in a    *)
(* run that is not astray it is at most the last post, whose nonce is the next *)
(* one by what the service lists.                                              *)
EXTENDS SafeOwner, FiniteSetTheorems, TLAPS

Transactions == [nonce : Nat, item : Items \cup {Other}]
Steps == {"idle", "load", "loop", "nonce", "approve", "save", "mark"}

\* The nonce that the service's answer leads to.
nextNonce == getNewTxNonce(visible)

(* ------------------------- the inductive invariants ----------------------- *)

StageTypes ==
  /\ safeNonce \in Nat /\ newNonce \in Nat /\ snapNonce \in Nat
  /\ staged \subseteq Transactions /\ visible \subseteq staged
  /\ blind \subseteq staged /\ astray \in BOOLEAN
  /\ complete \subseteq Actions /\ performed \subseteq Items
  /\ pc \in Steps /\ todo \subseteq Items /\ todo \cap complete = {}
  /\ pc \in {"nonce", "approve", "save", "mark"} => cur \in todo

\* The next nonce follows the last one listed, or is the Safe's.
NextFollowsListed ==
  /\ nextNonce \in Nat /\ safeNonce <= nextNonce
  /\ visible = {} => nextNonce = safeNonce /\ safeNonce = 0
  /\ visible # {} => \E m \in visible : nextNonce = m.nonce + 1
  /\ \A t \in visible : t.nonce < nextNonce

\* What is not listed has the next nonce, unless the run is astray: it is the
\* last post of the run, or of one that stopped, and no run has got past the
\* reading of a nonce with it.
UnlistedIsLast ==
  /\ pc = "load" => visible = staged
  /\ astray \/
       /\ \A t \in staged \ visible : t.nonce = nextNonce
       /\ \A t, u \in staged \ visible : t = u
       /\ pc \in {"approve", "save"} => visible = staged /\ newNonce = nextNonce
       /\ pc \in {"loop", "nonce"} => \A t \in staged \ visible : t.nonce = lastNonce
       /\ pc = "mark" => \A t \in staged \ visible : t.nonce = newNonce

NumberInv == StageTypes /\ NextFollowsListed /\ UnlistedIsLast /\ NoncesAreDistinct

\* What waits for the Safe and is still to do was loaded by the run; the item in
\* hand does not wait.
LoadedWhatWaits ==
  /\ snapNonce <= safeNonce
  /\ pc \in {"loop", "nonce", "approve", "save", "mark"} =>
       \A t \in staged :
         isPending(t) /\ t.item \in todo /\ (pc = "mark" => t.item # cur) => t \in snapshot
  /\ pc \in {"nonce", "approve", "save"} =>
       \A t \in staged : isPending(t) => t.item # cur

PendingInv == LoadedWhatWaits /\ NothingIsPendingTwice

\* What becomes of an item that is marked: it is performed, waits for the Safe,
\* was refused or shares its nonce.
kept(i) == i \in performed \/ waits(i) \/ i \in refused \/ crowded(i)

\* The transaction of the item in hand is approved before it is posted; its nonce
\* is not behind the Safe, or is that of another item.
InHandIsApproved ==
  /\ pc = "save" => Tx(newNonce, cur) \in approved
  /\ pc \in {"approve", "save"} =>
       newNonce >= safeNonce \/ \E u \in staged : u.nonce = newNonce /\ u.item # cur
  /\ \A t \in staged : t.item \in Items => t \in approved

KeptInv ==
  /\ InHandIsApproved
  /\ pc = "mark" => kept(cur)
  /\ \A a \in complete : kept(a)

(* --------------------------------- lemmas --------------------------------- *)

\* safe-utils.js getLastTx: of transactions with a last one, the greatest nonce.
LEMMA MaxOfLast ==
  ASSUME NEW S, S \subseteq Transactions, NEW m \in S, \A t \in S : t.nonce <= m.nonce
  PROVE  Max({t.nonce : t \in S}) = m.nonce
<1> DEFINE N == {t.nonce : t \in S}
<1>1. N \subseteq Nat /\ m.nonce \in N
  BY DEF Transactions
<1>2. \A y \in N : m.nonce >= y
  BY <1>1 DEF Transactions
<1>3. \E x \in N : \A y \in N : x >= y
  BY <1>1, <1>2
<1>4. Max(N) \in N /\ \A y \in N : Max(N) >= y
  <2> HIDE DEF N
  <2> QED BY <1>3 DEF Max
<1>5. Max(N) = m.nonce
  <2>1. \A x \in N : x >= m.nonce /\ m.nonce >= x => x = m.nonce
    BY <1>1
  <2> HIDE DEF N
  <2> QED BY <1>1, <1>2, <1>4, <2>1
<1> QED BY <1>5

\* The service lists one transaction more: the next nonce grows, and is the one
\* after it if it had the next nonce.
LEMMA NextAfterOneMore ==
  ASSUME StageTypes, StageTypes', NextFollowsListed, NEW t \in Transactions,
         visible' = visible \cup {t}, safeNonce' = safeNonce
  PROVE  NextFollowsListed' /\ (t.nonce >= nextNonce => nextNonce' = t.nonce + 1)
<1>1. visible' \subseteq Transactions /\ t \in visible' /\ t.nonce \in Nat /\ nextNonce \in Nat
  BY DEF StageTypes, Transactions, NextFollowsListed
<1>2. ASSUME NEW m \in visible', \A u \in visible' : u.nonce <= m.nonce
      PROVE  nextNonce' = m.nonce + 1 /\ m.nonce \in Nat /\ \A u \in visible' : u.nonce < m.nonce + 1
  <2>1. Max({u.nonce : u \in visible'}) = m.nonce
    BY <1>1, <1>2, MaxOfLast
  <2>2. m.nonce \in Nat /\ \A u \in visible' : u.nonce \in Nat
    BY <1>1 DEF Transactions
  <2> QED BY <1>1, <1>2, <2>1, <2>2 DEF nextNonce, getNewTxNonce
<1>3. CASE t.nonce >= nextNonce
  <2>1. \A u \in visible' : u.nonce <= t.nonce
    BY <1>1, <1>3 DEF NextFollowsListed, StageTypes, Transactions
  <2>2. nextNonce' = t.nonce + 1 /\ \A u \in visible' : u.nonce < t.nonce + 1
    BY <1>1, <1>2, <2>1
  <2> QED BY <1>1, <1>3, <2>2 DEF NextFollowsListed, StageTypes
<1>4. CASE t.nonce < nextNonce
  <2>1. CASE visible = {}
    <3>1. \A u \in visible' : u.nonce <= t.nonce
      BY <1>1, <2>1
    <3>2. nextNonce' = t.nonce + 1 /\ \A u \in visible' : u.nonce < t.nonce + 1
      BY <1>1, <1>2, <3>1
    <3> QED BY <1>1, <1>4, <2>1, <3>2 DEF NextFollowsListed, StageTypes
  <2>2. CASE visible # {}
    <3>1. PICK m \in visible : nextNonce = m.nonce + 1
      BY <2>2 DEF NextFollowsListed
    <3>2. m \in visible' /\ m.nonce \in Nat
      BY <1>1, <3>1 DEF Transactions
    <3>3. \A u \in visible' : u.nonce <= m.nonce
      BY <1>1, <1>4, <3>1, <3>2 DEF NextFollowsListed, Transactions
    <3>4. nextNonce' = m.nonce + 1 /\ \A u \in visible' : u.nonce < m.nonce + 1
      BY <1>2, <3>2, <3>3
    <3> QED BY <1>1, <1>4, <3>1, <3>2, <3>4 DEF NextFollowsListed, StageTypes
  <2> QED BY <2>1, <2>2
<1> QED BY <1>1, <1>3, <1>4

\* A step that neither lists nor executes keeps the next nonce.
LEMMA NextUnchanged ==
  ASSUME NextFollowsListed, UNCHANGED <<visible, safeNonce>>
  PROVE  NextFollowsListed' /\ nextNonce' = nextNonce
BY DEF NextFollowsListed, nextNonce, getNewTxNonce

(* ------------------------------- numbering -------------------------------- *)

LEMMA StageTypesInit == OwnerInit => StageTypes
<1>1. OwnerInit => safeNonce \in Nat /\ newNonce \in Nat /\ snapNonce \in Nat
  BY DEF OwnerInit
<1>2. OwnerInit => astray \in BOOLEAN
  BY Zenon DEF OwnerInit
<1> QED BY <1>1, <1>2 DEF OwnerInit, StageTypes, Steps

LEMMA NumberInit == OwnerInit => NumberInv
<1> SUFFICES ASSUME OwnerInit PROVE NumberInv
  OBVIOUS
<1>1. StageTypes
  BY StageTypesInit
<1>2. NextFollowsListed
  BY DEF OwnerInit, NextFollowsListed, nextNonce, getNewTxNonce
<1>3. UnlistedIsLast /\ NoncesAreDistinct
  BY DEF OwnerInit, UnlistedIsLast, NoncesAreDistinct
<1> QED BY <1>1, <1>2, <1>3 DEF NumberInv

\* Types: the number of a post is a natural because the next nonce is one.
LEMMA StageTypesStep ==
  ASSUME StageTypes, NextFollowsListed, UnlistedIsLast, [OwnerNext]_ownerVars
  PROVE  StageTypes'
<1> USE DEF StageTypes, Steps, mishaps
<1>1. CASE start
  <2>1. Contracts \cap complete = {}
    BY OwnerAssumption
  <2> QED BY <1>1, <2>1 DEF start, safe, service, bounds, Items
<1>2. CASE getSafeTransactions
  BY <1>2 DEF getSafeTransactions, safe, service, bounds
<1>3. CASE getLastTx
  BY <1>3 DEF getLastTx, takeNonce, safe, service, NextFollowsListed, nextNonce
<1>4. CASE getLastTxFails
  <2>1. getNewTxNonce({}) = safeNonce
    BY DEF getNewTxNonce
  <2> QED BY <1>4, <2>1 DEF getLastTxFails, takeNonce, safe, service
<1>5. CASE giveUp
  BY <1>5 DEF giveUp, safe, service, local
<1>6. CASE sendApprovalTransaction
  BY <1>6 DEF sendApprovalTransaction, safe, service, local
<1>7. CASE saveTransactionToApi
  BY <1>7 DEF saveTransactionToApi, safe, local, Transactions, Tx
<1>8. CASE postIsRefused
  BY <1>8 DEF postIsRefused, safe, service, local
<1>9. CASE markComplete
  BY <1>9 DEF markComplete, safe, service
<1>10. CASE finish
  BY <1>10 DEF finish, safe, service, local
<1>11. ASSUME NEW i \in Items, skip(i) PROVE StageTypes'
  BY <1>11 DEF skip, isTurnOf, safe, service
<1>12. ASSUME NEW i \in Items, confirm(i) PROVE StageTypes'
  BY <1>12 DEF confirm, isTurnOf, safe, service
<1>13. CASE stop
  BY <1>13 DEF stop, safe, service, local
<1>14. CASE index
  BY <1>14 DEF index, safe, local
<1>15. CASE otherSigner
  <2>1. getNewTxNonce(staged) \in Nat
    BY <1>15 DEF otherSigner, NextFollowsListed, nextNonce
  <2> QED BY <1>15, <2>1 DEF otherSigner, safe, local, Transactions, Tx
<1>16. CASE execute
  BY <1>16 DEF execute, service, local
<1>17. ASSUME NEW c \in Contracts, nominate(c) PROVE StageTypes'
  BY <1>17 DEF nominate, service, local
<1>18. CASE UNCHANGED ownerVars
  BY <1>18 DEF ownerVars, safe, service, local
<1> QED BY <1>1, <1>2, <1>3, <1>4, <1>5, <1>6, <1>7, <1>8, <1>9, <1>10, <1>11,
           <1>12, <1>13, <1>14, <1>15, <1>16, <1>17, <1>18 DEF OwnerNext, runStep

\* The nonces of what is staged and listed, over the steps of the run, of the
\* service and of the Safe.
LEMMA NumberStep ==
  ASSUME NumberInv, [OwnerNext]_ownerVars
  PROVE  NumberInv'
<1>1. StageTypes /\ NextFollowsListed /\ UnlistedIsLast /\ NoncesAreDistinct
  BY DEF NumberInv
<1>2. StageTypes'
  BY <1>1, StageTypesStep
<1> SUFFICES NextFollowsListed' /\ UnlistedIsLast' /\ NoncesAreDistinct'
  BY <1>2 DEF NumberInv
<1> USE DEF mishaps
<1>3. ASSUME UNCHANGED <<safeNonce, staged, visible>>, blind \subseteq blind'
      PROVE  NextFollowsListed' /\ nextNonce' = nextNonce /\ NoncesAreDistinct'
  BY <1>1, <1>3, NextUnchanged DEF NoncesAreDistinct
<1>4. CASE start
  <2>1. UNCHANGED <<safeNonce, staged, visible, blind>> /\ visible = staged /\ pc' = "load"
    BY <1>4 DEF start, safe, service
  <2> QED BY <1>1, <1>3, <2>1 DEF UnlistedIsLast
<1>5. CASE getSafeTransactions
  <2>1. UNCHANGED <<safeNonce, staged, visible, blind, astray>> /\ pc = "load" /\ pc' = "loop"
    BY <1>5 DEF getSafeTransactions, safe, service
  <2> QED BY <1>1, <1>3, <2>1 DEF UnlistedIsLast
<1>6. CASE getLastTx
  <2>1. UNCHANGED <<safeNonce, staged, visible, blind, astray>> /\ pc = "nonce"
        /\ pc' = "approve" /\ nextNonce # lastNonce /\ newNonce' = nextNonce
    BY <1>6 DEF getLastTx, takeNonce, nonceIsFresh, nextNonce, safe, service
  <2>2. astray \/ visible = staged
    BY <1>1, <2>1 DEF UnlistedIsLast, StageTypes
  <2> QED BY <1>1, <1>3, <2>1, <2>2 DEF UnlistedIsLast
<1>7. CASE getLastTxFails
  <2>1. /\ UNCHANGED <<safeNonce, staged, visible, blind>> /\ pc = "nonce" /\ pc' = "approve"
        /\ newNonce' = safeNonce /\ astray' = (astray \/ \E t \in staged : isPending(t))
    BY <1>7 DEF getLastTxFails, takeNonce, getNewTxNonce, safe, service
  <2>2. ASSUME ~astray' PROVE visible = staged /\ nextNonce = safeNonce
    <3>0. ~astray /\ ~\E t \in staged : isPending(t)
      BY <2>1, <2>2, Zenon
    <3>1. ~astray /\ \A t \in staged : t.nonce < safeNonce
      BY <1>1, <3>0 DEF isPending, StageTypes, Transactions
    <3>2. visible = staged
      BY <1>1, <3>1 DEF UnlistedIsLast, NextFollowsListed, StageTypes, Transactions
    <3>3. nextNonce = safeNonce
      BY <1>1, <3>1 DEF NextFollowsListed, StageTypes, Transactions
    <3> QED BY <3>2, <3>3
  <2>3. UnlistedIsLast'
    BY <1>3, <2>1, <2>2 DEF UnlistedIsLast
  <2> QED BY <1>3, <2>1, <2>3
<1>8. CASE sendApprovalTransaction
  <2>1. UNCHANGED <<safeNonce, staged, visible, newNonce, blind, astray>>
        /\ pc = "approve" /\ pc' = "save"
    BY <1>8 DEF sendApprovalTransaction, safe, service, local
  <2> QED BY <1>1, <1>3, <2>1 DEF UnlistedIsLast
<1>9. CASE saveTransactionToApi
  <2>1. /\ UNCHANGED <<safeNonce, visible, newNonce, astray>> /\ pc = "save" /\ pc' = "mark"
        /\ staged' = staged \cup {Tx(newNonce, cur)}
        /\ blind' = IF astray THEN blind \cup {Tx(newNonce, cur)} ELSE blind
    BY <1>9 DEF saveTransactionToApi, safe, local
  <2>2. NextFollowsListed' /\ nextNonce' = nextNonce
    BY <1>1, <2>1, NextUnchanged
  <2>3. CASE astray
    BY <1>1, <2>1, <2>2, <2>3 DEF UnlistedIsLast, NoncesAreDistinct
  <2>4. CASE ~astray
    <3>1. visible = staged /\ newNonce = nextNonce /\ Tx(newNonce, cur).nonce = newNonce
      BY <1>1, <2>1, <2>4 DEF UnlistedIsLast, Tx
    <3>2. UnlistedIsLast'
      BY <2>1, <2>2, <3>1 DEF UnlistedIsLast
    <3>3. \A t \in staged : t.nonce # newNonce
      BY <1>1, <3>1 DEF NextFollowsListed, StageTypes, Transactions
    <3>4. NoncesAreDistinct'
      BY <1>1, <2>1, <2>4, <3>1, <3>3 DEF NoncesAreDistinct
    <3> QED BY <2>2, <3>2, <3>4
  <2> QED BY <2>3, <2>4
<1>10. CASE postIsRefused
  <2>1. UNCHANGED <<safeNonce, staged, visible, newNonce, blind, astray>>
        /\ pc = "save" /\ pc' = "mark"
    BY <1>10 DEF postIsRefused, safe, service, local
  <2> QED BY <1>1, <1>3, <2>1 DEF UnlistedIsLast
<1>11. CASE markComplete
  <2>1. UNCHANGED <<safeNonce, staged, visible, blind, astray>> /\ pc = "mark" /\ pc' = "loop"
        /\ lastNonce' = newNonce
    BY <1>11 DEF markComplete, safe, service
  <2> QED BY <1>1, <1>3, <2>1 DEF UnlistedIsLast
<1>12. ASSUME finish \/ stop \/ giveUp
       PROVE  NextFollowsListed' /\ UnlistedIsLast' /\ NoncesAreDistinct'
  <2>1. UNCHANGED <<safeNonce, staged, visible, blind, astray>> /\ pc' = "idle"
    BY <1>12 DEF finish, stop, giveUp, safe, service
  <2> QED BY <1>1, <1>3, <2>1 DEF UnlistedIsLast
<1>13. ASSUME NEW i \in Items, skip(i)
       PROVE  NextFollowsListed' /\ UnlistedIsLast' /\ NoncesAreDistinct'
  <2>1. UNCHANGED <<safeNonce, staged, visible, pc, lastNonce, newNonce, blind, astray>>
    BY <1>13 DEF skip, safe, service
  <2> QED BY <1>1, <1>3, <2>1 DEF UnlistedIsLast
<1>14. ASSUME NEW i \in Items, confirm(i)
       PROVE  NextFollowsListed' /\ UnlistedIsLast' /\ NoncesAreDistinct'
  <2>1. UNCHANGED <<safeNonce, staged, visible, lastNonce, blind, astray>>
        /\ pc = "loop" /\ pc' = "nonce"
    BY <1>14 DEF confirm, isTurnOf, safe, service
  <2> QED BY <1>1, <1>3, <2>1 DEF UnlistedIsLast
<1>15. CASE index
  <2>1. UNCHANGED <<safeNonce, staged, pc, lastNonce, newNonce, blind, astray>>
    BY <1>15 DEF index, safe, local
  <2>2. PICK t \in staged \ visible : visible' = visible \cup {t}
    BY <1>15 DEF index
  <2>3. t \in Transactions
    BY <1>1 DEF StageTypes
  <2>4. NextFollowsListed'
    BY <1>1, <1>2, <2>1, <2>2, <2>3, NextAfterOneMore
  <2>5. astray \/ visible' = staged'
    BY <1>1, <2>1, <2>2 DEF UnlistedIsLast, StageTypes
  <2>6. pc' # "load" /\ (astray \/ pc' \notin {"approve", "save"})
    BY <1>1, <2>1, <2>2 DEF UnlistedIsLast
  <2>7. UnlistedIsLast'
    BY <2>1, <2>5, <2>6 DEF UnlistedIsLast
  <2>8. NoncesAreDistinct'
    BY <1>1, <2>1 DEF NoncesAreDistinct
  <2> QED BY <2>4, <2>7, <2>8
<1>16. CASE otherSigner
  <2> DEFINE t == Tx(nextNonce, Other)
  <2>1. /\ UNCHANGED <<safeNonce, pc, blind, astray>> /\ visible = staged /\ visible' = staged'
        /\ pc \notin {"approve", "save"} /\ staged' = staged \cup {t}
    BY <1>16 DEF otherSigner, safe, local, nextNonce
  <2>2. t \in Transactions /\ t.nonce = nextNonce
    BY <1>1 DEF NextFollowsListed, Transactions, Tx
  <2> HIDE DEF t
  <2>3. NextFollowsListed'
    BY <1>1, <1>2, <2>1, <2>2, NextAfterOneMore
  <2>4. UnlistedIsLast'
    BY <2>1 DEF UnlistedIsLast
  <2>5. \A u \in staged : u.nonce # t.nonce
    BY <1>1, <2>1, <2>2 DEF NextFollowsListed, StageTypes, Transactions
  <2>6. NoncesAreDistinct'
    BY <1>1, <2>1, <2>5 DEF NoncesAreDistinct
  <2> QED BY <2>3, <2>4, <2>6
<1>17. CASE execute
  <2>1. /\ UNCHANGED <<staged, visible, pc, lastNonce, newNonce, blind, astray>>
        /\ safeNonce' = safeNonce + 1 /\ \E t \in visible : t.nonce = safeNonce
    BY <1>17 DEF execute, service, local
  <2>2. nextNonce' = nextNonce
    BY <2>1 DEF nextNonce, getNewTxNonce
  <2>3. NextFollowsListed'
    <3>1. safeNonce < nextNonce
      BY <1>1, <2>1 DEF NextFollowsListed
    <3> QED BY <1>1, <2>1, <2>2, <3>1 DEF NextFollowsListed, StageTypes
  <2>4. UnlistedIsLast' /\ NoncesAreDistinct'
    BY <1>1, <2>1, <2>2 DEF UnlistedIsLast, NoncesAreDistinct
  <2> QED BY <2>3, <2>4
<1>18. ASSUME NEW c \in Contracts, nominate(c)
       PROVE  NextFollowsListed' /\ UnlistedIsLast' /\ NoncesAreDistinct'
  <2>1. UNCHANGED <<safeNonce, staged, visible, pc, lastNonce, newNonce, blind, astray>>
    BY <1>18 DEF nominate, service, local
  <2> QED BY <1>1, <1>3, <2>1 DEF UnlistedIsLast
<1>19. CASE UNCHANGED ownerVars
  <2>1. UNCHANGED <<safeNonce, staged, visible, pc, lastNonce, newNonce, blind, astray>>
    BY <1>19 DEF ownerVars, safe, service, local
  <2> QED BY <1>1, <1>3, <2>1 DEF UnlistedIsLast
<1> QED BY <1>4, <1>5, <1>6, <1>7, <1>8, <1>9, <1>10, <1>11, <1>12, <1>13, <1>14,
           <1>15, <1>16, <1>17, <1>18, <1>19 DEF OwnerNext, runStep

\* The nonces stay numbered as the service says.
LEMMA NumberHolds == OwnerSpec => []NumberInv
<1>1. OwnerSpec => OwnerInit /\ [][OwnerNext]_ownerVars
  BY PTL DEF OwnerSpec
<1> QED BY <1>1, NumberInit, NumberStep, PTL

\* safe-utils.js createAndSaveApprovalTransaction: two transactions are staged on
\* one nonce only after a failed read of the last one with a transaction pending;
\* never while the service lags behind, or after a refused post.
THEOREM NoncesStayDistinct == OwnerSpec => []NoncesAreDistinct
<1>1. NumberInv => NoncesAreDistinct
  BY DEF NumberInv
<1> QED BY <1>1, NumberHolds, PTL

(* ------------------------------ what is pending --------------------------- *)

LEMMA PendingInit == OwnerInit => PendingInv
BY DEF OwnerInit, PendingInv, LoadedWhatWaits, NothingIsPendingTwice

\* An item that is staged was not pending; one that is pending was loaded. In
\* the other steps nothing begins to wait for the Safe.
LEMMA PendingStep ==
  ASSUME NumberInv, PendingInv, [OwnerNext]_ownerVars
  PROVE  PendingInv'
<1>1. /\ StageTypes /\ NextFollowsListed /\ UnlistedIsLast
      /\ LoadedWhatWaits /\ NothingIsPendingTwice
  BY DEF NumberInv, PendingInv
<1>2. ASSUME UNCHANGED <<safeNonce, staged>> PROVE NothingIsPendingTwice'
  BY <1>1, <1>2 DEF NothingIsPendingTwice, isPending
<1> USE DEF PendingInv
<1>3. CASE start
  <2>1. UNCHANGED <<safeNonce, staged>> /\ pc' = "load" /\ snapNonce' = safeNonce
    BY <1>3 DEF start, safe, service
  <2>2. LoadedWhatWaits'
    BY <1>1, <2>1 DEF LoadedWhatWaits, StageTypes
  <2> QED BY <1>2, <2>1, <2>2
<1>4. CASE getSafeTransactions
  <2>1. /\ UNCHANGED <<safeNonce, staged, snapNonce, todo, cur>> /\ pc = "load" /\ pc' = "loop"
        /\ snapshot' = {t \in visible : isPending(t)}
    BY <1>4 DEF getSafeTransactions, safe, service
  <2>2. visible = staged
    BY <1>1, <2>1 DEF UnlistedIsLast
  <2>3. LoadedWhatWaits'
    BY <1>1, <2>1, <2>2 DEF LoadedWhatWaits, isPending
  <2> QED BY <1>2, <2>1, <2>3
<1>5. ASSUME NEW i \in Items, skip(i) PROVE PendingInv'
  <2>1. /\ UNCHANGED <<safeNonce, staged, snapNonce, snapshot, cur, pc>> /\ todo' \subseteq todo
        /\ pc = "loop"
    BY <1>5 DEF skip, isTurnOf, safe, service
  <2>2. LoadedWhatWaits'
    BY <1>1, <2>1 DEF LoadedWhatWaits, isPending
  <2> QED BY <1>2, <2>1, <2>2
<1>6. ASSUME NEW i \in Items, confirm(i) PROVE PendingInv'
  <2>1. /\ UNCHANGED <<safeNonce, staged, snapNonce, snapshot, todo>>
        /\ pc = "loop" /\ pc' = "nonce" /\ cur' = i /\ i \in todo
        /\ ~\E t \in snapshot : t.item = i /\ t.nonce >= snapNonce
    BY <1>6 DEF confirm, isTurnOf, checkExistingPendingTx, safe, service
  <2>2. ASSUME NEW t \in staged, isPending(t), t.item = i PROVE FALSE
    <3>1. t \in snapshot
      BY <1>1, <2>1, <2>2 DEF LoadedWhatWaits
    <3>2. t.nonce >= snapNonce
      BY <1>1, <2>2 DEF LoadedWhatWaits, isPending, StageTypes, Transactions
    <3> QED BY <2>1, <2>2, <3>1, <3>2
  <2>3. LoadedWhatWaits'
    BY <1>1, <2>1, <2>2 DEF LoadedWhatWaits, isPending
  <2> QED BY <1>2, <2>1, <2>3
<1>7. ASSUME getLastTx \/ getLastTxFails \/ sendApprovalTransaction PROVE PendingInv'
  <2>1. /\ UNCHANGED <<safeNonce, staged, snapNonce, snapshot, todo, cur>>
        /\ pc \in {"nonce", "approve"} /\ pc' \in {"approve", "save"}
    BY <1>7 DEF getLastTx, getLastTxFails, takeNonce, sendApprovalTransaction, safe, service,
                local
  <2>2. LoadedWhatWaits'
    BY <1>1, <2>1 DEF LoadedWhatWaits, isPending
  <2> QED BY <1>2, <2>1, <2>2
<1>8. CASE saveTransactionToApi
  <2>1. /\ UNCHANGED <<safeNonce, snapNonce, snapshot, todo, cur>>
        /\ pc = "save" /\ pc' = "mark" /\ staged' = staged \cup {Tx(newNonce, cur)}
    BY <1>8 DEF saveTransactionToApi, safe, local
  <2>2. \A t \in staged : isPending(t) => t.item # cur
    BY <1>1, <2>1 DEF LoadedWhatWaits
  <2>3. Tx(newNonce, cur).item = cur
    BY DEF Tx
  <2>4. LoadedWhatWaits'
    BY <1>1, <2>1, <2>3 DEF LoadedWhatWaits, isPending
  <2>5. NothingIsPendingTwice'
    BY <1>1, <2>1, <2>2, <2>3 DEF NothingIsPendingTwice, isPending
  <2> QED BY <2>4, <2>5
<1>9. CASE markComplete
  <2>1. /\ UNCHANGED <<safeNonce, staged, snapNonce, snapshot, cur>>
        /\ pc = "mark" /\ pc' = "loop" /\ todo' = todo \ {cur}
    BY <1>9 DEF markComplete, safe, service
  <2>2. LoadedWhatWaits'
    BY <1>1, <2>1 DEF LoadedWhatWaits, isPending
  <2> QED BY <1>2, <2>1, <2>2
<1>10. ASSUME finish \/ stop \/ giveUp PROVE PendingInv'
  <2>1. UNCHANGED <<safeNonce, staged, snapNonce>> /\ pc' = "idle"
    BY <1>10 DEF finish, stop, giveUp, safe, service, local
  <2>2. LoadedWhatWaits'
    BY <1>1, <2>1 DEF LoadedWhatWaits
  <2> QED BY <1>2, <2>1, <2>2
<1>11. CASE otherSigner
  <2>1. /\ UNCHANGED <<safeNonce, snapNonce, snapshot, todo, cur, pc>>
        /\ pc \notin {"approve", "save"}
        /\ staged' = staged \cup {Tx(getNewTxNonce(staged), Other)}
    BY <1>11 DEF otherSigner, safe, local
  <2>2. Tx(getNewTxNonce(staged), Other).item = Other
    BY DEF Tx
  <2>3. Other \notin todo
    BY <1>1, OtherIsNoItem DEF StageTypes
  <2>4. pc = "nonce" => cur # Other
    BY <1>1, <2>3 DEF StageTypes
  <2>5. LoadedWhatWaits'
    BY <1>1, <2>1, <2>2, <2>3, <2>4 DEF LoadedWhatWaits, isPending
  <2>6. NothingIsPendingTwice'
    BY <1>1, <2>1, <2>2 DEF NothingIsPendingTwice, isPending
  <2> QED BY <2>5, <2>6
<1>12. CASE execute
  <2>1. /\ UNCHANGED <<staged, snapNonce, snapshot, todo, cur, pc>> /\ safeNonce' = safeNonce + 1
    BY <1>12 DEF execute, service, local
  <2>2. \A t \in staged : isPending(t)' => isPending(t)
    BY <1>1, <2>1 DEF isPending, StageTypes, Transactions
  <2>3. snapNonce' <= safeNonce'
    BY <1>1, <2>1 DEF LoadedWhatWaits, StageTypes
  <2>4. LoadedWhatWaits'
    BY <1>1, <2>1, <2>2, <2>3 DEF LoadedWhatWaits
  <2>5. NothingIsPendingTwice'
    BY <1>1, <2>1, <2>2 DEF NothingIsPendingTwice
  <2> QED BY <2>4, <2>5
<1>13. ASSUME index \/ (\E c \in Contracts : nominate(c)) \/ UNCHANGED ownerVars
       PROVE  PendingInv'
  <2>1. UNCHANGED <<safeNonce, staged, snapNonce, snapshot, todo, cur, pc>>
    BY <1>13 DEF index, nominate, ownerVars, safe, service, local
  <2>2. LoadedWhatWaits'
    BY <1>1, <2>1 DEF LoadedWhatWaits, isPending
  <2> QED BY <1>2, <2>1, <2>2
<1>14. CASE postIsRefused
  <2>1. /\ UNCHANGED <<safeNonce, staged, snapNonce, snapshot, todo, cur>>
        /\ pc = "save" /\ pc' = "mark"
    BY <1>14 DEF postIsRefused, safe, service, local
  <2>2. LoadedWhatWaits'
    BY <1>1, <2>1 DEF LoadedWhatWaits, isPending
  <2> QED BY <1>2, <2>1, <2>2
<1> QED BY <1>3, <1>4, <1>5, <1>6, <1>7, <1>8, <1>9, <1>10, <1>11, <1>12, <1>13, <1>14
        DEF OwnerNext, runStep

\* safe-utils.js checkExistingPendingTx: no deferred action and no acceptance
\* waits for the Safe twice, wherever earlier runs stopped.
THEOREM NothingStaysPendingTwice == OwnerSpec => []NothingIsPendingTwice
<1>1. OwnerSpec => OwnerInit /\ [][OwnerNext]_ownerVars
  BY PTL DEF OwnerSpec
<1>2. PendingInv => NothingIsPendingTwice
  BY DEF PendingInv
<1> QED BY <1>1, <1>2, PendingInit, PendingStep, NumberHolds, PTL

(* ------------------------------ what is complete -------------------------- *)

LEMMA KeptInit == OwnerInit => KeptInv
BY DEF OwnerInit, KeptInv, InHandIsApproved

\* An entry is marked after its transaction is approved and posted, or refused;
\* the Safe passes the nonce of a transaction only by executing it or one that
\* shares the nonce.
LEMMA KeptStep ==
  ASSUME NumberInv, PendingInv, KeptInv, [OwnerNext]_ownerVars
  PROVE  KeptInv'
<1>1. /\ StageTypes /\ NextFollowsListed /\ LoadedWhatWaits /\ InHandIsApproved
      /\ pc = "mark" => kept(cur)
      /\ \A a \in complete : kept(a)
  BY DEF NumberInv, PendingInv, KeptInv
<1> USE DEF mishaps
<1>2. ASSUME safeNonce' = safeNonce, performed \subseteq performed', staged \subseteq staged',
             approved \subseteq approved', refused \subseteq refused'
      PROVE  \A i : kept(i) => kept(i)'
  BY <1>2 DEF kept, waits, crowded, isPending
<1>3. ASSUME \A i \in Items : kept(i) => kept(i)', complete' = complete,
             pc' = "mark" => pc = "mark" /\ cur' = cur, InHandIsApproved'
      PROVE  KeptInv'
  <2>1. complete \subseteq Items /\ (pc = "mark" => cur \in Items)
    BY <1>1 DEF StageTypes, Items
  <2>2. pc' = "mark" => kept(cur)'
    <3>1. pc' = "mark" => kept(cur) /\ cur \in Items /\ cur' = cur
      BY <1>1, <1>3, <2>1
    <3> QED BY <1>3, <3>1 DEF kept, waits, crowded, isPending
  <2>3. \A a \in complete' : kept(a)'
    BY <1>1, <1>3, <2>1
  <2> QED BY <1>3, <2>2, <2>3 DEF KeptInv
<1>4. CASE sendApprovalTransaction
  <2>1. /\ UNCHANGED <<safeNonce, complete, performed, staged, newNonce, cur, refused>>
        /\ pc = "approve" /\ pc' = "save"
        /\ approved' = approved \cup {Tx(newNonce, cur)}
    BY <1>4 DEF sendApprovalTransaction, safe, service, local
  <2>2. InHandIsApproved'
    BY <1>1, <2>1 DEF InHandIsApproved, Tx
  <2> QED BY <1>2, <1>3, <2>1, <2>2
<1>5. CASE saveTransactionToApi
  <2>1. /\ UNCHANGED <<safeNonce, complete, performed, approved, newNonce, cur>>
        /\ pc = "save" /\ pc' = "mark" /\ staged' = staged \cup {Tx(newNonce, cur)}
        /\ refused' = refused \ {cur}
    BY <1>5 DEF saveTransactionToApi, safe, local
  <2> DEFINE p == Tx(newNonce, cur)
  <2>2. p \in approved /\ p.item = cur /\ p.nonce = newNonce
    BY <1>1, <2>1 DEF InHandIsApproved, Tx
  <2>3. InHandIsApproved'
    BY <1>1, <2>1, <2>2 DEF InHandIsApproved
  <2>4. kept(cur)'
    <3>1. CASE newNonce >= safeNonce
      BY <2>1, <2>2, <3>1 DEF kept, waits, isPending
    <3>2. CASE \E u \in staged : u.nonce = newNonce /\ u.item # cur
      BY <2>1, <2>2, <3>2 DEF kept, crowded
    <3> QED BY <1>1, <2>1, <3>1, <3>2 DEF InHandIsApproved
  <2>5. cur \notin complete
    BY <1>1, <2>1 DEF StageTypes
  <2>6. ASSUME NEW a \in complete PROVE kept(a)'
    <3>1. kept(a) /\ a # cur
      BY <1>1, <2>5, <2>6
    <3> QED BY <2>1, <3>1 DEF kept, waits, crowded, isPending
  <2> QED BY <2>1, <2>3, <2>4, <2>6 DEF KeptInv
<1>6. CASE postIsRefused
  <2>1. /\ UNCHANGED <<safeNonce, complete, performed, approved, staged, newNonce, cur>>
        /\ pc = "save" /\ pc' = "mark" /\ refused' = refused \cup {cur}
    BY <1>6 DEF postIsRefused, safe, service, local
  <2>2. InHandIsApproved'
    BY <1>1, <2>1 DEF InHandIsApproved
  <2>3. kept(cur)'
    BY <2>1 DEF kept
  <2>4. \A a \in complete' : kept(a)'
    BY <1>1, <1>2, <2>1
  <2> QED BY <2>2, <2>3, <2>4 DEF KeptInv
<1>7. CASE markComplete
  <2>1. /\ UNCHANGED <<safeNonce, performed, staged, approved, refused, cur>>
        /\ pc = "mark" /\ pc' = "loop" /\ complete' = complete \cup ({cur} \cap Actions)
    BY <1>7 DEF markComplete, safe, service
  <2>2. InHandIsApproved'
    BY <1>1, <2>1 DEF InHandIsApproved
  <2>3. ASSUME NEW a \in complete' PROVE kept(a)'
    <3>1. kept(a)
      BY <1>1, <2>1, <2>3
    <3> QED BY <1>2, <2>1, <3>1
  <2> QED BY <2>1, <2>2, <2>3 DEF KeptInv
<1>8. CASE otherSigner
  <2>1. /\ UNCHANGED <<safeNonce, complete, performed, approved, newNonce, cur, pc, refused>>
        /\ staged' = staged \cup {Tx(getNewTxNonce(staged), Other)}
        /\ pc \notin {"approve", "save"}
    BY <1>8 DEF otherSigner, safe, local
  <2>2. Tx(getNewTxNonce(staged), Other).item \notin Items
    BY OtherIsNoItem DEF Tx
  <2>3. InHandIsApproved'
    BY <1>1, <2>1, <2>2 DEF InHandIsApproved
  <2> QED BY <1>2, <1>3, <2>1, <2>3
<1>9. CASE execute
  <2>1. /\ UNCHANGED <<complete, staged, approved, newNonce, cur, pc, refused>>
        /\ safeNonce' = safeNonce + 1
    BY <1>9 DEF execute, service, local
  <2>2. PICK u \in visible :
          u.nonce = safeNonce /\ performed' = performed \cup ({u.item} \cap Items)
    BY <1>9 DEF execute
  <2>3. u \in staged
    BY <1>1, <2>2 DEF StageTypes
  <2>4. ASSUME NEW i \in Items, kept(i) PROVE kept(i)'
    <3>1. CASE waits(i)
      <4>1. PICK t \in staged \cap approved : t.item = i /\ isPending(t)
        BY <3>1 DEF waits
      <4>2. CASE t = u
        BY <2>2, <4>1, <4>2 DEF kept
      <4>3. CASE t # u /\ t.nonce = u.nonce
        BY <2>1, <2>3, <4>1, <4>3 DEF kept, crowded
      <4>4. CASE t.nonce # u.nonce
        <5>1. t.nonce >= safeNonce'
          BY <1>1, <2>1, <2>2, <4>1, <4>4 DEF isPending, StageTypes, Transactions
        <5> QED BY <2>1, <4>1, <5>1 DEF kept, waits, isPending
      <4> QED BY <4>2, <4>3, <4>4
    <3>2. CASE ~waits(i)
      BY <2>1, <2>2, <2>4, <3>2 DEF kept, crowded
    <3> QED BY <3>1, <3>2
  <2>5. ASSUME pc \in {"approve", "save"}, newNonce >= safeNonce, ~(newNonce >= safeNonce')
        PROVE  u.nonce = newNonce /\ u.item # cur
    <3>1. u.nonce = newNonce
      BY <1>1, <2>1, <2>2, <2>5 DEF StageTypes
    <3>2. isPending(u)
      BY <1>1, <2>2 DEF isPending, StageTypes
    <3> QED BY <1>1, <2>3, <2>5, <3>1, <3>2 DEF LoadedWhatWaits
  <2>6. InHandIsApproved'
    BY <1>1, <2>1, <2>3, <2>5 DEF InHandIsApproved
  <2> QED BY <1>3, <2>1, <2>4, <2>6
<1>10. ASSUME getLastTx \/ getLastTxFails PROVE KeptInv'
  <2>1. /\ UNCHANGED <<safeNonce, complete, performed, staged, approved, refused>>
        /\ pc' = "approve" /\ newNonce' \in {nextNonce, safeNonce}
    BY <1>10 DEF getLastTx, getLastTxFails, takeNonce, nextNonce, getNewTxNonce, safe, service
  <2>2. newNonce' >= safeNonce'
    BY <1>1, <2>1 DEF NextFollowsListed, StageTypes
  <2>3. InHandIsApproved'
    BY <1>1, <2>1, <2>2 DEF InHandIsApproved
  <2> QED BY <1>2, <1>3, <2>1, <2>3
<1>11. ASSUME start \/ getSafeTransactions \/ finish \/ stop \/ giveUp
              \/ \E i \in Items : skip(i) \/ confirm(i)
       PROVE  KeptInv'
  <2>1. /\ UNCHANGED <<safeNonce, complete, performed, staged, approved, refused>>
        /\ pc' \notin {"approve", "save", "mark"}
    BY <1>11 DEF start, getSafeTransactions, finish, stop, giveUp, skip, confirm,
                isTurnOf, safe, service, local
  <2>2. InHandIsApproved'
    BY <1>1, <2>1 DEF InHandIsApproved
  <2> QED BY <1>2, <1>3, <2>1, <2>2
<1>12. ASSUME index \/ (\E c \in Contracts : nominate(c)) \/ UNCHANGED ownerVars
       PROVE  KeptInv'
  <2>1. UNCHANGED <<safeNonce, complete, performed, staged, approved, newNonce, cur, pc, refused>>
    BY <1>12 DEF index, nominate, ownerVars, safe, service, local
  <2>2. InHandIsApproved'
    BY <1>1, <2>1 DEF InHandIsApproved
  <2> QED BY <1>2, <1>3, <2>1, <2>2
<1> QED BY <1>4, <1>5, <1>6, <1>7, <1>8, <1>9, <1>10, <1>11, <1>12 DEF OwnerNext, runStep

LEMMA KeptHolds == OwnerSpec => [](PendingInv /\ KeptInv)
<1>1. OwnerSpec => OwnerInit /\ [][OwnerNext]_ownerVars
  BY PTL DEF OwnerSpec
<1> QED BY <1>1, PendingInit, PendingStep, KeptInit, KeptStep, NumberHolds, PTL

\* owner.js: an entry that is marked complete in owner-actions.json has been
\* executed by the Safe, or waits for it with an approved hash, unless its post
\* was refused or its nonce is shared.
THEOREM CompletedStaysSafe == OwnerSpec => []CompletedIsNotLost
<1>1. KeptInv => CompletedIsNotLost
  BY DEF KeptInv, kept, CompletedIsNotLost, lost
<1> QED BY <1>1, KeptHolds, PTL

(* ------------------------------ the refinement ---------------------------- *)

\* What is in hand or staged was asked for: it is an entry of the file, or a
\* contract that has nominated the Safe.
askedFor(i) == i \in Items => i \in Actions \cup owned \cup nominated
AskedInv ==
  /\ \A t \in staged : askedFor(t.item)
  /\ pc \in {"nonce", "approve", "save", "mark"} => askedFor(cur)

LEMMA AskedStep ==
  ASSUME NumberInv, AskedInv, [OwnerNext]_ownerVars
  PROVE  AskedInv'
<1>1. StageTypes
  BY DEF NumberInv
<1> USE DEF AskedInv
<1>2. ASSUME UNCHANGED staged, owned \cup nominated \subseteq (owned \cup nominated)',
             pc' \in {"nonce", "approve", "save", "mark"} =>
               pc \in {"nonce", "approve", "save", "mark"} /\ cur' = cur
      PROVE  AskedInv'
  BY <1>2 DEF askedFor
<1>3. ASSUME NEW i \in Items, confirm(i) PROVE AskedInv'
  BY <1>3 DEF confirm, toAccept, askedFor, Items, safe, service
<1>4. CASE saveTransactionToApi
  BY <1>4 DEF saveTransactionToApi, askedFor, Tx, safe, local
<1>5. CASE otherSigner
  <2>1. Other \notin Items
    BY OtherIsNoItem
  <2> QED BY <1>5, <2>1 DEF otherSigner, askedFor, Tx, safe, local
<1>6. CASE execute
  <2>1. /\ UNCHANGED <<staged, cur, pc>>
        /\ \E t \in visible : /\ owned' = owned \cup ({t.item} \cap nominated)
                              /\ nominated' = nominated \ {t.item}
    BY <1>6 DEF execute, service, local
  <2> QED BY <1>2, <2>1
<1>7. ASSUME NEW c \in Contracts, nominate(c) PROVE AskedInv'
  <2>1. UNCHANGED <<staged, cur, pc, owned>> /\ nominated' = nominated \cup {c}
    BY <1>7 DEF nominate, service, local
  <2> QED BY <1>2, <2>1
<1>8. ASSUME getLastTx \/ getLastTxFails \/ sendApprovalTransaction \/ postIsRefused \/ index
             \/ UNCHANGED ownerVars
      PROVE  AskedInv'
  <2>1. /\ UNCHANGED <<staged, cur, owned, nominated>>
        /\ pc' = pc \/ pc \in {"nonce", "approve", "save"}
    BY <1>8 DEF getLastTx, getLastTxFails, takeNonce, sendApprovalTransaction, postIsRefused,
                index, ownerVars, safe, service, local
  <2> QED BY <1>2, <2>1
<1>9. ASSUME start \/ getSafeTransactions \/ markComplete \/ finish \/ stop \/ giveUp
             \/ \E i \in Items : skip(i)
      PROVE  AskedInv'
  <2>1. UNCHANGED <<staged, owned, nominated>> /\ pc' \in {"idle", "load", "loop"}
    BY <1>9 DEF start, getSafeTransactions, markComplete, finish, stop, giveUp, skip, isTurnOf,
                safe, service, local
  <2> QED BY <1>2, <2>1
<1> QED BY <1>3, <1>4, <1>5, <1>6, <1>7, <1>8, <1>9 DEF OwnerNext, runStep

\* What is lost stays lost: it is complete, so that no run posts it again, and
\* the Safe executes only what waits.
LEMMA LostStaysLost ==
  ASSUME NumberInv, KeptInv, [OwnerNext]_ownerVars
  PROVE  lost \subseteq lost' /\ lost' \subseteq complete' \ performed'
<1>1. StageTypes /\ InHandIsApproved
  BY DEF NumberInv, KeptInv
<1> SUFFICES ASSUME NEW a \in lost PROVE a \in lost'
  BY DEF lost
<1>2. /\ a \in complete \ performed /\ a \in Items
      /\ \A t \in staged \cap approved : t.item = a => ~isPending(t)
      /\ a \in refused \/ crowded(a)
  BY <1>1 DEF lost, waits, StageTypes, Items
<1>3. ASSUME complete \subseteq complete', a \notin performed', staged \subseteq staged',
             a \in refused => a \in refused', safeNonce' >= safeNonce, safeNonce' \in Nat,
             \A t \in (staged \cap approved)' : t.item = a => t \in staged \cap approved
      PROVE  a \in lost'
  <2>1. crowded(a) => crowded(a)'
    BY <1>3 DEF crowded
  <2>2. \A t \in (staged \cap approved)' : t.item = a => ~isPending(t)'
    BY <1>1, <1>2, <1>3 DEF isPending, StageTypes, Transactions
  <2> QED BY <1>2, <1>3, <2>1, <2>2 DEF lost, waits
<1> USE DEF mishaps
<1>4. CASE execute
  <2>1. UNCHANGED <<complete, staged, approved, refused>> /\ safeNonce' = safeNonce + 1
    BY <1>4 DEF execute, service
  <2>2. PICK u \in visible :
          u.nonce = safeNonce /\ performed' = performed \cup ({u.item} \cap Items)
    BY <1>4 DEF execute
  <2>3. u \in staged /\ isPending(u) /\ (u.item \in Items => u \in approved)
    BY <1>1, <2>2 DEF StageTypes, isPending, InHandIsApproved
  <2>4. u.item # a
    BY <1>2, <2>3
  <2> QED BY <1>1, <1>2, <1>3, <2>1, <2>2, <2>4 DEF StageTypes
<1>5. CASE sendApprovalTransaction
  <2>1. /\ UNCHANGED <<safeNonce, complete, performed, staged, refused>> /\ pc = "approve"
        /\ approved' = approved \cup {Tx(newNonce, cur)}
    BY <1>5 DEF sendApprovalTransaction, safe, service
  <2>2. Tx(newNonce, cur).item # a
    BY <1>1, <1>2, <2>1 DEF Tx, StageTypes
  <2> QED BY <1>1, <1>2, <1>3, <2>1, <2>2 DEF StageTypes
<1>6. CASE saveTransactionToApi
  <2>1. /\ UNCHANGED <<safeNonce, complete, performed, approved>> /\ pc = "save"
        /\ staged' = staged \cup {Tx(newNonce, cur)} /\ refused' = refused \ {cur}
    BY <1>6 DEF saveTransactionToApi, safe, local
  <2>2. cur # a /\ Tx(newNonce, cur).item # a
    BY <1>1, <1>2, <2>1 DEF Tx, StageTypes
  <2> QED BY <1>1, <1>2, <1>3, <2>1, <2>2 DEF StageTypes
<1>7. CASE otherSigner
  <2>1. /\ UNCHANGED <<safeNonce, complete, performed, approved, refused>>
        /\ staged' = staged \cup {Tx(getNewTxNonce(staged), Other)}
    BY <1>7 DEF otherSigner, safe
  <2>2. Tx(getNewTxNonce(staged), Other).item # a
    BY <1>2, OtherIsNoItem DEF Tx
  <2> QED BY <1>1, <1>2, <1>3, <2>1, <2>2 DEF StageTypes
<1>8. ASSUME postIsRefused \/ markComplete
      PROVE  a \in lost'
  <2>1. /\ UNCHANGED <<safeNonce, performed, staged, approved>>
        /\ complete \subseteq complete' /\ refused \subseteq refused'
    BY <1>8 DEF postIsRefused, markComplete, safe, service
  <2> QED BY <1>1, <1>2, <1>3, <2>1 DEF StageTypes
<1>9. ASSUME start \/ getSafeTransactions \/ getLastTx \/ getLastTxFails \/ finish \/ stop
             \/ giveUp \/ index \/ UNCHANGED ownerVars \/ (\E i \in Items : skip(i) \/ confirm(i))
             \/ \E c \in Contracts : nominate(c)
      PROVE  a \in lost'
  <2>1. UNCHANGED <<safeNonce, complete, performed, staged, approved, refused>>
    BY <1>9 DEF start, getSafeTransactions, getLastTx, getLastTxFails, takeNonce, finish, stop,
                giveUp, skip, confirm, index, nominate, ownerVars, safe, service
  <2> QED BY <1>1, <1>2, <1>3, <2>1 DEF StageTypes
<1> QED BY <1>4, <1>5, <1>6, <1>7, <1>8, <1>9 DEF OwnerNext, runStep

\* Every step of the command, of the service and of the Safe is one that
\* DeferredActions allows, or a stuttering one.
LEMMA StepIsPromised ==
  ASSUME NumberInv, KeptInv, AskedInv, [OwnerNext]_ownerVars
  PROVE  [Promise!Next]_(Promise!vars)
<1>1. StageTypes /\ InHandIsApproved
  BY DEF NumberInv, KeptInv
<1> DEFINE asked == Actions \cup owned \cup nominated
<1>2. lost \subseteq lost' /\ lost' \in SUBSET (asked' \ performed')
  BY LostStaysLost, StageTypesStep DEF NumberInv, StageTypes
<1>3. lost' = lost \cup lost'
  BY <1>2
<1>4. ASSUME UNCHANGED <<asked, performed>> PROVE Promise!Next
  <2>1. Promise!Lose
    BY <1>2, <1>3, <1>4 DEF Promise!Lose
  <2> QED BY <2>1 DEF Promise!Next
<1>5. CASE execute
  <2>1. PICK t \in visible : /\ t.nonce = safeNonce
                             /\ performed' = performed \cup ({t.item} \cap Items)
                             /\ owned' = owned \cup ({t.item} \cap nominated)
                             /\ nominated' = nominated \ {t.item}
    BY <1>5 DEF execute
  <2>2. UNCHANGED asked
    BY <2>1
  <2>3. CASE t.item \in Items \ performed
    <3>1. t.item \in asked
      BY <1>1, <2>3 DEF AskedInv, askedFor, StageTypes
    <3>2. t.item \notin lost
      BY <1>1, <2>1, <2>3 DEF StageTypes, InHandIsApproved, isPending, lost, waits
    <3>3. Promise!Perform(t.item)
      BY <1>2, <1>3, <2>1, <2>2, <2>3, <3>1, <3>2 DEF Promise!Perform
    <3> QED BY <2>3, <3>3 DEF Promise!Next
  <2>4. CASE t.item \notin Items \ performed
    BY <1>4, <2>1, <2>2, <2>4
  <2> QED BY <2>3, <2>4
<1>6. ASSUME NEW c \in Contracts, nominate(c) PROVE [Promise!Next]_(Promise!vars)
  <2>1. UNCHANGED <<safeNonce, staged, approved, complete, performed, refused>>
    BY <1>6 DEF nominate, safe, service, mishaps
  <2>2. lost' = lost
    BY <2>1 DEF lost, waits, crowded, isPending
  <2>3. Promise!Ask(c)
    BY <1>6, <2>2 DEF nominate, Promise!Ask
  <2> QED BY <2>3 DEF Promise!Next, Items
<1>7. ASSUME runStep \/ stop \/ index \/ otherSigner \/ UNCHANGED ownerVars
      PROVE  UNCHANGED <<asked, performed>>
  <2>1. CASE runStep
    BY <2>1 DEF runStep, start, getSafeTransactions, getLastTx, getLastTxFails, takeNonce, giveUp,
                sendApprovalTransaction, saveTransactionToApi, postIsRefused, markComplete,
                finish, skip, confirm, safe
  <2>2. CASE stop \/ index \/ otherSigner \/ UNCHANGED ownerVars
    BY <2>2 DEF stop, index, otherSigner, ownerVars, safe
  <2> QED BY <1>7, <2>1, <2>2
<1> QED BY <1>4, <1>5, <1>6, <1>7 DEF OwnerNext

\* The owner command performs only what was deferred or has nominated the Safe,
\* and what it loses stays lost: its specification implements that of
\* DeferredActions, but for the fairness.
THEOREM OwnerKeepsThePromise ==
  OwnerSpec => Promise!Init /\ [][Promise!Next]_(Promise!vars)
<1>1. OwnerSpec => OwnerInit /\ [][OwnerNext]_ownerVars
  BY PTL DEF OwnerSpec
<1>2. OwnerInit => Promise!Init
  BY DEF OwnerInit, Promise!Init, Items, lost
<1>3. OwnerInit => AskedInv
  BY DEF OwnerInit, AskedInv
<1>4. OwnerSpec => []AskedInv
  BY <1>1, <1>3, AskedStep, NumberHolds, PTL
<1> QED BY <1>1, <1>2, <1>4, StepIsPromised, NumberHolds, KeptHolds, PTL

(* -------------------------- how many are staged --------------------------- *)

\* The nonces are used without gaps.
NonceBounds ==
  /\ IsFiniteSet(staged)
  /\ safeNonce <= Cardinality(staged) /\ newNonce <= Cardinality(staged)
  /\ \A t \in staged : t.nonce < Cardinality(staged)
  /\ \A t \in approved : t.nonce \in 0 .. Cardinality(staged)

OtherTypes ==
  /\ owned \subseteq Contracts /\ nominated \subseteq Contracts
  /\ \A t \in approved : t.item \in Items \cup {Other}
  /\ cur \in Items \cup {Other} /\ snapshot \subseteq staged /\ refused \subseteq Items
  /\ lastNonce \in Nat \cup {NoNonce}
  /\ others \in 0 .. MaxOthers /\ stops \in 0 .. MaxStops /\ faults \in 0 .. MaxFaults

\* The nonce that is used next is at most the number of transactions.
LEMMA NextNonceBound ==
  ASSUME StageTypes, NextFollowsListed, NonceBounds
  PROVE  nextNonce \in Nat /\ nextNonce <= Cardinality(staged) /\ Cardinality(staged) \in Nat
BY FS_CardinalityType DEF StageTypes, NextFollowsListed, NonceBounds, Transactions

\* One transaction more, on a nonce that leaves no gap.
LEMMA OneMoreStaged ==
  ASSUME StageTypes, NonceBounds, NEW t \in Transactions, t.nonce <= Cardinality(staged),
         staged' = staged \cup {t}, UNCHANGED <<safeNonce, newNonce, approved>>
  PROVE  NonceBounds'
<1>1. IsFiniteSet(staged) /\ Cardinality(staged) \in Nat /\ t.nonce \in Nat
  BY FS_CardinalityType DEF NonceBounds, Transactions
<1>2. CASE t \in staged
  <2>1. staged' = staged
    BY <1>2
  <2> QED BY <2>1 DEF NonceBounds
<1>3. CASE t \notin staged
  <2>1. IsFiniteSet(staged') /\ Cardinality(staged') = Cardinality(staged) + 1
    BY <1>1, <1>3, FS_AddElement
  <2>2. \A u \in staged' : u.nonce < Cardinality(staged')
    BY <1>1, <2>1 DEF NonceBounds, StageTypes, Transactions
  <2>3. \A u \in approved' : u.nonce \in 0 .. Cardinality(staged')
    BY <1>1, <2>1 DEF NonceBounds
  <2>4. safeNonce' <= Cardinality(staged') /\ newNonce' <= Cardinality(staged')
    BY <1>1, <2>1 DEF NonceBounds, StageTypes
  <2> QED BY <2>1, <2>2, <2>3, <2>4 DEF NonceBounds
<1> QED BY <1>2, <1>3

LEMMA NonceBoundsStep ==
  ASSUME NumberInv, NonceBounds, [OwnerNext]_ownerVars
  PROVE  NonceBounds'
<1>1. StageTypes /\ NextFollowsListed
  BY DEF NumberInv
<1>2. nextNonce \in Nat /\ nextNonce <= Cardinality(staged) /\ Cardinality(staged) \in Nat
  BY <1>1, NextNonceBound
<1>3. ASSUME UNCHANGED <<staged, approved>>, newNonce' <= Cardinality(staged),
             safeNonce' <= Cardinality(staged)
      PROVE  NonceBounds'
  BY <1>3 DEF NonceBounds
<1>4. CASE saveTransactionToApi
  <2>1. /\ UNCHANGED <<safeNonce, newNonce, approved>> /\ pc = "save"
        /\ staged' = staged \cup {Tx(newNonce, cur)}
    BY <1>4 DEF saveTransactionToApi, safe, local
  <2>2. Tx(newNonce, cur) \in Transactions /\ Tx(newNonce, cur).nonce <= Cardinality(staged)
    BY <1>1, <2>1 DEF Tx, Transactions, StageTypes, NonceBounds
  <2> QED BY <1>1, <2>1, <2>2, OneMoreStaged
<1>5. CASE otherSigner
  <2>1. /\ UNCHANGED <<safeNonce, newNonce, approved>>
        /\ staged' = staged \cup {Tx(nextNonce, Other)}
    BY <1>5 DEF otherSigner, safe, local, nextNonce
  <2>2. Tx(nextNonce, Other) \in Transactions /\ Tx(nextNonce, Other).nonce <= Cardinality(staged)
    BY <1>2 DEF Tx, Transactions
  <2> QED BY <1>1, <2>1, <2>2, OneMoreStaged
<1>6. CASE sendApprovalTransaction
  <2>1. UNCHANGED <<safeNonce, staged, newNonce>> /\ approved' = approved \cup {Tx(newNonce, cur)}
    BY <1>6 DEF sendApprovalTransaction, safe, service, local
  <2>2. Tx(newNonce, cur).nonce \in 0 .. Cardinality(staged)
    BY <1>1, <1>2 DEF Tx, StageTypes, NonceBounds
  <2> QED BY <2>1, <2>2 DEF NonceBounds
<1>7. CASE execute
  <2>1. /\ UNCHANGED <<staged, approved, newNonce>>
        /\ safeNonce' = safeNonce + 1 /\ \E t \in visible : t.nonce = safeNonce
    BY <1>7 DEF execute, service, local
  <2>2. safeNonce < Cardinality(staged)
    BY <1>1, <2>1 DEF NonceBounds, StageTypes
  <2>3. safeNonce' <= Cardinality(staged)
    BY <1>1, <1>2, <2>1, <2>2 DEF StageTypes
  <2> QED BY <1>3, <2>1, <2>3 DEF NonceBounds
<1>8. ASSUME getLastTx \/ getLastTxFails PROVE NonceBounds'
  <2>1. UNCHANGED <<safeNonce, staged, approved>> /\ newNonce' \in {nextNonce, safeNonce}
    BY <1>8 DEF getLastTx, getLastTxFails, takeNonce, nextNonce, getNewTxNonce, safe, service
  <2> QED BY <1>2, <1>3, <2>1 DEF NonceBounds
<1>9. ASSUME start \/ getSafeTransactions \/ giveUp \/ postIsRefused \/ markComplete \/ finish
             \/ stop \/ index \/ UNCHANGED ownerVars \/ (\E i \in Items : skip(i) \/ confirm(i))
             \/ \E c \in Contracts : nominate(c)
      PROVE  NonceBounds'
  <2>1. UNCHANGED <<safeNonce, staged, approved, newNonce>>
    BY <1>9 DEF start, getSafeTransactions, giveUp, postIsRefused, markComplete, finish, stop,
                index, ownerVars, skip, confirm, nominate, safe, service, local
  <2> QED BY <1>3, <2>1 DEF NonceBounds
<1> QED BY <1>4, <1>5, <1>6, <1>7, <1>8, <1>9 DEF OwnerNext, runStep

LEMMA OtherTypesStep ==
  ASSUME NumberInv, OtherTypes, [OwnerNext]_ownerVars
  PROVE  OtherTypes'
<1>1. StageTypes
  BY DEF NumberInv
<1> USE OwnerAssumption DEF OtherTypes, bounds, mishaps
<1>2. CASE sendApprovalTransaction
  <2>1. /\ UNCHANGED <<owned, nominated, cur, snapshot, staged, lastNonce, bounds, refused>>
        /\ approved' = approved \cup {Tx(newNonce, cur)}
    BY <1>2 DEF sendApprovalTransaction, safe, service, local
  <2>2. Tx(newNonce, cur).item = cur
    BY DEF Tx
  <2> QED BY <2>1, <2>2
<1>3. ASSUME start \/ getSafeTransactions \/ getLastTx \/ getLastTxFails \/ giveUp \/ markComplete
             \/ finish \/ stop \/ \E i \in Items : skip(i) \/ confirm(i)
      PROVE  OtherTypes'
  <2>1. UNCHANGED <<owned, nominated, approved, staged, refused, others>>
    BY <1>3 DEF start, getSafeTransactions, getLastTx, getLastTxFails, takeNonce, giveUp,
                markComplete, finish, stop, skip, confirm, safe, service
  <2>2. cur' \in Items \cup {Other} /\ lastNonce' \in Nat \cup {NoNonce}
    BY <1>1, <1>3 DEF start, getSafeTransactions, getLastTx, getLastTxFails, takeNonce, giveUp,
                      markComplete, finish, stop, skip, confirm, local, StageTypes
  <2>3. snapshot' \subseteq staged
    BY <1>1, <1>3 DEF start, getSafeTransactions, getLastTx, getLastTxFails, takeNonce, giveUp,
                      markComplete, finish, stop, skip, confirm, local, StageTypes
  <2>4. stops' \in 0 .. MaxStops /\ faults' \in 0 .. MaxFaults
    BY <1>3 DEF start, getSafeTransactions, getLastTx, getLastTxFails, takeNonce, giveUp,
                markComplete, finish, stop, skip, confirm
  <2> QED BY <2>1, <2>2, <2>3, <2>4
<1>4. ASSUME saveTransactionToApi \/ postIsRefused
      PROVE  OtherTypes'
  <2>1. /\ UNCHANGED <<owned, nominated, approved, cur, snapshot, lastNonce, others, stops>>
        /\ staged \subseteq staged' /\ cur \in Items /\ refused' \subseteq refused \cup {cur}
    BY <1>1, <1>4 DEF saveTransactionToApi, postIsRefused, safe, service, local, StageTypes
  <2>2. faults' \in 0 .. MaxFaults
    BY <1>4 DEF saveTransactionToApi, postIsRefused
  <2> QED BY <2>1, <2>2
<1>5. ASSUME otherSigner \/ index \/ UNCHANGED ownerVars
      PROVE  OtherTypes'
  <2>1. /\ UNCHANGED <<owned, nominated, approved, cur, snapshot, lastNonce, stops, faults, refused>>
        /\ staged \subseteq staged'
    BY <1>5 DEF otherSigner, index, ownerVars, safe, service, local
  <2>2. others' \in 0 .. MaxOthers
    BY <1>5 DEF otherSigner, index, ownerVars
  <2> QED BY <2>1, <2>2
<1>6. CASE execute
  <2>1. UNCHANGED <<approved, cur, snapshot, staged, lastNonce, bounds, refused>>
    BY <1>6 DEF execute, service, local
  <2>2. owned' \subseteq Contracts /\ nominated' \subseteq Contracts
    BY <1>6 DEF execute
  <2> QED BY <2>1, <2>2
<1>7. ASSUME NEW c \in Contracts, nominate(c) PROVE OtherTypes'
  BY <1>7 DEF nominate, service, local
<1> QED BY <1>2, <1>3, <1>4, <1>5, <1>6, <1>7 DEF OwnerNext, runStep

LEMMA CountInit == OwnerInit => NonceBounds /\ OtherTypes
<1>1. IsFiniteSet({}) /\ Cardinality({}) = 0
  BY FS_EmptySet
<1>2. OwnerInit => NonceBounds
  BY <1>1 DEF OwnerInit, NonceBounds
<1>3. OwnerInit => OtherTypes
  BY OwnerAssumption DEF OwnerInit, OtherTypes
<1> QED BY <1>2, <1>3

\* owner.js, safe-utils.js: the command, the other signers and the Safe use the
\* nonces without a gap, whatever fails; every other variable has its type.
THEOREM OwnerTypeCorrect == OwnerSpec => []OwnerTypeOK
<1>1. OwnerSpec => OwnerInit /\ [][OwnerNext]_ownerVars
  BY PTL DEF OwnerSpec
<1>2. OwnerSpec => [](NonceBounds /\ OtherTypes)
  BY <1>1, CountInit, NonceBoundsStep, OtherTypesStep, NumberHolds, PTL
<1>3. ASSUME NumberInv, PendingInv, NonceBounds, OtherTypes PROVE OwnerTypeOK
  <2>1. Cardinality(staged) \in Nat
    BY <1>3, FS_CardinalityType DEF NonceBounds
  <2>2. /\ safeNonce \in 0 .. Cardinality(staged) /\ newNonce \in 0 .. Cardinality(staged)
        /\ \A t \in staged : t.nonce \in 0 .. (Cardinality(staged) - 1)
    BY <1>3, <2>1 DEF NumberInv, StageTypes, Transactions, NonceBounds
  <2>3. \A t \in staged \cup approved : t.item \in Items \cup {Other}
    BY <1>3 DEF NumberInv, StageTypes, Transactions, OtherTypes
  <2> QED BY <1>3, <2>2, <2>3
          DEF NumberInv, StageTypes, Steps, PendingInv, LoadedWhatWaits, NonceBounds, OtherTypes,
              OwnerTypeOK
<1> QED BY <1>2, <1>3, KeptHolds, NumberHolds, PTL
==============================================================================
