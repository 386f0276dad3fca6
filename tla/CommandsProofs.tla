---------------------------- MODULE CommandsProofs ----------------------------
(***************************************************************************)
(* The commands that change a live network.  Between two commands the      *)
(* synths are whole but those whose own replacement was disturbed, and a   *)
(* synth that the files forget is removed from the Issuer or about to be:  *)
(* for any number of synths, users and commands, wherever they stop and    *)
(* whatever users issue and burn meanwhile.  And a migration of the binary *)
(* option markets that completes leaves none of them behind: for any       *)
(* number of markets that fits its two pages, as long as nobody creates    *)
(* one meanwhile.                                                          *)
(***************************************************************************)
EXTENDS SynthCommands, MarketMigration, SumProofs, SequenceTheorems

------------------------------------------------------------------------------
(* The inductive invariant. *)

SynthTypes ==
  /\ holders \in [Keys -> SUBSET Users]
  /\ supply \in [Keys -> [Versions -> Nat]]
  /\ targets \in [Keys -> 0 .. MaxCommands + 1]
  /\ issuerHas \in [Keys -> 0 .. MaxCommands + 1]
  /\ tokenOf \in [Keys -> 0 .. MaxCommands + 1]
  /\ proxyTo \in [Keys -> 0 .. MaxCommands + 1]
  /\ totals \in [Keys -> Nat]
  /\ deferred \subseteq Keys
  /\ commands \in 0 .. MaxCommands
  /\ addresses \subseteq Users /\ left \subseteq Users
  /\ cmd # "none" => todo \in Lists
  /\ \A k \in Keys : targets[k] <= commands + 1

\* A synth of deployment.json has the supply of its holders, its token state and
\* proxy, and the Issuer has no other instance of it.
Sound(k) ==
  targets[k] # 0 =>
    /\ issuerHas[k] \in {0, targets[k]}
    /\ tokenOf[k] = targets[k] /\ proxyTo[k] = targets[k]
    /\ supply[k][targets[k]] = Cardinality(holders[k])

\* All synths are sound but the one that is being replaced and those whose
\* replacement was disturbed.
BeingReplaced(k) == cmd = "replace" /\ k = key /\ place # 1
OthersAreSound == \A k \in Keys \ disturbed : ~BeingReplaced(k) => Sound(k)

\* What was read of the synths in the list is true until their new instances have it.
ListIsRead ==
  \A i \in DOMAIN todo :
    /\ targets[todo[i]] # 0
    /\ i # 1 => targets[todo[i]] <= commands
    /\ todo[i] \notin disturbed /\ (i # 1 \/ place <= 3) =>
         totals[todo[i]] = Cardinality(holders[todo[i]])

\* What each step of a replacement that nothing disturbs has reached.
InOrder ==
  /\ place = 2 => supply[key][old] = 0 /\ issuerHas[key] \in {0, old}
  /\ place \in {3, 4} => issuerHas[key] = 0
  /\ place >= 4 => supply[key][old] = Cardinality(holders[key])
  /\ place \in {5, 6} => issuerHas[key] \in {0, old}
  /\ place = 6 => tokenOf[key] = old

Replacement ==
  cmd = "replace" =>
    /\ ListIsRead
    /\ place \in 1 .. 6
    /\ place <= 3 => targets[key] <= commands
    /\ place >= 4 => created = old
    /\ key \notin disturbed => InOrder

\* Batches are burnt of a synth that deployment.json has.
Purging == cmd = "purge" /\ place = 2 => targets[key] # 0

WholeInv == SynthTypes /\ OthersAreSound /\ Replacement /\ Purging

\* The instances of a synth whose removal is left to the owner have no supply, nor
\* will a new one have any; and the files forget a synth once the Issuer has
\* removed it or the owner will.
RemovalInv ==
  /\ \A k \in deferred :
       /\ issuerHas[k] # 0 => supply[k][issuerHas[k]] = 0
       /\ targets[k] # 0 => supply[k][targets[k]] = 0
       /\ cmd = "replace" /\ (\E i \in DOMAIN todo : todo[i] = k) => totals[k] = 0
  /\ cmd = "remove" /\ place \in {2, 3} => issuerHas[key] = 0 \/ key \in deferred
  /\ ForgottenSynthsAreRemoved
------------------------------------------------------------------------------
(* Lists of synths, and their holders. *)

\* A command is given one synth or two different ones.
LEMMA ListFacts ==
  ASSUME NEW q \in Lists
  PROVE  /\ Head(q) = q[1] /\ Head(q) \in Keys /\ 1 \in DOMAIN q
         /\ \A i \in DOMAIN q : q[i] \in Keys
         /\ Len(q) # 1 => /\ Tail(q) \in Lists
                          /\ DOMAIN Tail(q) = {1} /\ 2 \in DOMAIN q
                          /\ Head(Tail(q)) = q[2] /\ Tail(q)[1] = q[2] /\ q[2] # q[1]
         /\ \A i \in DOMAIN q : i # 1 => i = 2 /\ q[i] # q[1] /\ Len(q) # 1
<1>1. CASE \E k \in Keys : q = <<k>>
  BY <1>1
<1>2. CASE q \in Keys \X Keys /\ q[1] # q[2]
  <2>1. PICK a \in Keys, b \in Keys : q = <<a, b>>
    BY <1>2
  <2>2. a # b /\ Len(q) = 2 /\ DOMAIN q = {1, 2} /\ q[1] = a /\ q[2] = b
    BY <1>2, <2>1
  <2>3. Head(q) = a /\ Tail(q) = <<b>>
    BY <2>1
  <2>4. <<b>> \in Lists
    BY DEF Lists
  <2>5. DOMAIN <<b>> = {1} /\ Head(<<b>>) = b /\ <<b>>[1] = b
    OBVIOUS
  <2> QED BY <2>2, <2>3, <2>4, <2>5
<1> QED BY <1>1, <1>2 DEF Lists

\* The holders of a synth are counted by naturals; burning those of a batch
\* takes as many from their number.
LEMMA HoldersCount ==
  ASSUME NEW H \in SUBSET Users
  PROVE  /\ Cardinality(H) \in Nat
         /\ Cardinality(H) = 0 <=> H = {}
         /\ \A B \in SUBSET Users :
              Cardinality(B \cap H) \in Nat
              /\ Cardinality(H \ B) = Cardinality(H) - Cardinality(B \cap H)
         /\ \A u \in Users : /\ u \in H => Cardinality(H \ {u}) = Cardinality(H) - 1
                             /\ u \notin H => Cardinality(H \cup {u}) = Cardinality(H) + 1
<1>1. IsFiniteSet(H)
  BY SynthAssumption, FS_Subset
<1>2. \A B \in SUBSET Users :
        Cardinality(B \cap H) \in Nat
        /\ Cardinality(H \ B) = Cardinality(H) - Cardinality(B \cap H)
  <2> TAKE B \in SUBSET Users
  <2>1. H \cap B = B \cap H /\ IsFiniteSet(B \cap H)
    BY <1>1, FS_Intersection
  <2> QED BY <1>1, <2>1, FS_Difference, FS_CardinalityType
<1> QED BY <1>1, <1>2, FS_CardinalityType, FS_EmptySet, FS_AddElement, FS_RemoveElement
------------------------------------------------------------------------------
(* The first state and the steps that change no synth. *)

LEMMA WholeInit == SynthInit => WholeInv
<1> SUFFICES ASSUME SynthInit PROVE WholeInv
  OBVIOUS
<1>1. \A k \in Keys : Cardinality(holders[k]) \in Nat
  BY HoldersCount DEF SynthInit
<1>2. SynthTypes
  BY <1>1, SynthAssumption DEF SynthInit, SynthTypes, Versions
<1>3. \A k \in Keys : Sound(k)
  BY SynthAssumption DEF SynthInit, Sound, Versions
<1> QED BY <1>2, <1>3 DEF SynthInit, WholeInv, OthersAreSound, Replacement, Purging

\* Where no replacement runs every synth is sound that was not disturbed.
LEMMA AllSound == WholeInv /\ cmd # "replace" => \A k \in Keys \ disturbed : Sound(k)
BY DEF WholeInv, OthersAreSound, BeingReplaced

\* A command begins on a list of synths.
LEMMA BeginTypes ==
  ASSUME WholeInv, NEW c \in {"replace", "remove"}, begin(c)
  PROVE  /\ todo' \in Lists /\ commands' \in 0 .. MaxCommands
         /\ commands' = commands + 1 /\ addresses' = {} /\ left' = {}
         /\ cmd = "none" /\ cmd' = c /\ place' = 1
BY SynthAssumption DEF begin, WholeInv, SynthTypes

LEMMA ReplaceBegins == WholeInv /\ replaceSynths => WholeInv'
<1> SUFFICES ASSUME WholeInv, replaceSynths PROVE WholeInv'
  OBVIOUS
<1> USE DEF synthChain, synthFiles, operator, setting
<1>1. /\ todo' \in Lists /\ commands' \in 0 .. MaxCommands
      /\ commands' = commands + 1 /\ addresses' = {} /\ left' = {}
      /\ cmd = "none" /\ cmd' = "replace" /\ place' = 1
  BY BeginTypes DEF replaceSynths
<1>2. \A k \in Keys \ disturbed : Sound(k)
  BY <1>1, AllSound
<1>3. \A k \in Keys : targets[k] # 0 => targets[k] \in Versions
  BY SynthAssumption DEF WholeInv, SynthTypes, Versions
<1>4. SynthTypes'
  <2>1. totals' \in [Keys -> Nat]
    BY <1>3 DEF replaceSynths, WholeInv, SynthTypes
  <2> QED BY <1>1, <2>1 DEF replaceSynths, WholeInv, SynthTypes
<1>5. OthersAreSound'
  BY <1>2 DEF OthersAreSound, Sound, replaceSynths
<1>6. Replacement'
  <2>1. \A i \in DOMAIN todo' : todo'[i] \in Keys
    BY <1>1, ListFacts
  <2>2. \A i \in DOMAIN todo' :
          /\ targets[todo'[i]] # 0
          /\ todo'[i] \notin disturbed => totals'[todo'[i]] = Cardinality(holders[todo'[i]])
    BY <1>2, <2>1 DEF replaceSynths, Sound
  <2>3. \A k \in Keys : targets[k] <= commands'
    BY <1>1 DEF WholeInv, SynthTypes
  <2>4. Head(todo') \in Keys
    BY <1>1, ListFacts
  <2>5. ListIsRead'
    BY <2>1, <2>2, <2>3 DEF ListIsRead, replaceSynths
  <2> QED BY <1>1, <2>3, <2>4, <2>5 DEF Replacement, InOrder, replaceSynths, key
<1> QED BY <1>1, <1>4, <1>5, <1>6 DEF WholeInv, Purging

LEMMA RemoveBegins == WholeInv /\ removeSynths => WholeInv'
<1> SUFFICES ASSUME WholeInv, removeSynths PROVE WholeInv'
  OBVIOUS
<1> USE DEF synthChain, synthFiles, operator, setting
<1>1. /\ todo' \in Lists /\ commands' \in 0 .. MaxCommands
      /\ commands' = commands + 1 /\ addresses' = {} /\ left' = {}
      /\ cmd = "none" /\ cmd' = "remove" /\ place' = 1
  BY BeginTypes DEF removeSynths
<1>2. SynthTypes'
  BY <1>1 DEF removeSynths, WholeInv, SynthTypes
<1>3. OthersAreSound'
  BY <1>1, AllSound DEF OthersAreSound, Sound, removeSynths
<1> QED BY <1>1, <1>2, <1>3 DEF WholeInv, Replacement, Purging

LEMMA PurgeBegins == WholeInv /\ purgeSynths => WholeInv'
<1> SUFFICES ASSUME WholeInv, purgeSynths PROVE WholeInv'
  OBVIOUS
<1> USE DEF synthChain, synthFiles, operator, setting
<1>1. /\ cmd = "none" /\ cmd' = "purge" /\ place' = 1 /\ commands' \in 0 .. MaxCommands
      /\ commands' = commands + 1 /\ todo' \in Lists
      /\ addresses' \subseteq Users /\ left' = {}
  BY SynthAssumption DEF purgeSynths, WholeInv, SynthTypes
<1>2. SynthTypes'
  BY <1>1 DEF purgeSynths, WholeInv, SynthTypes
<1>3. OthersAreSound'
  BY <1>1, AllSound DEF OthersAreSound, Sound, purgeSynths
<1> QED BY <1>1, <1>2, <1>3 DEF WholeInv, Replacement, Purging

\* A command ends: refused, or interrupted, which disturbs what is replaced.
LEMMA CommandEnds ==
  ASSUME WholeInv, refuse \/ interrupt
  PROVE  WholeInv'
<1> USE DEF synthChain, synthFiles, operator, setting
<1>1. /\ cmd' = "none" /\ totals' = [k \in Keys |-> 0] /\ addresses' = {} /\ left' = {}
      /\ UNCHANGED <<holders, supply, issuerHas, tokenOf, proxyTo, targets, deferred, commands>>
  BY DEF refuse, interrupt, endCommand
<1>2. /\ disturbed \subseteq disturbed'
      /\ cmd = "replace" /\ place # 1 => key \in disturbed'
  BY DEF refuse, interrupt
<1>3. SynthTypes'
  BY <1>1 DEF WholeInv, SynthTypes
<1>4. OthersAreSound'
  BY <1>1, <1>2 DEF WholeInv, OthersAreSound, BeingReplaced, Sound
<1> QED BY <1>1, <1>3, <1>4 DEF WholeInv, Replacement, Purging
------------------------------------------------------------------------------
(* The steps of a replacement. *)

\* The synth in hand, the version that deployment.json has of it, and the synth
\* that follows.
LEMMA InHand ==
  ASSUME WholeInv, cmd # "none"
  PROVE  /\ key \in Keys /\ key = todo[1] /\ 1 \in DOMAIN todo /\ todo \in Lists
         /\ old \in 0 .. MaxCommands + 1
         /\ \A i \in DOMAIN todo : todo[i] \in Keys /\ (i # 1 => todo[i] # key)
         /\ cmd = "replace" => old # 0 /\ old \in Versions
<1>1. /\ key \in Keys /\ key = todo[1] /\ 1 \in DOMAIN todo /\ todo \in Lists
      /\ \A i \in DOMAIN todo : todo[i] \in Keys /\ (i # 1 => todo[i] # key)
  BY ListFacts DEF WholeInv, SynthTypes, key
<1>2. old \in 0 .. MaxCommands + 1
  BY <1>1 DEF WholeInv, SynthTypes, old
<1>3. cmd = "replace" => old # 0
  BY <1>1 DEF WholeInv, Replacement, ListIsRead, old
<1> QED BY <1>1, <1>2, <1>3, SynthAssumption DEF Versions

\* What the steps of the same synth have in common: nobody else is replaced, and
\* what was read of the synths in the list stays true.
LEMMA SameKey ==
  ASSUME WholeInv, cmd = "replace", cmd' = cmd, todo' = todo, totals' = totals,
         holders' = holders, commands' = commands, disturbed \subseteq disturbed',
         place' \in 2 .. 6, place <= place',
         \A k \in Keys \ {key} :
           /\ targets'[k] = targets[k] /\ issuerHas'[k] = issuerHas[k]
           /\ tokenOf'[k] = tokenOf[k] /\ proxyTo'[k] = proxyTo[k]
           /\ supply'[k] = supply[k],
         targets'[key] # 0
  PROVE  OthersAreSound' /\ Purging' /\ key' = key /\ ListIsRead'
<1>1. key' = key
  BY DEF key
<1>2. OthersAreSound'
  <2> SUFFICES ASSUME NEW k \in Keys \ disturbed', ~BeingReplaced(k)' PROVE Sound(k)'
    BY DEF OthersAreSound
  <2>1. k # key /\ k \notin disturbed
    BY <1>1 DEF BeingReplaced
  <2>2. Sound(k)
    BY <2>1 DEF WholeInv, OthersAreSound, BeingReplaced
  <2> QED BY <2>1, <2>2 DEF Sound
<1>3. ListIsRead'
  <2> SUFFICES ASSUME NEW i \in DOMAIN todo
               PROVE  /\ targets'[todo[i]] # 0
                      /\ i # 1 => targets'[todo[i]] <= commands
                      /\ todo[i] \notin disturbed' /\ (i # 1 \/ place' <= 3) =>
                           totals[todo[i]] = Cardinality(holders[todo[i]])
    BY DEF ListIsRead
  <2>1. todo[i] \in Keys /\ (i # 1 => todo[i] # key) /\ todo[1] = key
    BY InHand
  <2>2. /\ targets[todo[i]] # 0
        /\ i # 1 => targets[todo[i]] <= commands
        /\ todo[i] \notin disturbed /\ (i # 1 \/ place <= 3) =>
             totals[todo[i]] = Cardinality(holders[todo[i]])
    BY DEF WholeInv, Replacement, ListIsRead
  <2>3. place' <= 3 => place <= 3
    BY DEF WholeInv, Replacement
  <2>4. CASE i # 1
    BY <2>1, <2>2, <2>4
  <2>5. CASE i = 1
    BY <2>1, <2>2, <2>3, <2>5
  <2> QED BY <2>4, <2>5
<1> QED BY <1>1, <1>2, <1>3 DEF Purging

LEMMA SupplyReset == WholeInv /\ setTotalSupply => WholeInv'
<1> SUFFICES ASSUME WholeInv, setTotalSupply PROVE WholeInv'
  OBVIOUS
<1> USE DEF synthChain, synthFiles, operator, setting, purged
<1>1. /\ cmd = "replace" /\ place = 1 /\ place' = 2 /\ cmd' = cmd
      /\ UNCHANGED <<holders, issuerHas, tokenOf, proxyTo, targets, deferred, todo, totals,
                     addresses, left, commands, disturbed>>
      /\ supply' = [supply EXCEPT ![key][old] = 0]
  BY DEF setTotalSupply, moveTo
<1>2. key \in Keys /\ old \in Versions /\ old # 0
  BY <1>1, InHand
<1>3. /\ supply' \in [Keys -> [Versions -> Nat]] /\ supply'[key][old] = 0
      /\ \A k \in Keys \ {key} : supply'[k] = supply[k]
  BY <1>1, <1>2 DEF WholeInv, SynthTypes
<1>4. SynthTypes'
  BY <1>1, <1>3 DEF WholeInv, SynthTypes
<1>5. OthersAreSound' /\ Purging' /\ key' = key /\ ListIsRead'
  BY <1>1, <1>2, <1>3, SameKey DEF old
<1>6. key \notin disturbed => Sound(key)
  BY <1>1, <1>2 DEF WholeInv, OthersAreSound, BeingReplaced
<1>7. key' \notin disturbed' => InOrder'
  BY <1>1, <1>2, <1>3, <1>5, <1>6 DEF Sound, old, InOrder
<1>8. Replacement'
  BY <1>1, <1>5, <1>7 DEF WholeInv, Replacement
<1> QED BY <1>4, <1>5, <1>8 DEF WholeInv

\* A step of a synth whose replacement was disturbed may leave it as it is and go on,
\* or end the command.
LEMMA DisturbedGoesOn ==
  ASSUME WholeInv, cmd = "replace", key \in disturbed', disturbed \subseteq disturbed',
         UNCHANGED <<holders, supply, issuerHas, tokenOf, proxyTo, targets, deferred, todo,
                     totals, created, addresses, left, commands>>,
         \/ cmd' = cmd /\ place' = place + 1 /\ place \in {1, 2, 4, 5}
         \/ cmd' = "none"
  PROVE  WholeInv'
<1>1. SynthTypes'
  BY DEF WholeInv, SynthTypes
<1>2. CASE cmd' = cmd /\ place' = place + 1 /\ place \in {1, 2, 4, 5}
  <2>1. place' \in 2 .. 6 /\ place <= place' /\ (place' <= 3 => place <= 3)
        /\ (place' >= 4 => place >= 4)
    BY <1>2
  <2>2. targets[key] # 0 /\ old' = old
    BY InHand DEF old, key
  <2>3. OthersAreSound' /\ Purging' /\ key' = key /\ ListIsRead'
    BY <1>2, <2>1, <2>2, SameKey
  <2>4. Replacement'
    BY <1>2, <2>1, <2>2, <2>3 DEF WholeInv, Replacement
  <2> QED BY <1>1, <2>3, <2>4 DEF WholeInv
<1>3. CASE cmd' = "none"
  <2>1. OthersAreSound'
    BY <1>3 DEF WholeInv, OthersAreSound, BeingReplaced, Sound
  <2> QED BY <1>1, <1>3, <2>1 DEF WholeInv, Replacement, Purging
<1> QED BY <1>2, <1>3

\* The old instance was reset, so that the Issuer lets it go.
LEMMA OldRemoved == WholeInv /\ removeOld => WholeInv'
<1> SUFFICES ASSUME WholeInv, removeOld PROVE WholeInv'
  OBVIOUS
<1> USE DEF synthChain, synthFiles, operator, setting, purged
<1>1. /\ cmd = "replace" /\ place = 2
      /\ UNCHANGED <<holders, supply, tokenOf, proxyTo, targets, deferred, commands, disturbed>>
  BY DEF removeOld
<1>2. key \in Keys /\ old \in Versions /\ old # 0
  BY <1>1, InHand
<1>3. CASE issuerHas[key] = 0 \/ supply[key][issuerHas[key]] = 0
  <2>1. /\ issuerHas' = [issuerHas EXCEPT ![key] = 0]
        /\ place' = 3 /\ cmd' = cmd
        /\ UNCHANGED <<todo, totals, addresses, left>>
    BY <1>3 DEF removeOld, moveTo
  <2>2. /\ issuerHas' \in [Keys -> 0 .. MaxCommands + 1] /\ issuerHas'[key] = 0
        /\ \A k \in Keys \ {key} : issuerHas'[k] = issuerHas[k]
    BY <1>2, <2>1, SynthAssumption DEF WholeInv, SynthTypes
  <2>3. SynthTypes'
    BY <1>1, <2>1, <2>2 DEF WholeInv, SynthTypes
  <2>4. OthersAreSound' /\ Purging' /\ key' = key /\ ListIsRead'
    BY <1>1, <1>2, <2>1, <2>2, SameKey DEF old
  <2>5. InOrder'
    BY <2>1, <2>2, <2>4 DEF InOrder
  <2>6. Replacement'
    BY <1>1, <2>1, <2>4, <2>5 DEF WholeInv, Replacement
  <2> QED BY <2>3, <2>4, <2>6 DEF WholeInv
<1>4. CASE ~(issuerHas[key] = 0 \/ supply[key][issuerHas[key]] = 0)
  <2>1. /\ issuerHas' = issuerHas
        /\ UNCHANGED <<todo, totals, created, addresses, left>>
        /\ cmd' = "none" \/ (cmd' = cmd /\ place' = 3)
    BY <1>4 DEF removeOld, dieOr, moveTo
  <2>2. key \in disturbed
    BY <1>1, <1>4 DEF WholeInv, Replacement, InOrder
  <2> QED BY <1>1, <2>1, <2>2, DisturbedGoesOn
<1> QED BY <1>3, <1>4

LEMMA NewDeployed == WholeInv /\ deployNew => WholeInv'
<1> SUFFICES ASSUME WholeInv, deployNew PROVE WholeInv'
  OBVIOUS
<1> USE DEF synthChain, synthFiles, operator, setting, purged
<1>1. /\ cmd = "replace" /\ place = 3 /\ place' = 4 /\ cmd' = cmd
      /\ created' = old + 1
      /\ supply' = [supply EXCEPT ![key][created'] = totals[key]]
      /\ targets' = [targets EXCEPT ![key] = created']
      /\ UNCHANGED <<holders, issuerHas, tokenOf, proxyTo, deferred, todo, totals,
                     addresses, left, commands, disturbed>>
  BY DEF deployNew, supplyOfNew
<1>2. key \in Keys /\ old \in Versions /\ old # 0 /\ key = todo[1] /\ 1 \in DOMAIN todo
  BY <1>1, InHand
<1>3. /\ old <= commands
      /\ key \notin disturbed => issuerHas[key] = 0 /\ totals[key] = Cardinality(holders[key])
  BY <1>1, <1>2 DEF WholeInv, Replacement, ListIsRead, InOrder, old
<1>4. created' \in Versions /\ created' # 0 /\ created' <= commands + 1 /\ totals[key] \in Nat
  BY <1>1, <1>2, <1>3, SynthAssumption DEF WholeInv, SynthTypes, Versions
<1>5. /\ supply' \in [Keys -> [Versions -> Nat]] /\ supply'[key][created'] = totals[key]
      /\ \A k \in Keys \ {key} : supply'[k] = supply[k]
  BY <1>1, <1>2, <1>4 DEF WholeInv, SynthTypes
<1>6. /\ targets' \in [Keys -> 0 .. MaxCommands + 1] /\ targets'[key] = created'
      /\ \A k \in Keys \ {key} : targets'[k] = targets[k]
  BY <1>1, <1>2, <1>4, SynthAssumption DEF WholeInv, SynthTypes, Versions
<1>7. SynthTypes'
  BY <1>1, <1>4, <1>5, <1>6 DEF WholeInv, SynthTypes
<1>8. OthersAreSound' /\ Purging' /\ key' = key /\ ListIsRead'
  BY <1>1, <1>2, <1>4, <1>5, <1>6, SameKey
<1>9. created' = old'
  BY <1>1, <1>6, <1>8 DEF old
<1>10. key' \notin disturbed' => InOrder'
  BY <1>1, <1>3, <1>5, <1>8, <1>9 DEF InOrder
<1>11. Replacement'
  BY <1>1, <1>8, <1>9, <1>10 DEF Replacement
<1> QED BY <1>7, <1>8, <1>11 DEF WholeInv

LEMMA NewAdded == WholeInv /\ addNew => WholeInv'
<1> SUFFICES ASSUME WholeInv, addNew PROVE WholeInv'
  OBVIOUS
<1> USE DEF synthChain, synthFiles, operator, setting, purged
<1>1. /\ cmd = "replace" /\ place = 4 /\ created = old
      /\ UNCHANGED <<holders, supply, tokenOf, proxyTo, targets, deferred, commands, disturbed>>
  BY DEF addNew, WholeInv, Replacement
<1>2. key \in Keys /\ old \in 0 .. MaxCommands + 1 /\ old # 0
  BY <1>1, InHand
<1>3. CASE issuerHas[key] = 0
  <2>1. /\ issuerHas' = [issuerHas EXCEPT ![key] = created]
        /\ place' = 5 /\ cmd' = cmd /\ created' = created
        /\ UNCHANGED <<todo, totals, addresses, left>>
    BY <1>3 DEF addNew, moveTo
  <2>2. /\ issuerHas' \in [Keys -> 0 .. MaxCommands + 1] /\ issuerHas'[key] = old
        /\ \A k \in Keys \ {key} : issuerHas'[k] = issuerHas[k]
    BY <1>1, <1>2, <2>1 DEF WholeInv, SynthTypes
  <2>3. SynthTypes'
    BY <1>1, <2>1, <2>2 DEF WholeInv, SynthTypes
  <2>4. OthersAreSound' /\ Purging' /\ key' = key /\ ListIsRead'
    BY <1>1, <1>2, <2>1, <2>2, SameKey DEF old
  <2>5. old' = old
    BY <1>1, <2>4 DEF old
  <2>6. key' \notin disturbed' => InOrder'
    BY <1>1, <2>1, <2>2, <2>4, <2>5 DEF WholeInv, Replacement, InOrder
  <2>7. Replacement'
    BY <1>1, <2>1, <2>4, <2>5, <2>6 DEF Replacement
  <2> QED BY <2>3, <2>4, <2>7 DEF WholeInv
<1>4. CASE issuerHas[key] # 0
  <2>1. /\ issuerHas' = issuerHas
        /\ UNCHANGED <<todo, totals, created, addresses, left>>
        /\ cmd' = "none" \/ (cmd' = cmd /\ place' = 5)
    BY <1>4 DEF addNew, dieOr, moveTo
  <2>2. key \in disturbed
    BY <1>1, <1>4 DEF WholeInv, Replacement, InOrder
  <2> QED BY <1>1, <2>1, <2>2, DisturbedGoesOn
<1> QED BY <1>3, <1>4

LEMMA TokenStateTaken == WholeInv /\ setAssociatedContract => WholeInv'
<1> SUFFICES ASSUME WholeInv, setAssociatedContract PROVE WholeInv'
  OBVIOUS
<1> USE DEF synthChain, synthFiles, operator, setting, purged
<1>1. cmd = "replace" /\ place = 5 /\ created = old
  BY DEF setAssociatedContract, WholeInv, Replacement
<1>2. /\ tokenOf' = [tokenOf EXCEPT ![key] = created]
      /\ place' = 6 /\ cmd' = cmd /\ created' = created
      /\ UNCHANGED <<holders, supply, issuerHas, proxyTo, targets, deferred, todo, totals,
                     addresses, left, commands, disturbed>>
  BY DEF setAssociatedContract, moveTo
<1>3. key \in Keys /\ old \in 0 .. MaxCommands + 1 /\ old # 0
  BY <1>1, InHand
<1>4. /\ tokenOf' \in [Keys -> 0 .. MaxCommands + 1] /\ tokenOf'[key] = old
      /\ \A k \in Keys \ {key} : tokenOf'[k] = tokenOf[k]
  BY <1>1, <1>2, <1>3 DEF WholeInv, SynthTypes
<1>5. SynthTypes'
  BY <1>2, <1>4 DEF WholeInv, SynthTypes
<1>6. OthersAreSound' /\ Purging' /\ key' = key /\ ListIsRead'
  BY <1>1, <1>2, <1>3, <1>4, SameKey DEF old
<1>7. old' = old
  BY <1>2, <1>6 DEF old
<1>8. key' \notin disturbed' => InOrder'
  BY <1>1, <1>2, <1>4, <1>6, <1>7 DEF WholeInv, Replacement, InOrder
<1>9. Replacement'
  BY <1>1, <1>2, <1>6, <1>7, <1>8 DEF Replacement
<1> QED BY <1>5, <1>6, <1>9 DEF WholeInv

\* After the last step of a synth, which is sound now if nothing disturbed it, the
\* next one's turn begins.
LEMMA NextInHand ==
  ASSUME WholeInv, cmd = "replace", place = 6, nextKey, disturbed \subseteq disturbed',
         UNCHANGED <<holders, supply, issuerHas, tokenOf, targets, deferred, addresses, left>>,
         proxyTo' \in [Keys -> 0 .. MaxCommands + 1],
         \A k \in Keys \ {key} : proxyTo'[k] = proxyTo[k],
         key \notin disturbed' => proxyTo'[key] = created
  PROVE  WholeInv'
<1>1. /\ place' = 1 /\ todo' = Tail(todo) /\ totals' = totals /\ commands' = commands
      /\ cmd' = IF Len(todo) = 1 THEN "none" ELSE cmd
  BY DEF nextKey
<1>2. /\ created = old
      /\ key \notin disturbed =>
           issuerHas[key] \in {0, old} /\ tokenOf[key] = old
           /\ supply[key][old] = Cardinality(holders[key])
  BY DEF WholeInv, Replacement, InOrder
<1>3. key \in Keys /\ old \in 0 .. MaxCommands + 1 /\ old # 0 /\ todo \in Lists
  BY InHand
<1>4. cmd' # "none" => /\ Len(todo) # 1 /\ todo' \in Lists /\ key' = todo[2]
                       /\ DOMAIN todo' = {1} /\ todo'[1] = todo[2] /\ 2 \in DOMAIN todo
  BY <1>1, <1>3, ListFacts DEF key
<1>5. SynthTypes'
  BY <1>1, <1>4 DEF WholeInv, SynthTypes
<1>6. OthersAreSound'
  <2> SUFFICES ASSUME NEW k \in Keys \ disturbed' PROVE Sound(k)'
    BY DEF OthersAreSound
  <2>1. CASE k = key
    BY <2>1, <1>2 DEF Sound, old
  <2>2. CASE k # key
    <3>1. Sound(k)
      BY <2>2 DEF WholeInv, OthersAreSound, BeingReplaced
    <3> QED BY <3>1, <2>2 DEF Sound
  <2> QED BY <2>1, <2>2
<1>7. Replacement'
  <2> SUFFICES ASSUME cmd' = "replace" PROVE Replacement'
    BY DEF Replacement
  <2>1. /\ targets[todo[2]] # 0 /\ targets[todo[2]] <= commands
        /\ todo[2] \notin disturbed => totals[todo[2]] = Cardinality(holders[todo[2]])
    BY <1>4 DEF WholeInv, Replacement, ListIsRead
  <2>2. ListIsRead'
    BY <1>1, <1>4, <2>1 DEF ListIsRead
  <2>3. InOrder'
    BY <1>1 DEF InOrder
  <2> QED BY <1>1, <1>4, <2>1, <2>2, <2>3 DEF Replacement
<1>8. Purging'
  BY <1>1 DEF Purging
<1> QED BY <1>5, <1>6, <1>7, <1>8 DEF WholeInv

LEMMA ProxyTaken == WholeInv /\ setTarget => WholeInv'
<1> SUFFICES ASSUME WholeInv, setTarget PROVE WholeInv'
  OBVIOUS
<1> USE DEF synthChain, synthFiles, operator, setting, purged
<1>1. /\ cmd = "replace" /\ place = 6 /\ nextKey
      /\ proxyTo' = [proxyTo EXCEPT ![key] = created]
      /\ UNCHANGED <<holders, supply, issuerHas, tokenOf, targets, deferred, addresses, left,
                     disturbed>>
  BY DEF setTarget
<1>2. key \in Keys /\ created \in 0 .. MaxCommands + 1
  BY <1>1, InHand DEF WholeInv, Replacement
<1>3. /\ proxyTo' \in [Keys -> 0 .. MaxCommands + 1] /\ proxyTo'[key] = created
      /\ \A k \in Keys \ {key} : proxyTo'[k] = proxyTo[k]
  BY <1>1, <1>2 DEF WholeInv, SynthTypes
<1> QED BY <1>1, <1>3, NextInHand

\* A call that is denied disturbs the synth in hand, and no other.
LEMMA CallDenied == WholeInv /\ deny => WholeInv'
<1> SUFFICES ASSUME WholeInv, deny PROVE WholeInv'
  OBVIOUS
<1> USE DEF synthChain, synthFiles, purged
<1>1. /\ cmd = "replace" /\ place \in {1, 2, 4, 5, 6} /\ disturbed' = disturbed \cup {key}
      /\ UNCHANGED <<holders, supply, issuerHas, tokenOf, proxyTo, targets, deferred,
                     addresses, left>>
  BY DEF deny, isNeeded
<1>2. CASE place = 6
  <2>1. nextKey /\ proxyTo' \in [Keys -> 0 .. MaxCommands + 1]
    BY <1>1, <1>2 DEF deny, WholeInv, SynthTypes
  <2> QED BY <1>1, <1>2, <2>1, NextInHand
<1>3. CASE place # 6
  <2>1. /\ place' = place + 1 /\ place \in {1, 2, 4, 5}
        /\ UNCHANGED <<cmd, todo, totals, created, commands>>
    BY <1>1, <1>3 DEF deny, moveTo
  <2> QED BY <1>1, <2>1, DisturbedGoesOn
<1> QED BY <1>2, <1>3
------------------------------------------------------------------------------
(* The steps of the purge, of the removal and of the world. *)

\* When a purge or a removal goes on to the next synth, the list stays one.
LEMMA NextInList ==
  ASSUME WholeInv, cmd # "none", todo' = Tail(todo),
         cmd' = IF Len(todo) = 1 THEN "none" ELSE cmd
  PROVE  cmd' # "none" => todo' \in Lists
BY InHand, ListFacts

\* A step that leaves the synths as they are, outside a replacement.
LEMMA SynthsUntouched ==
  ASSUME WholeInv, cmd # "replace", cmd' # "replace",
         UNCHANGED <<holders, supply, issuerHas, tokenOf, proxyTo, targets, deferred,
                     totals, commands, disturbed>>,
         addresses' \subseteq Users, left' \subseteq Users,
         cmd' # "none" => todo' \in Lists, Purging'
  PROVE  WholeInv'
<1>1. SynthTypes'
  BY DEF WholeInv, SynthTypes
<1>2. OthersAreSound'
  BY AllSound DEF OthersAreSound, Sound
<1> QED BY <1>1, <1>2 DEF WholeInv, Replacement

LEMMA HoldersFetched == WholeInv /\ fetchHolders => WholeInv'
<1> SUFFICES ASSUME WholeInv, fetchHolders PROVE WholeInv'
  OBVIOUS
<1> USE DEF synthChain, synthFiles, operator, setting
<1>1. /\ cmd = "purge" /\ place = 1 /\ agrees /\ left' = addresses'
      /\ UNCHANGED <<holders, supply, issuerHas, tokenOf, proxyTo, targets, deferred, totals,
                     commands, disturbed>>
  BY DEF fetchHolders
<1>2. key \in Keys
  BY <1>1, InHand
<1>3. addresses' \subseteq Users
  BY <1>2 DEF fetchHolders, WholeInv, SynthTypes
<1>4. CASE supply[key][old] = 0
  <2>1. /\ todo' = Tail(todo) /\ place' = 1
        /\ cmd' = IF Len(todo) = 1 THEN "none" ELSE cmd
    BY <1>4 DEF fetchHolders
  <2> QED BY <1>1, <1>3, <2>1, NextInList, SynthsUntouched DEF Purging
<1>5. CASE supply[key][old] # 0
  <2>1. todo' = todo /\ cmd' = cmd /\ place' = 2
    BY <1>5 DEF fetchHolders
  <2>2. todo' \in Lists /\ targets'[key'] # 0
    BY <1>1, <2>1 DEF WholeInv, SynthTypes, agrees, key
  <2> QED BY <1>1, <1>3, <2>1, <2>2, SynthsUntouched DEF Purging
<1> QED BY <1>4, <1>5

\* A batch burns as much supply as it takes holders away, or nothing.
LEMMA BatchPurged == WholeInv /\ purgeBatch => WholeInv'
<1> SUFFICES ASSUME WholeInv, purgeBatch PROVE WholeInv'
  OBVIOUS
<1> USE DEF synthFiles, operator, setting
<1>1. /\ cmd = "purge" /\ place = 2 /\ cmd' \in {"none", cmd} /\ todo' = todo /\ place' = place
      /\ UNCHANGED <<issuerHas, tokenOf, proxyTo, targets, deferred, totals, addresses,
                     commands, disturbed>>
  BY DEF purgeBatch
<1>2. PICK batch \in SUBSET left :
        /\ left' = left \ batch
        /\ \/ /\ burns(batch)
              /\ holders' = [holders EXCEPT ![key] = @ \ batch]
              /\ supply' = [supply EXCEPT ![key][old] = @ - Cardinality(batch \cap holders[key])]
           \/ UNCHANGED <<holders, supply>>
  BY DEF purgeBatch, batches
<1>3. batch \in SUBSET Users /\ left' \subseteq Users /\ addresses' \subseteq Users
  BY <1>1, <1>2 DEF WholeInv, SynthTypes
<1>4. key \in Keys /\ todo \in Lists /\ old \in 0 .. MaxCommands + 1 /\ old # 0 /\ key' = key
  BY <1>1, InHand DEF WholeInv, Purging, old, key
<1>5. Purging'
  BY <1>1, <1>4 DEF Purging, old
<1>6. CASE UNCHANGED <<holders, supply>>
  BY <1>6, <1>1, <1>2, <1>3, <1>4, <1>5, SynthsUntouched
<1>7. CASE /\ burns(batch)
           /\ holders' = [holders EXCEPT ![key] = @ \ batch]
           /\ supply' = [supply EXCEPT ![key][old] = @ - Cardinality(batch \cap holders[key])]
  <2>1. old \in Versions
    BY <1>4, SynthAssumption DEF Versions
  <2>2. holders[key] \in SUBSET Users /\ supply[key][old] \in Nat
    BY <1>4, <2>1 DEF WholeInv, SynthTypes
  <2>3. /\ Cardinality(batch \cap holders[key]) \in Nat
        /\ Cardinality(batch \cap holders[key]) <= supply[key][old]
        /\ Cardinality(holders[key] \ batch)
             = Cardinality(holders[key]) - Cardinality(batch \cap holders[key])
    <3>1. /\ Cardinality(batch \cap holders[key]) \in Nat
          /\ Cardinality(holders[key] \ batch)
               = Cardinality(holders[key]) - Cardinality(batch \cap holders[key])
      BY <1>3, <2>2, HoldersCount
    <3>2. batch \cap holders[key] = {} => Cardinality(batch \cap holders[key]) = 0
      BY FS_EmptySet
    <3> QED BY <1>7, <2>2, <3>1, <3>2 DEF burns
  <2>4. /\ supply' \in [Keys -> [Versions -> Nat]] /\ holders' \in [Keys -> SUBSET Users]
        /\ supply'[key][old] = supply[key][old] - Cardinality(batch \cap holders[key])
        /\ holders'[key] = holders[key] \ batch
        /\ \A k \in Keys \ {key} : supply'[k] = supply[k] /\ holders'[k] = holders[k]
    BY <1>4, <1>7, <2>1, <2>2, <2>3 DEF WholeInv, SynthTypes
  <2>5. SynthTypes'
    BY <1>1, <1>3, <2>4 DEF WholeInv, SynthTypes
  <2>6. OthersAreSound'
    <3> SUFFICES ASSUME NEW k \in Keys \ disturbed PROVE Sound(k)'
      BY <1>1 DEF OthersAreSound
    <3>1. Sound(k)
      BY <1>1, AllSound
    <3>2. CASE k = key
      BY <3>1, <3>2, <1>1, <2>3, <2>4 DEF Sound, old
    <3>3. CASE k # key
      BY <3>1, <3>3, <1>1, <2>4 DEF Sound
    <3> QED BY <3>2, <3>3
  <2> QED BY <1>1, <1>5, <2>5, <2>6 DEF WholeInv, Replacement
<1> QED BY <1>2, <1>6, <1>7

LEMMA PurgeGoesOn == WholeInv /\ purgeDone => WholeInv'
<1> SUFFICES ASSUME WholeInv, purgeDone PROVE WholeInv'
  OBVIOUS
<1>1. /\ cmd = "purge" /\ todo' = Tail(todo) /\ place' = 1
      /\ cmd' = IF Len(todo) = 1 THEN "none" ELSE cmd
      /\ UNCHANGED <<holders, supply, issuerHas, tokenOf, proxyTo, targets, deferred, totals,
                     addresses, left, commands, disturbed>>
  BY DEF purgeDone, nextKey, synthChain, synthFiles, operator, setting, purged
<1>2. addresses' \subseteq Users /\ left' \subseteq Users
  BY <1>1 DEF WholeInv, SynthTypes
<1> QED BY <1>1, <1>2, NextInList, SynthsUntouched DEF Purging

\* What the Issuer has of a synth is taken out: what is sound stays sound.
LEMMA SynthRemoved == WholeInv /\ removeSynth => WholeInv'
<1> SUFFICES ASSUME WholeInv, removeSynth PROVE WholeInv'
  OBVIOUS
<1>1. /\ cmd = "remove" /\ place' = 2 /\ cmd' = cmd /\ todo' = todo
      /\ UNCHANGED <<holders, supply, tokenOf, proxyTo, targets, totals, addresses, left,
                     commands, disturbed>>
  BY DEF removeSynth, moveTo, operator, setting, purged
<1>2. key \in Keys
  BY <1>1, InHand
<1>3. /\ issuerHas' \in [Keys -> 0 .. MaxCommands + 1] /\ deferred' \subseteq Keys
      /\ \A k \in Keys : issuerHas'[k] \in {0, issuerHas[k]}
  <2>1. \/ issuerHas' = [issuerHas EXCEPT ![key] = 0] /\ deferred' = deferred
        \/ issuerHas' = issuerHas /\ deferred' = deferred \cup {key}
    BY DEF removeSynth, deferRemoval
  <2>2. issuerHas \in [Keys -> 0 .. MaxCommands + 1] /\ deferred \subseteq Keys
    BY DEF WholeInv, SynthTypes
  <2> QED BY <1>2, <2>1, <2>2, SynthAssumption
<1>4. SynthTypes'
  BY <1>1, <1>3 DEF WholeInv, SynthTypes
<1>5. OthersAreSound'
  BY <1>1, <1>3, AllSound DEF OthersAreSound, Sound
<1> QED BY <1>1, <1>4, <1>5 DEF WholeInv, Replacement, Purging

LEMMA FilesForget ==
  WholeInv /\ (forgetInConfig \/ forgetInDeployment \/ forgetInSynths) => WholeInv'
<1> SUFFICES ASSUME WholeInv, forgetInConfig \/ forgetInDeployment \/ forgetInSynths
             PROVE  WholeInv'
  OBVIOUS
<1> USE DEF synthChain, operator, setting, purged
<1>1. /\ cmd = "remove"
      /\ UNCHANGED <<holders, supply, issuerHas, tokenOf, proxyTo, deferred, totals,
                     addresses, left, commands, disturbed>>
  BY DEF forgetInConfig, forgetInDeployment, forgetInSynths, moveTo, nextKey
<1>2. cmd' # "replace" /\ cmd' # "purge"
  BY <1>1 DEF forgetInConfig, forgetInDeployment, forgetInSynths, moveTo, nextKey
<1>3. cmd' # "none" => todo' \in Lists
  BY <1>1, InHand, NextInList
     DEF forgetInConfig, forgetInDeployment, forgetInSynths, moveTo, nextKey
<1>4. /\ targets' \in [Keys -> 0 .. MaxCommands + 1]
      /\ \A k \in Keys : targets'[k] \in {0, targets[k]}
  BY SynthAssumption
     DEF forgetInConfig, forgetInDeployment, forgetInSynths, WholeInv, SynthTypes
<1>5. SynthTypes'
  BY <1>1, <1>3, <1>4 DEF WholeInv, SynthTypes
<1>6. OthersAreSound'
  BY <1>1, <1>4, AllSound DEF OthersAreSound, Sound
<1> QED BY <1>2, <1>5, <1>6 DEF WholeInv, Replacement, Purging

\* The owner may perform a removal also while another synth is replaced.
LEMMA RemovalPerformed == WholeInv /\ performRemoval => WholeInv'
<1> SUFFICES ASSUME WholeInv, performRemoval PROVE WholeInv'
  OBVIOUS
<1>1. UNCHANGED <<holders, supply, tokenOf, proxyTo, targets, cmd, todo, place, totals, created,
                  addresses, left, commands, disturbed>>
  BY DEF performRemoval, synthRun, operator, setting, purged
<1>2. /\ issuerHas' \in [Keys -> 0 .. MaxCommands + 1] /\ deferred' \subseteq Keys
      /\ \A k \in Keys : issuerHas'[k] \in {0, issuerHas[k]}
  BY SynthAssumption DEF performRemoval, WholeInv, SynthTypes
<1>3. key' = key /\ old' = old
  BY <1>1 DEF key, old
<1>4. SynthTypes'
  BY <1>1, <1>2 DEF WholeInv, SynthTypes
<1>5. OthersAreSound'
  BY <1>1, <1>2, <1>3 DEF WholeInv, OthersAreSound, BeingReplaced, Sound
<1>6. Replacement'
  <2> SUFFICES ASSUME cmd = "replace" PROVE Replacement'
    BY <1>1 DEF Replacement
  <2>1. key \in Keys
    BY InHand
  <2>2. ListIsRead'
    BY <1>1 DEF WholeInv, Replacement, ListIsRead
  <2>3. key' \notin disturbed' => InOrder'
    BY <1>1, <1>2, <1>3, <2>1 DEF WholeInv, Replacement, InOrder
  <2> QED BY <1>1, <1>3, <2>1, <2>2, <2>3 DEF WholeInv, Replacement
<1>7. Purging'
  BY <1>1, <1>3 DEF WholeInv, Purging
<1> QED BY <1>4, <1>5, <1>6, <1>7 DEF WholeInv

\* A user who comes or goes changes the supply by one: what is replaced and not
\* disturbed by it has its new instance already.
LEMMA Traded == WholeInv /\ trade => WholeInv'
<1> SUFFICES ASSUME WholeInv, trade PROVE WholeInv'
  OBVIOUS
<1>1. UNCHANGED <<issuerHas, tokenOf, proxyTo, targets, deferred, cmd, todo, place, totals,
                  created, addresses, left, commands>>
  BY DEF trade, synthFiles, synthRun, purged
<1>2. PICK k \in Keys, u \in Users :
        /\ issuerHas[k] # 0 /\ works(k, issuerHas[k])
        /\ disturbed' = disturbed \cup {s \in {k} : supplyIsRead(s)}
        /\ IF u \in holders[k]
           THEN /\ supply[k][issuerHas[k]] > 0
                /\ holders' = [holders EXCEPT ![k] = @ \ {u}]
                /\ supply' = [supply EXCEPT ![k][issuerHas[k]] = @ - 1]
           ELSE /\ holders' = [holders EXCEPT ![k] = @ \cup {u}]
                /\ supply' = [supply EXCEPT ![k][issuerHas[k]] = @ + 1]
  BY DEF trade
<1> DEFINE v == issuerHas[k]
<1>3. v \in Versions /\ v # 0
  BY <1>2, SynthAssumption DEF WholeInv, SynthTypes, Versions
<1>4. holders[k] \in SUBSET Users /\ supply[k][v] \in Nat
  BY <1>2, <1>3 DEF WholeInv, SynthTypes
<1>5. /\ supply' \in [Keys -> [Versions -> Nat]] /\ holders' \in [Keys -> SUBSET Users]
      /\ supply[k][v] = Cardinality(holders[k]) => supply'[k][v] = Cardinality(holders'[k])
      /\ \A o \in Keys \ {k} : supply'[o] = supply[o] /\ holders'[o] = holders[o]
  <2>1. CASE u \in holders[k]
    <3>1. Cardinality(holders[k] \ {u}) = Cardinality(holders[k]) - 1
      BY <2>1, <1>2, <1>4, HoldersCount
    <3>2. /\ holders' = [holders EXCEPT ![k] = @ \ {u}]
          /\ supply' = [supply EXCEPT ![k][v] = @ - 1]
          /\ supply[k][v] - 1 \in Nat
      BY <2>1, <1>2, <1>4
    <3>3. supply' \in [Keys -> [Versions -> Nat]] /\ supply'[k][v] = supply[k][v] - 1
      BY <3>2, <1>3 DEF WholeInv, SynthTypes
    <3>4. holders' \in [Keys -> SUBSET Users] /\ holders'[k] = holders[k] \ {u}
      BY <3>2 DEF WholeInv, SynthTypes
    <3>5. \A o \in Keys \ {k} : supply'[o] = supply[o] /\ holders'[o] = holders[o]
      BY <3>2 DEF WholeInv, SynthTypes
    <3> QED BY <3>1, <3>3, <3>4, <3>5
  <2>2. CASE u \notin holders[k]
    <3>1. Cardinality(holders[k] \cup {u}) = Cardinality(holders[k]) + 1
      BY <2>2, <1>2, <1>4, HoldersCount
    <3>2. /\ holders' = [holders EXCEPT ![k] = @ \cup {u}]
          /\ supply' = [supply EXCEPT ![k][v] = @ + 1]
          /\ supply[k][v] + 1 \in Nat
      BY <2>2, <1>2, <1>4
    <3>3. supply' \in [Keys -> [Versions -> Nat]] /\ supply'[k][v] = supply[k][v] + 1
      BY <3>2, <1>3 DEF WholeInv, SynthTypes
    <3>4. holders' \in [Keys -> SUBSET Users] /\ holders'[k] = holders[k] \cup {u}
      BY <3>2 DEF WholeInv, SynthTypes
    <3>5. \A o \in Keys \ {k} : supply'[o] = supply[o] /\ holders'[o] = holders[o]
      BY <3>2 DEF WholeInv, SynthTypes
    <3> QED BY <3>1, <3>3, <3>4, <3>5
  <2> QED BY <2>1, <2>2
<1>6. SynthTypes'
  BY <1>1, <1>5 DEF WholeInv, SynthTypes
<1>7. /\ disturbed \subseteq disturbed' /\ (supplyIsRead(k) => k \in disturbed')
      /\ key' = key /\ old' = old
  BY <1>1, <1>2 DEF key, old
<1>8. OthersAreSound'
  <2> SUFFICES ASSUME NEW o \in Keys \ disturbed', ~BeingReplaced(o) PROVE Sound(o)'
    BY <1>1, <1>7 DEF OthersAreSound, BeingReplaced
  <2>1. Sound(o)
    BY <1>7 DEF WholeInv, OthersAreSound
  <2>2. CASE o = k
    <3>1. targets[k] # 0 => v = targets[k] /\ supply[k][v] = Cardinality(holders[k])
      BY <1>3, <2>1, <2>2 DEF Sound
    <3>2. targets[k] # 0 => supply'[k][v] = Cardinality(holders'[k])
      BY <1>5, <3>1
    <3> QED BY <2>1, <2>2, <1>1, <3>1, <3>2 DEF Sound
  <2>3. CASE o # k
    BY <2>1, <2>3, <1>1, <1>5 DEF Sound
  <2> QED BY <2>2, <2>3
<1>9. Replacement'
  <2> SUFFICES ASSUME cmd = "replace" PROVE Replacement'
    BY <1>1 DEF Replacement
  <2>1. key \in Keys /\ key = todo[1] /\ 1 \in DOMAIN todo /\ \A i \in DOMAIN todo : todo[i] \in Keys
    BY InHand
  <2>2. /\ ListIsRead /\ place \in 1 .. 6
        /\ place <= 3 => targets[key] <= commands
        /\ place >= 4 => created = old
        /\ key \notin disturbed => InOrder
    BY DEF WholeInv, Replacement
  <2>3. ListIsRead'
    <3> SUFFICES ASSUME NEW i \in DOMAIN todo, todo[i] \notin disturbed', i # 1 \/ place <= 3
                 PROVE  totals[todo[i]] = Cardinality(holders'[todo[i]])
      BY <1>1, <2>2 DEF ListIsRead
    <3>1. todo[i] # k
      BY <1>7 DEF supplyIsRead
    <3> QED BY <1>5, <1>7, <2>1, <2>2, <3>1 DEF ListIsRead
  <2>4. key' \notin disturbed' => InOrder'
    <3> SUFFICES ASSUME key \notin disturbed' PROVE InOrder'
      BY <1>7
    <3>1. InOrder
      BY <1>7, <2>2
    <3>2. CASE key # k
      BY <1>1, <1>5, <1>7, <2>1, <3>1, <3>2 DEF InOrder
    <3>3. CASE key = k
      <4>1. place \in {4, 5, 6}
        <5>1. ~supplyIsRead(k)
          BY <1>7, <3>3
        <5>2. ~(place <= 3)
          BY <2>1, <3>3, <5>1 DEF supplyIsRead
        <5> QED BY <2>2, <5>2
      <4>2. v = old /\ place \in {5, 6} /\ supply[k][v] = Cardinality(holders[k])
        <5>1. place # 4
          BY <1>3, <3>1, <3>3 DEF InOrder
        <5>2. place \in {5, 6} /\ place >= 4
          BY <4>1, <5>1
        <5> QED BY <1>3, <3>1, <3>3, <5>2 DEF InOrder
      <4>3. supply'[k][v] = Cardinality(holders'[k])
        BY <1>5, <4>2
      <4> QED BY <1>1, <1>7, <3>1, <3>3, <4>2, <4>3 DEF InOrder
    <3> QED BY <3>2, <3>3
  <2> QED BY <1>1, <1>7, <2>2, <2>3, <2>4 DEF Replacement
<1>10. Purging'
  BY <1>1, <1>7 DEF WholeInv, Purging
<1> QED BY <1>6, <1>8, <1>9, <1>10 DEF WholeInv

LEMMA WholeStutter == WholeInv /\ UNCHANGED synthVars => WholeInv'
BY DEF synthVars, synthChain, operator, setting, synthFiles, synthRun, purged, WholeInv,
       SynthTypes, OthersAreSound, BeingReplaced, Sound, Replacement, ListIsRead, InOrder,
       Purging, key, old

LEMMA WholeNext == WholeInv /\ [SynthNext]_synthVars => WholeInv'
BY ReplaceBegins, SupplyReset, OldRemoved, NewDeployed, NewAdded, TokenStateTaken, ProxyTaken,
   CallDenied, PurgeBegins, HoldersFetched, BatchPurged, PurgeGoesOn,
   RemoveBegins, SynthRemoved, FilesForget, CommandEnds, RemovalPerformed, Traded, WholeStutter
   DEF SynthNext, replaceStep, purgeStep, removeStep

THEOREM WholeInvariance == SynthSpec => []WholeInv
<1>1. SynthInit => WholeInv
  BY WholeInit
<1>2. WholeInv /\ [SynthNext]_synthVars => WholeInv'
  BY WholeNext
<1> QED BY <1>1, <1>2, PTL DEF SynthSpec

\* Between two commands a synth of the Issuer has the supply of its holders and the
\* token state, proxy and entry of the same instance, however many synths were
\* replaced, purged and removed before, wherever commands stopped and whatever
\* was denied or traded meanwhile, unless that happened to this synth while it
\* was replaced itself (replace-synths.js:233).
THEOREM SynthsStayWhole == SynthSpec => []SynthsAreWhole
<1>1. WholeInv => SynthsAreWhole
  BY AllSound DEF SynthsAreWhole, Sound
<1> QED BY <1>1, WholeInvariance, PTL
------------------------------------------------------------------------------
(* What the files forget is removed. *)

\* Nobody issues or burns a synth whose removal waits for the owner.
RemovalsRest == "deferred" \notin TradedDuring

LEMMA RemovalInit == SynthInit => RemovalInv
BY DEF SynthInit, RemovalInv, ForgottenSynthsAreRemoved

\* Steps that leave alone what the invariant speaks of, and are not of a removal.
LEMMA RemovalsUntouched ==
  ASSUME RemovalInv, UNCHANGED <<supply, targets, deferred>>,
         \A k \in Keys : issuerHas'[k] \in {0, issuerHas[k]},
         deferred \subseteq Keys, cmd' = "remove" => place' = 1,
         cmd' = "replace" =>
           /\ cmd = "replace" /\ totals' = totals
           /\ \A i \in DOMAIN todo' : \E j \in DOMAIN todo : todo[j] = todo'[i]
  PROVE  RemovalInv'
<1>1. ASSUME NEW k \in deferred
      PROVE  /\ issuerHas'[k] # 0 => supply[k][issuerHas'[k]] = 0
             /\ targets[k] # 0 => supply[k][targets[k]] = 0
             /\ cmd' = "replace" /\ (\E i \in DOMAIN todo' : todo'[i] = k) => totals'[k] = 0
  BY <1>1 DEF RemovalInv
<1>2. ForgottenSynthsAreRemoved'
  BY DEF RemovalInv, ForgottenSynthsAreRemoved
<1> QED BY <1>1, <1>2 DEF RemovalInv

LEMMA RemovalTypes ==
  WholeInv => /\ deferred \subseteq Keys
              /\ \A k \in Keys : /\ issuerHas[k] \in 0 .. MaxCommands + 1
                                 /\ targets[k] \in 0 .. MaxCommands + 1
                                 /\ issuerHas[k] # 0 => issuerHas[k] \in Versions
                                 /\ targets[k] # 0 => targets[k] \in Versions
BY SynthAssumption DEF WholeInv, SynthTypes, Versions

\* A new instance has no supply if the old one had none.
LEMMA RemovalWhileReplaced ==
  ASSUME WholeInv, RemovalInv, replaceStep
  PROVE  RemovalInv'
<1> USE DEF synthChain, synthFiles, operator, setting, purged, moveTo
<1>1. CASE replaceSynths
  <2>1. /\ cmd' = "replace" /\ UNCHANGED <<supply, issuerHas, targets, deferred>>
        /\ totals' = [k \in Keys |-> IF targets[k] = 0 THEN 0 ELSE supply[k][targets[k]]]
    BY <1>1 DEF replaceSynths, begin
  <2>2. \A k \in deferred : totals'[k] = 0
    BY <2>1, RemovalTypes DEF RemovalInv
  <2> QED BY <2>1, <2>2 DEF RemovalInv, ForgottenSynthsAreRemoved
<1>2. CASE setTotalSupply
  <2>1. /\ cmd = "replace" /\ cmd' = cmd /\ supply' = [supply EXCEPT ![key][old] = 0]
        /\ UNCHANGED <<issuerHas, targets, deferred, todo, totals>>
    BY <1>2 DEF setTotalSupply
  <2>2. ASSUME NEW k \in deferred, NEW v \in Versions, supply[k][v] = 0
        PROVE  supply'[k][v] = 0
    BY <2>1, <2>2, RemovalTypes DEF WholeInv, SynthTypes
  <2> QED BY <2>1, <2>2, RemovalTypes DEF RemovalInv, ForgottenSynthsAreRemoved
<1>3. CASE removeOld
  <2>1. /\ cmd = "replace" /\ cmd' \in {"none", "replace"}
        /\ issuerHas' = issuerHas \/ issuerHas' = [issuerHas EXCEPT ![key] = 0]
        /\ UNCHANGED <<supply, targets, deferred, todo, totals>>
    BY <1>3 DEF removeOld, dieOr
  <2>2. \A k \in Keys : issuerHas'[k] \in {0, issuerHas[k]}
    BY <2>1 DEF WholeInv, SynthTypes
  <2> QED BY <2>1, <2>2, RemovalsUntouched, RemovalTypes
<1>4. CASE deployNew
  <2>1. /\ cmd = "replace" /\ cmd' = cmd /\ created' = old + 1
        /\ supply' = [supply EXCEPT ![key][created'] = totals[key]]
        /\ targets' = [targets EXCEPT ![key] = created']
        /\ UNCHANGED <<issuerHas, deferred, todo, totals>>
    BY <1>4 DEF deployNew, supplyOfNew
  <2>2. key \in Keys /\ key = todo[1] /\ 1 \in DOMAIN todo /\ old \in Versions
    BY <2>1, InHand
  <2>3. /\ old <= commands /\ created' # 0
    BY <1>4, <2>1, <2>2 DEF deployNew, WholeInv, Replacement, old, Versions
  <2>4. created' \in Versions
    BY <2>1, <2>2, <2>3, SynthAssumption DEF WholeInv, SynthTypes, Versions
  <2>5. \A k \in Keys : k # key => supply'[k] = supply[k] /\ targets'[k] = targets[k]
    BY <2>1 DEF WholeInv, SynthTypes
  <2>6. /\ targets'[key] = created' /\ supply'[key][created'] = totals[key]
        /\ \A v \in Versions : v # created' => supply'[key][v] = supply[key][v]
    BY <2>1, <2>2, <2>4 DEF WholeInv, SynthTypes
  <2>7. key \in deferred => totals[key] = 0
    BY <2>1, <2>2 DEF RemovalInv
  <2>8. ASSUME NEW k \in deferred
        PROVE  /\ issuerHas[k] # 0 => supply'[k][issuerHas[k]] = 0
               /\ targets'[k] # 0 => supply'[k][targets'[k]] = 0
    <3>1. CASE k = key
      BY <2>6, <2>7, <2>8, <3>1, RemovalTypes DEF RemovalInv
    <3>2. CASE k # key
      BY <2>5, <2>8, <3>2, RemovalTypes DEF RemovalInv
    <3> QED BY <3>1, <3>2
  <2>9. ForgottenSynthsAreRemoved'
    BY <2>1, <2>3, <2>5, <2>6 DEF RemovalInv, ForgottenSynthsAreRemoved
  <2> QED BY <2>1, <2>8, <2>9 DEF RemovalInv
<1>5. CASE addNew
  <2>1. /\ cmd = "replace" /\ place = 4 /\ created = old /\ cmd' \in {"none", "replace"}
        /\ UNCHANGED <<supply, targets, deferred, todo, totals>>
    BY <1>5 DEF addNew, dieOr, WholeInv, Replacement
  <2>2. CASE issuerHas' = issuerHas
    BY <2>1, <2>2, RemovalsUntouched, RemovalTypes
  <2>3. CASE issuerHas' = [issuerHas EXCEPT ![key] = created]
    <3>1. key \in Keys /\ old # 0 /\ old = targets[key]
      BY <2>1, InHand DEF old
    <3>2. issuerHas'[key] = old /\ \A k \in Keys : k # key => issuerHas'[k] = issuerHas[k]
      BY <2>1, <2>3, <3>1 DEF WholeInv, SynthTypes
    <3> QED BY <2>1, <3>1, <3>2, RemovalTypes DEF RemovalInv, ForgottenSynthsAreRemoved
  <2> QED BY <1>5, <2>2, <2>3 DEF addNew
<1>6. CASE setAssociatedContract
  BY <1>6, RemovalsUntouched, RemovalTypes DEF setAssociatedContract
<1>7. ASSUME nextKey, cmd = "replace", UNCHANGED <<supply, issuerHas, targets, deferred>>
      PROVE  RemovalInv'
  <2>1. /\ todo' = Tail(todo) /\ totals' = totals
        /\ cmd' = IF Len(todo) = 1 THEN "none" ELSE cmd
    BY <1>7 DEF nextKey
  <2>2. cmd' # "none" => /\ DOMAIN todo' = {1} /\ 2 \in DOMAIN todo /\ todo'[1] = todo[2]
    BY <1>7, <2>1, InHand, ListFacts
  <2> QED BY <1>7, <2>1, <2>2, RemovalsUntouched, RemovalTypes
<1>8. CASE setTarget
  BY <1>7, <1>8 DEF setTarget
<1>9. CASE deny
  <2>1. CASE place = 6
    BY <1>7, <1>9, <2>1 DEF deny
  <2>2. CASE place # 6
    BY <1>9, <2>2, RemovalsUntouched, RemovalTypes DEF deny
  <2> QED BY <2>1, <2>2
<1> QED BY <1>1, <1>2, <1>3, <1>4, <1>5, <1>6, <1>8, <1>9 DEF replaceStep

\* Where there is no supply a batch burns nothing.
LEMMA RemovalWhilePurged ==
  ASSUME WholeInv, RemovalInv, purgeStep
  PROVE  RemovalInv'
<1> USE DEF synthChain, synthFiles, operator, setting, purged
<1>1. CASE purgeSynths
  BY <1>1, RemovalsUntouched, RemovalTypes DEF purgeSynths
<1>2. CASE fetchHolders
  BY <1>2, RemovalsUntouched, RemovalTypes DEF fetchHolders
<1>3. CASE purgeDone
  BY <1>3, RemovalsUntouched, RemovalTypes DEF purgeDone, nextKey
<1>4. CASE purgeBatch
  <2>1. /\ cmd = "purge" /\ cmd' \in {"none", "purge"}
        /\ UNCHANGED <<issuerHas, targets, deferred>>
    BY <1>4 DEF purgeBatch
  <2>2. CASE UNCHANGED <<holders, supply>>
    BY <2>1, <2>2, RemovalsUntouched, RemovalTypes
  <2>3. ASSUME NEW batch \in SUBSET left, burns(batch),
               supply' = [supply EXCEPT ![key][old] = @ - Cardinality(batch \cap holders[key])]
        PROVE  RemovalInv'
    <3>1. key \in Keys /\ batch \in SUBSET Users /\ holders[key] \in SUBSET Users
      BY <2>1, <2>3, InHand DEF WholeInv, SynthTypes
    <3>2. /\ Cardinality(batch \cap holders[key]) \in Nat
          /\ batch \cap holders[key] = {} => Cardinality(batch \cap holders[key]) = 0
      BY <3>1, HoldersCount, FS_EmptySet
    <3>3. supply[key][old] = 0 => Cardinality(batch \cap holders[key]) = 0
      BY <2>3, <3>2 DEF burns
    <3>4. ASSUME NEW k \in deferred, NEW v \in Versions, supply[k][v] = 0
          PROVE  supply'[k][v] = 0
      <4>1. CASE k = key /\ v = old
        BY <2>3, <3>1, <3>3, <3>4, <4>1 DEF WholeInv, SynthTypes
      <4>2. CASE ~(k = key /\ v = old)
        BY <2>3, <3>4, <4>2, RemovalTypes DEF WholeInv, SynthTypes
      <4> QED BY <4>1, <4>2
    <3> QED BY <2>1, <3>4, RemovalTypes DEF RemovalInv, ForgottenSynthsAreRemoved
  <2> QED BY <1>4, <2>2, <2>3 DEF purgeBatch, batches
<1> QED BY <1>1, <1>2, <1>3, <1>4 DEF purgeStep

\* The Issuer lets the synth go, or the owner is told, before the files forget it.
LEMMA RemovalWhileRemoved ==
  ASSUME WholeInv, RemovalInv, removeStep
  PROVE  RemovalInv'
<1> USE DEF synthChain, synthFiles, operator, setting, purged, moveTo
<1>1. CASE removeSynths
  BY <1>1, RemovalsUntouched, RemovalTypes DEF removeSynths, begin
<1>2. CASE removeSynth
  <2>1. /\ cmd = "remove" /\ cmd' = cmd /\ agrees /\ supply[key][old] = 0 /\ key' = key
        /\ UNCHANGED <<holders, supply, targets>>
    BY <1>2 DEF removeSynth, key
  <2>2. key \in Keys /\ issuerHas[key] = old /\ targets[key] = old /\ old # 0
    BY <2>1, InHand DEF agrees, old
  <2>3. CASE issuerHas' = [issuerHas EXCEPT ![key] = 0] /\ deferred' = deferred
    <3>1. issuerHas'[key] = 0 /\ \A k \in Keys : issuerHas'[k] \in {0, issuerHas[k]}
      BY <2>2, <2>3 DEF WholeInv, SynthTypes
    <3> QED BY <2>1, <2>3, <3>1, RemovalTypes DEF RemovalInv, ForgottenSynthsAreRemoved
  <2>4. CASE issuerHas' = issuerHas /\ deferred' = deferred \cup {key}
    BY <2>1, <2>2, <2>4 DEF RemovalInv, ForgottenSynthsAreRemoved
  <2> QED BY <1>2, <2>3, <2>4 DEF removeSynth, deferRemoval
<1>3. CASE forgetInConfig
  <2>1. /\ cmd = "remove" /\ cmd' = cmd /\ place = 2 /\ key' = key
        /\ UNCHANGED <<supply, issuerHas, targets, deferred>>
    BY <1>3 DEF forgetInConfig, key
  <2> QED BY <2>1 DEF RemovalInv, ForgottenSynthsAreRemoved
<1>4. CASE forgetInDeployment
  <2>1. /\ cmd = "remove" /\ cmd' = cmd /\ place = 3 /\ place' = 4
        /\ targets' = [targets EXCEPT ![key] = 0]
        /\ UNCHANGED <<supply, issuerHas, deferred>>
    BY <1>4 DEF forgetInDeployment
  <2>2. /\ key \in Keys /\ targets'[key] = 0
        /\ \A k \in Keys : k # key => targets'[k] = targets[k]
    BY <2>1, InHand DEF WholeInv, SynthTypes
  <2> QED BY <2>1, <2>2, RemovalTypes DEF RemovalInv, ForgottenSynthsAreRemoved
<1>5. CASE forgetInSynths
  <2>1. /\ cmd = "remove" /\ cmd' \in {"none", "remove"} /\ place' = 1
        /\ UNCHANGED <<supply, issuerHas, targets, deferred>>
    BY <1>5 DEF forgetInSynths, nextKey
  <2> QED BY <2>1, RemovalsUntouched, RemovalTypes
<1> QED BY <1>1, <1>2, <1>3, <1>4, <1>5 DEF removeStep

\* The owner's call finds nothing to refuse: the synth has no supply.
LEMMA RemovalOnceDone ==
  ASSUME WholeInv, RemovalInv, performRemoval
  PROVE  RemovalInv'
<1>1. UNCHANGED <<supply, targets, cmd, todo, place, totals>>
  BY DEF performRemoval, synthRun
<1>2. PICK d \in deferred :
        /\ deferred' = deferred \ {d}
        /\ issuerHas' = IF issuerHas[d] # 0 /\ supply[d][issuerHas[d]] = 0
                        THEN [issuerHas EXCEPT ![d] = 0] ELSE issuerHas
  BY DEF performRemoval
<1>3. deferred \subseteq Keys /\ issuerHas \in [Keys -> 0 .. MaxCommands + 1]
  BY DEF WholeInv, SynthTypes
<1>4. issuerHas'[d] = 0 /\ \A k \in Keys : k # d => issuerHas'[k] = issuerHas[k]
  BY <1>2, <1>3 DEF RemovalInv
<1>5. key' = key
  BY <1>1 DEF key
<1>6. cmd = "remove" => key \in Keys
  BY InHand
<1> QED BY <1>1, <1>2, <1>3, <1>4, <1>5, <1>6 DEF RemovalInv, ForgottenSynthsAreRemoved

LEMMA RemovalWhileTraded ==
  ASSUME WholeInv, RemovalInv, RemovalsRest, trade
  PROVE  RemovalInv'
<1>1. UNCHANGED <<issuerHas, targets, deferred, cmd, todo, place, totals>>
  BY DEF trade, synthFiles, synthRun
<1>2. PICK k \in Keys :
        /\ k \notin deferred
        /\ \/ supply' = [supply EXCEPT ![k][issuerHas[k]] = @ - 1]
           \/ supply' = [supply EXCEPT ![k][issuerHas[k]] = @ + 1]
  BY DEF trade, RemovalsRest
<1>3. \A d \in deferred : supply'[d] = supply[d]
  BY <1>2 DEF WholeInv, SynthTypes
<1>4. key' = key
  BY <1>1 DEF key
<1> QED BY <1>1, <1>3, <1>4 DEF RemovalInv, ForgottenSynthsAreRemoved

LEMMA RemovalNext ==
  ASSUME WholeInv, RemovalInv, RemovalsRest, [SynthNext]_synthVars
  PROVE  RemovalInv'
<1>1. ASSUME refuse \/ interrupt PROVE RemovalInv'
  <2>1. UNCHANGED <<supply, issuerHas, targets, deferred>> /\ cmd' = "none"
    BY <1>1 DEF refuse, interrupt, endCommand, synthChain, synthFiles
  <2> QED BY <2>1 DEF RemovalInv, ForgottenSynthsAreRemoved
<1>2. ASSUME UNCHANGED synthVars PROVE RemovalInv'
  BY <1>2 DEF synthVars, synthChain, synthFiles, synthRun, RemovalInv,
              ForgottenSynthsAreRemoved, key
<1> QED BY <1>1, <1>2, RemovalWhileReplaced, RemovalWhilePurged, RemovalWhileRemoved,
           RemovalOnceDone, RemovalWhileTraded DEF SynthNext

\* deployment.json forgets a synth only when the Issuer has removed it or the owner
\* is asked to, wherever commands stopped, whatever was denied and whatever became
\* of synths that were replaced; and what the owner is asked the Issuer will not
\* refuse, as long as nobody issues the synth meanwhile (remove-synths.js:157
\* before :176).
THEOREM ForgottenIsRemoved ==
  ASSUME RemovalsRest
  PROVE  SynthSpec => []ForgottenSynthsAreRemoved
<1>1. SynthInit => RemovalInv
  BY RemovalInit
<1>2. WholeInv /\ RemovalInv /\ [SynthNext]_synthVars => RemovalInv'
  BY RemovalNext
<1>3. RemovalInv => ForgottenSynthsAreRemoved
  BY DEF RemovalInv
<1> QED BY <1>1, <1>2, <1>3, WholeInvariance, PTL DEF SynthSpec

------------------------------------------------------------------------------
(* The lists of markets. *)

Distinct(list) == \A i, j \in DOMAIN list : list[i] = list[j] => i = j

\* Sequences are functions on their indices, equal when their elements are.
LEMMA FunctionIsList ==
  ASSUME NEW n \in Nat, NEW f \in [1 .. n -> Markets]
  PROVE  f \in Seq(Markets) /\ Len(f) = n
OBVIOUS

LEMMA SameLists ==
  ASSUME NEW p \in Seq(Markets), NEW q \in Seq(Markets), Len(p) = Len(q),
         \A j \in 1 .. Len(p) : p[j] = q[j]
  PROVE  p = q
OBVIOUS

\* A part of a list from the place i on.
LEMMA PartOfList ==
  ASSUME NEW list \in Seq(Markets), NEW i \in Nat, NEW end \in Nat, end <= Len(list)
  PROVE  LET c == SubSeq(list, i + 1, end)
         IN  /\ c \in Seq(Markets)
             /\ Len(c) = IF i + 1 <= end THEN end - i ELSE 0
             /\ \A j \in 1 .. Len(c) : c[j] = list[i + j]
OBVIOUS

\* AddressListLib.remove leaves a list without repetitions shorter by one, and
\* without the market.
LEMMA RemoveFacts ==
  ASSUME NEW list \in Seq(Markets), Distinct(list), NEW m
  PROVE  /\ remove(list, m) \in Seq(Markets) /\ Distinct(remove(list, m))
         /\ Range(remove(list, m)) \subseteq Range(list) \ {m}
         /\ m \in Range(list) => Len(remove(list, m)) = Len(list) - 1
<1> DEFINE n == Len(list)
           r == remove(list, m)
<1>1. n \in Nat /\ DOMAIN list = 1 .. n /\ \A i \in 1 .. n : list[i] \in Markets
  OBVIOUS
<1>2. CASE n = 0
  <2>1. r = <<>>
    BY <1>1, <1>2 DEF remove
  <2> QED BY <1>1, <1>2, <2>1 DEF Distinct, Range
<1>3. CASE n # 0
  <2>1. n - 1 \in Nat /\ n \in 1 .. n /\ \A i \in 1 .. (n - 1) : i \in 1 .. n /\ i # n
    <3>1. n \in Nat /\ n # 0
      BY <1>1, <1>3
    <3> HIDE DEF n
    <3> QED BY <3>1
  <2>2. r = [i \in 1 .. (n - 1) |-> IF list[i] = m THEN list[n] ELSE list[i]]
    BY DEF remove
  <2> HIDE DEF r, n
  <2>3. \A i \in 1 .. (n - 1) : r[i] \in Markets
    BY <1>1, <2>1, <2>2
  <2>4. r \in Seq(Markets) /\ Len(r) = n - 1 /\ DOMAIN r = 1 .. (n - 1)
    BY <2>1, <2>2, <2>3
  <2>5. ASSUME NEW i \in 1 .. (n - 1) PROVE r[i] \in Range(list) /\ r[i] # m
    <3>1. list[n] # list[i]
      BY <1>1, <2>1 DEF Distinct
    <3> QED BY <1>1, <2>1, <2>2, <3>1 DEF Range
  <2>6. Distinct(r)
    BY <1>1, <2>1, <2>2, <2>4 DEF Distinct
  <2>7. Range(r) \subseteq Range(list) \ {m}
    BY <2>4, <2>5 DEF Range
  <2> QED BY <2>4, <2>6, <2>7 DEF r, n
<1> QED BY <1>2, <1>3

\* G has what is left of a list without the markets of q at the places in s.
Removes(G, list, q, X) ==
  G = [s \in X |-> IF s = {} THEN list ELSE remove(G[s \ {Max(s)}], q[Max(s)])]

\* The fold of the library is the recursive function that Removes describes.
LEMMA FoldDef ==
  ASSUME NEW list, NEW q
  PROVE  FoldLeft(remove, list, q) =
           (CHOOSE G : Removes(G, list, q, SUBSET (DOMAIN q)))[DOMAIN q]
BY DEF FoldLeft, MapThenFoldSet, Removes

\* The greatest place of a set of places is one of them.
LEMMA MaxOfPlaces ==
  ASSUME NEW n \in Nat, NEW s \in SUBSET (1 .. n), s # {}
  PROVE  /\ Max(s) \in s
         /\ s \ {Max(s)} \in SUBSET (1 .. n)
         /\ IsFiniteSet(s) /\ Cardinality(s) \in Nat
         /\ Cardinality(s \ {Max(s)}) = Cardinality(s) - 1
<1>1. s \in SUBSET (0 .. n)
  OBVIOUS
<1>2. Max(s) \in s
  BY <1>1, BoundedHasMax
<1>3. IsFiniteSet(s)
  <2>1. IsFiniteSet(1 .. n)
    BY FS_Interval
  <2> QED BY <2>1, FS_Subset
<1> QED BY <1>2, <1>3, FS_RemoveElement, FS_CardinalityType

\* The recursive function exists.
LEMMA RemovesExists ==
  ASSUME NEW list, NEW n \in Nat, NEW q
  PROVE  \E G : Removes(G, list, q, SUBSET (1 .. n))
<1> DEFINE Level(k) == {s \in SUBSET (1 .. n) : Cardinality(s) <= k}
           T == {k \in Nat : \E G : Removes(G, list, q, Level(k))}
<1>1. \A s \in SUBSET (1 .. n) : IsFiniteSet(s) /\ Cardinality(s) \in Nat
  <2>1. IsFiniteSet(1 .. n)
    BY FS_Interval
  <2> QED BY <2>1, FS_Subset, FS_CardinalityType
<1>2. 0 \in T
  <2> DEFINE G == [s \in Level(0) |-> list]
  <2>1. \A s \in Level(0) : s = {}
    BY <1>1, FS_EmptySet
  <2>2. G = [s \in Level(0) |-> IF s = {} THEN list
                                ELSE remove(G[s \ {Max(s)}], q[Max(s)])]
    BY <2>1
  <2> HIDE DEF G, Level
  <2> QED BY <2>2 DEF Removes
<1>3. ASSUME NEW k \in Nat, k \in T PROVE k + 1 \in T
  <2>1. PICK G : Removes(G, list, q, Level(k))
    BY <1>3
  <2> DEFINE H == [s \in Level(k + 1) |->
                     IF s = {} THEN list ELSE remove(G[s \ {Max(s)}], q[Max(s)])]
  <2>2. ASSUME NEW s \in Level(k + 1), s # {}
        PROVE  H[s \ {Max(s)}] = G[s \ {Max(s)}]
    <3> DEFINE u == s \ {Max(s)}
    <3>1. u \in Level(k) /\ u \in Level(k + 1)
      <4>1. u \in SUBSET (1 .. n) /\ Cardinality(u) = Cardinality(s) - 1
            /\ Cardinality(s) \in Nat /\ Cardinality(s) <= k + 1
        BY <2>2, MaxOfPlaces
      <4> QED BY <4>1
    <3> HIDE DEF Level, u
    <3>2. G[u] = IF u = {} THEN list ELSE remove(G[u \ {Max(u)}], q[Max(u)])
      BY <2>1, <3>1 DEF Removes
    <3> QED BY <3>1, <3>2 DEF u
  <2>3. H = [s \in Level(k + 1) |->
               IF s = {} THEN list ELSE remove(H[s \ {Max(s)}], q[Max(s)])]
    <3> HIDE DEF Level
    <3>1. \A s \in Level(k + 1) : s # {} => H[s \ {Max(s)}] = G[s \ {Max(s)}]
      BY <2>2
    <3> DEFINE K == [s \in Level(k + 1) |->
                       IF s = {} THEN list ELSE remove(H[s \ {Max(s)}], q[Max(s)])]
    <3>2. \A s \in Level(k + 1) : H[s] = K[s]
      BY <3>1
    <3> QED BY <3>2
  <2> HIDE DEF H, Level
  <2> QED BY <2>3 DEF Removes
<1> HIDE DEF T
<1>4. Nat \subseteq T
  BY <1>2, <1>3, NatSetInduction
<1>5. Level(n) = SUBSET (1 .. n)
  <2>1. IsFiniteSet(1 .. n) /\ Cardinality(1 .. n) = n
    BY FS_Interval
  <2> QED BY <1>1, <2>1, FS_Subset
<1> QED BY <1>4, <1>5 DEF T

\* What migrateMarkets leaves of a list: it has no repetitions, and none of the
\* markets of the chunk.
LEMMA RemovedAll ==
  ASSUME NEW list \in Seq(Markets), Distinct(list), NEW q \in Seq(Markets)
  PROVE  /\ FoldLeft(remove, list, q) \in Seq(Markets)
         /\ Distinct(FoldLeft(remove, list, q))
         /\ Range(FoldLeft(remove, list, q)) \subseteq Range(list) \ Range(q)
<1> DEFINE n == Len(q)
           G == CHOOSE G : Removes(G, list, q, SUBSET (1 .. n))
           Before(i) == {q[j] : j \in 1 .. i}
           T == {i \in Nat : i <= n =>
                   /\ G[1 .. i] \in Seq(Markets) /\ Distinct(G[1 .. i])
                   /\ Range(G[1 .. i]) \subseteq Range(list) \ Before(i)}
<1>1. n \in Nat /\ DOMAIN q = 1 .. n
  OBVIOUS
<1>2. Removes(G, list, q, SUBSET (1 .. n))
  BY <1>1, RemovesExists
<1>3. FoldLeft(remove, list, q) = G[1 .. n]
  BY <1>1, FoldDef
<1> HIDE DEF n, G
<1>4. 0 \in T
  <2>1. 1 .. 0 = {} /\ G[{}] = list
    BY <1>2 DEF Removes
  <2> QED BY <2>1
<1>5. ASSUME NEW i \in Nat, i \in T PROVE i + 1 \in T
  <2> SUFFICES ASSUME i + 1 <= n
               PROVE  /\ G[1 .. (i + 1)] \in Seq(Markets) /\ Distinct(G[1 .. (i + 1)])
                      /\ Range(G[1 .. (i + 1)]) \subseteq Range(list) \ Before(i + 1)
    OBVIOUS
  <2>1. /\ G[1 .. i] \in Seq(Markets) /\ Distinct(G[1 .. i])
        /\ Range(G[1 .. i]) \subseteq Range(list) \ Before(i)
    BY <1>1, <1>5
  <2>2. Max(1 .. (i + 1)) = i + 1
    <3>1. i + 1 \in 1 .. (i + 1) /\ \A y \in 1 .. (i + 1) : i + 1 >= y
      OBVIOUS
    <3>2. 1 .. (i + 1) \in SUBSET Int
      OBVIOUS
    <3> QED BY <3>1, <3>2, GreatestIsMax
  <2>3. /\ 1 .. (i + 1) \in SUBSET (1 .. n) /\ 1 .. (i + 1) # {}
        /\ (1 .. (i + 1)) \ {i + 1} = 1 .. i
    <3>1. n \in Nat /\ i + 1 <= n /\ i \in Nat
      BY <1>1
    <3>2. \A j : j \in 1 .. (i + 1) <=> j \in 1 .. i \/ j = i + 1
      OBVIOUS
    <3>3. i + 1 \notin 1 .. i /\ \A j \in 1 .. (i + 1) : j \in 1 .. n
      BY <3>1
    <3> QED BY <3>2, <3>3
  <2>4. G[1 .. (i + 1)] = remove(G[1 .. i], q[i + 1])
    BY <1>2, <2>2, <2>3 DEF Removes
  <2>5. Before(i + 1) = Before(i) \cup {q[i + 1]}
    <3>1. 1 .. (i + 1) = (1 .. i) \cup {i + 1}
      OBVIOUS
    <3> QED BY <3>1
  <2> HIDE DEF Before
  <2> QED BY <2>1, <2>4, <2>5, RemoveFacts
<1> HIDE DEF T
<1>6. n \in T
  BY <1>1, <1>4, <1>5, NatSetInduction
<1>7. Range(q) = Before(n)
  BY <1>1 DEF Range
<1> QED BY <1>1, <1>3, <1>6, <1>7 DEF T
------------------------------------------------------------------------------
(* The inductive invariant. *)

active == lists["source"]["active"]
matured == lists["source"]["matured"]

Managers == {"source", "target"}
ListNames == {"active", "matured"}

MarketTypes ==
  /\ lists \in [Managers -> [ListNames -> Seq(Markets)]]
  /\ fetched \in [ListNames -> Seq(Markets)]
  /\ counts \in [ListNames -> 0 .. 2 * FetchSize]
  /\ kind \in {1, 2} /\ at \in Nat
  /\ existed \subseteq Markets /\ older \subseteq existed

\* A market of the source is once on one of its lists.
SourceListsOK ==
  /\ Distinct(active) /\ Distinct(matured)
  /\ Range(active) \cap Range(matured) = {}
  /\ Range(active) \cup Range(matured) \subseteq existed

\* What was read of a list up to place i, against the list now. The list only
\* gets shorter; if it is still as long as it was counted, then what was read is
\* its beginning, and if as much was read as was counted, nothing of it is missing.
Copying(list, got, count, i) ==
  /\ Len(list) <= count /\ Len(got) <= i
  /\ i < count /\ Len(list) = count => got = SubSeq(list, 1, i)
  /\ i >= count /\ Len(got) = count =>
       /\ Range(list) \subseteq Range(got)
       /\ Range(got) \subseteq Range(list) => Len(list) = count

PageStarts == {0, FetchSize, 2 * FetchSize}

\* The markets of a list from a place on.
Ahead(list, i) == {list[j] : j \in (i + 1) .. Len(list)}

\* The active markets only get fewer. As soon as one that was read has left
\* their list the run cannot complete; until then the matured ones get fewer too.
ActiveIntact == Range(fetched["active"]) \subseteq Range(active)

CountingOK ==
  mig = "count" => /\ fetched = Nothing
                   /\ kind = 2 => Len(active) <= counts["active"]

FetchingActiveOK ==
  mig = "fetch" /\ kind = 1 =>
    /\ Copying(active, fetched["active"], counts["active"], at)
    /\ Len(active) = counts["active"] => Len(matured) <= counts["matured"]
    /\ fetched["matured"] = <<>>
    /\ at \in PageStarts

FetchingMaturedOK ==
  mig = "fetch" /\ kind = 2 =>
    /\ Range(active) \subseteq Range(fetched["active"])
    /\ ActiveIntact => Copying(matured, fetched["matured"], counts["matured"], at)
    /\ at \in PageStarts

ManagerOK ==
  mig = "manager" =>
    /\ Range(active) \subseteq Range(fetched["active"])
    /\ ActiveIntact => Range(matured) \subseteq Range(fetched["matured"])

MigratingActiveOK ==
  mig \in {"sync", "migrate"} /\ kind = 1 =>
    /\ Range(active) \subseteq Ahead(fetched["active"], at)
    /\ Ahead(fetched["active"], at) \subseteq Range(active) =>
         Range(matured) \subseteq Range(fetched["matured"])

MigratingMaturedOK ==
  mig \in {"sync", "migrate"} /\ kind = 2 =>
    /\ active = <<>>
    /\ Range(matured) \subseteq Ahead(fetched["matured"], at)

SourceIsLeft == mig = "done" => older \cap (Range(active) \cup Range(matured)) = {}

MarketInv ==
  /\ MarketTypes /\ SourceListsOK
  /\ CountingOK /\ FetchingActiveOK /\ FetchingMaturedOK /\ ManagerOK
  /\ MigratingActiveOK /\ MigratingMaturedOK /\ SourceIsLeft

\* No market is created while a run is in progress.
NothingCreated == ~CreatedDuring
------------------------------------------------------------------------------
(* Copying a list. *)

\* The two kinds of lists, in the order of the command.
LEMMA TheKinds ==
  /\ Range(Kinds) = ListNames
  /\ Len(Kinds) = 2 /\ Kinds[1] = "active" /\ Kinds[2] = "matured"
  /\ "active" # "matured" /\ "source" # "target"
<1>1. Len(Kinds) = 2 /\ Kinds[1] = "active" /\ Kinds[2] = "matured" /\ DOMAIN Kinds = {1, 2}
  BY DEF Kinds
<1> QED BY <1>1 DEF Range, ListNames

\* A list without repetitions fits two pages.
LEMMA FitsTwoPages ==
  ASSUME NEW list \in Seq(Markets), Distinct(list)
  PROVE  Len(list) \in 0 .. 2 * FetchSize
<1> DEFINE n == Len(list)
<1>1. n \in Nat /\ DOMAIN list = 1 .. n /\ list \in [1 .. n -> Markets]
  OBVIOUS
<1>2. list \in Injection(1 .. n, Markets)
  BY <1>1 DEF Injection, IsInjective, Distinct
<1> HIDE DEF n
<1>3. Cardinality(1 .. n) = n
  BY <1>1, FS_Interval
<1>4. n <= Cardinality(Markets) /\ Cardinality(Markets) \in Nat
  BY <1>2, <1>3, FS_Injection, FS_CardinalityType, MarketAssumption
<1> QED BY <1>1, <1>4, PageLimit, MarketAssumption DEF n

\* A market that leaves the list has been read if everything counted was.
LEMMA CopyingShrinks ==
  ASSUME NEW list \in Seq(Markets), Distinct(list), NEW got \in Seq(Markets),
         NEW count \in Nat, NEW i \in Nat, Copying(list, got, count, i),
         NEW m \in Range(list)
  PROVE  Copying(remove(list, m), got, count, i)
<1> DEFINE r == remove(list, m)
<1>1. Len(r) = Len(list) - 1 /\ Range(r) \subseteq Range(list) \ {m}
  BY RemoveFacts
<1>2. Len(list) \in Nat
  OBVIOUS
<1> HIDE DEF r
<1> QED BY <1>1, <1>2 DEF Copying, r

\* The first page starts the copy, the second completes it.
LEMMA PageCopied ==
  ASSUME NEW list \in Seq(Markets), Distinct(list), NEW got \in Seq(Markets),
         NEW count \in 0 .. 2 * FetchSize, NEW i \in {0, FetchSize},
         Copying(list, got, count, i), i < count
  PROVE  Copying(list, got \o page(list, i), count, i + FetchSize)
<1> DEFINE n == Len(list)
           F == FetchSize
           end == IF i + (i + F) > n THEN n ELSE i + (i + F)
           p == SubSeq(list, i + 1, end)
           q == got \o p
<1>1. n \in Nat /\ F \in Nat /\ F > 0 /\ count \in Nat /\ count <= 2 * F /\ n <= count
      /\ i \in Nat /\ Len(got) \in Nat /\ Len(got) <= i
  BY MarketAssumption DEF Copying
<1>2. page(list, i) = p
  BY DEF page, slice
<1>3. end \in Nat /\ end <= n /\ end <= i + (i + F)
      /\ (i = 0 => end <= F) /\ (i = F => end = n)
  BY <1>1
<1>4. /\ p \in Seq(Markets)
      /\ Len(p) = IF i + 1 <= end THEN end - i ELSE 0
      /\ \A j \in 1 .. Len(p) : p[j] = list[i + j]
  BY <1>1, <1>3, PartOfList
<1> HIDE DEF end, p
<1>5. /\ q \in Seq(Markets) /\ Len(q) = Len(got) + Len(p)
      /\ \A j \in 1 .. Len(q) : q[j] = IF j <= Len(got) THEN got[j] ELSE p[j - Len(got)]
  BY <1>4, ConcatProperties
<1>6. n = count => got = SubSeq(list, 1, i) /\ Len(got) = i /\ \A j \in 1 .. i : got[j] = list[j]
  <2> SUFFICES ASSUME n = count
               PROVE  got = SubSeq(list, 1, i) /\ Len(got) = i
                      /\ \A j \in 1 .. i : got[j] = list[j]
    OBVIOUS
  <2>1. got = SubSeq(list, 1, i)
    BY DEF Copying
  <2>2. i <= n
    BY <1>1
  <2> QED BY <1>1, <2>1, <2>2
<1> HIDE DEF n, F, q
<1>7. Len(q) <= i + F
  BY <1>1, <1>3, <1>4, <1>5
<1>8. ASSUME i + F < count, n = count PROVE q = SubSeq(list, 1, i + F)
  <2>1. i = 0 /\ end = F
    BY <1>1, <1>8 DEF end, F
  <2>2. Len(got) = 0 /\ Len(p) = F
    BY <1>1, <1>4, <1>6, <1>8, <2>1
  <2>3. Len(q) = F /\ \A j \in 1 .. F : q[j] = list[j]
    BY <1>1, <1>4, <1>5, <2>1, <2>2
  <2>4. /\ SubSeq(list, 1, F) \in Seq(Markets) /\ Len(SubSeq(list, 1, F)) = F
        /\ \A j \in 1 .. F : SubSeq(list, 1, F)[j] = list[j]
    BY <1>1, <1>8, <2>1 DEF n, F
  <2>5. SubSeq(list, 1, i + F) = SubSeq(list, 1, F) /\ q \in Seq(Markets)
    BY <1>1, <1>5, <2>1
  <2> QED BY <2>3, <2>4, <2>5, SameLists
<1>9. ASSUME i + F >= count, Len(q) = count PROVE n = count /\ Range(list) = Range(q)
  <2>1. end = n
    BY <1>1, <1>3, <1>9 DEF end, F
  <2>2. Len(got) <= i /\ i + 1 <= end /\ Len(p) = n - i
    BY <1>1, <1>4, <1>5, <1>9, <2>1
  <2>3. n = count
    BY <1>1, <1>5, <1>9, <2>2
  <2>4. \A j \in 1 .. n : q[j] = list[j]
    <3> TAKE j \in 1 .. n
    <3>1. CASE j <= i
      BY <1>1, <1>5, <1>6, <1>9, <2>3, <3>1
    <3>2. CASE j > i
      <4>1. Len(got) = i /\ j - i \in 1 .. Len(p) /\ i + (j - i) = j
        BY <1>1, <1>6, <2>2, <2>3, <3>2
      <4>2. q[j] = p[j - i]
        BY <1>1, <1>5, <1>9, <2>3, <3>2, <4>1
      <4>3. p[j - i] = list[i + (j - i)]
        BY <1>4, <4>1
      <4> QED BY <4>1, <4>2, <4>3
    <3> QED BY <1>1, <3>1, <3>2
  <2>5. DOMAIN list = 1 .. n
    BY DEF n
  <2>6. DOMAIN q = 1 .. n
    <3>1. Len(q) = n
      BY <1>9, <2>3
    <3>2. q \in Seq(Markets)
      BY <1>5
    <3> HIDE DEF q
    <3> QED BY <3>1, <3>2
  <2> QED BY <2>3, <2>4, <2>5, <2>6 DEF Range
<1>10. Copying(list, q, count, i + F)
  BY <1>1, <1>7, <1>8, <1>9 DEF Copying, n
<1> QED BY <1>2, <1>10 DEF q, F
------------------------------------------------------------------------------
(* The markets while a run is in progress. *)

\* The types that the lemmas below go by.
LEMMA SourceTypes ==
  MarketTypes =>
    /\ active \in Seq(Markets) /\ matured \in Seq(Markets)
    /\ fetched["active"] \in Seq(Markets) /\ fetched["matured"] \in Seq(Markets)
    /\ counts["active"] \in 0 .. 2 * FetchSize /\ counts["matured"] \in 0 .. 2 * FetchSize
    /\ counts["active"] \in Nat /\ counts["matured"] \in Nat
    /\ FetchSize \in Nat /\ at \in Nat /\ kind \in {1, 2}
BY MarketAssumption DEF MarketTypes, active, matured, Managers, ListNames

\* A market leaves the list of matured ones.
LEMMA MaturedEnds ==
  ASSUME MarketInv, MarketTypes', SourceListsOK',
         UNCHANGED <<mig, kind, at, counts, fetched, older>>, active' = active,
         NEW m \in Range(matured), matured' = remove(matured, m)
  PROVE  MarketInv'
<1>1. MarketTypes /\ SourceListsOK
  BY DEF MarketInv
<1>2. /\ active \in Seq(Markets) /\ matured \in Seq(Markets)
      /\ fetched["matured"] \in Seq(Markets) /\ counts["matured"] \in Nat /\ at \in Nat
      /\ Distinct(matured)
  BY <1>1, SourceTypes DEF SourceListsOK
<1>3. Len(matured') = Len(matured) - 1 /\ Range(matured') \subseteq Range(matured)
      /\ Len(matured) \in Nat
  BY <1>2, RemoveFacts
<1>4. CountingOK'
  BY DEF MarketInv, CountingOK
<1>5. FetchingActiveOK'
  BY <1>2, <1>3 DEF MarketInv, FetchingActiveOK, Copying
<1>6. FetchingMaturedOK'
  <2>1. ASSUME Copying(matured, fetched["matured"], counts["matured"], at)
        PROVE  Copying(matured', fetched["matured"], counts["matured"], at)
    BY <1>2, <2>1, CopyingShrinks
  <2>2. ActiveIntact' <=> ActiveIntact
    BY DEF ActiveIntact
  <2>3. mig = "fetch" /\ kind = 2 =>
          /\ Range(active) \subseteq Range(fetched["active"])
          /\ ActiveIntact => Copying(matured, fetched["matured"], counts["matured"], at)
          /\ at \in PageStarts
    BY DEF MarketInv, FetchingMaturedOK
  <2>4. ActiveIntact' /\ mig = "fetch" /\ kind = 2 =>
          Copying(matured', fetched'["matured"], counts'["matured"], at')
    BY <2>1, <2>2, <2>3
  <2> QED BY <2>3, <2>4 DEF FetchingMaturedOK, Copying
<1>7. ManagerOK'
  BY <1>3 DEF MarketInv, ManagerOK, ActiveIntact
<1>8. MigratingActiveOK' /\ MigratingMaturedOK'
  BY <1>3 DEF MarketInv, MigratingActiveOK, MigratingMaturedOK, Ahead
<1>9. SourceIsLeft'
  BY <1>3 DEF MarketInv, SourceIsLeft
<1> QED BY <1>4, <1>5, <1>6, <1>7, <1>8, <1>9 DEF MarketInv

\* A market leaves the list of active ones, whether it matures or is cancelled:
\* a run that has counted it will not complete.
LEMMA ActiveLeaves ==
  ASSUME MarketInv, MarketTypes', SourceListsOK',
         UNCHANGED <<mig, kind, at, counts, fetched, older>>,
         NEW m \in Range(active), active' = remove(active, m),
         Range(matured') \subseteq Range(matured) \cup {m}
  PROVE  MarketInv'
<1>1. MarketTypes /\ SourceListsOK
  BY DEF MarketInv
<1>2. /\ active \in Seq(Markets) /\ fetched["active"] \in Seq(Markets)
      /\ counts["active"] \in Nat /\ at \in Nat /\ Distinct(active)
  BY <1>1, SourceTypes DEF SourceListsOK
<1>3. Len(active') = Len(active) - 1 /\ Range(active') \subseteq Range(active) \ {m}
      /\ Len(active) \in Nat
  BY <1>2, RemoveFacts
<1>4. CountingOK'
  BY <1>2, <1>3 DEF MarketInv, CountingOK
<1>5. FetchingActiveOK'
  <2> SUFFICES ASSUME mig = "fetch", kind = 1 PROVE FetchingActiveOK'
    BY DEF FetchingActiveOK
  <2>1. Copying(active, fetched["active"], counts["active"], at)
    BY DEF MarketInv, FetchingActiveOK
  <2>2. Copying(active', fetched["active"], counts["active"], at)
    BY <1>2, <2>1, CopyingShrinks
  <2>3. Len(active') < counts["active"]
    BY <1>2, <1>3, <2>1 DEF Copying
  <2>4. Len(active') # counts'["active"]
    BY <1>2, <1>3, <2>3
  <2> QED BY <2>2, <2>4 DEF MarketInv, FetchingActiveOK, Copying
<1>6. ASSUME Range(active) \subseteq Range(fetched["active"])
      PROVE  ~ActiveIntact' /\ Range(active') \subseteq Range(fetched'["active"])
  BY <1>3, <1>6 DEF ActiveIntact
<1>7. FetchingMaturedOK'
  BY <1>6 DEF MarketInv, FetchingMaturedOK
<1>8. ManagerOK'
  BY <1>6 DEF MarketInv, ManagerOK
<1>9. MigratingActiveOK'
  <2> SUFFICES ASSUME mig \in {"sync", "migrate"}, kind = 1 PROVE MigratingActiveOK'
    BY DEF MigratingActiveOK
  <2>1. Range(active) \subseteq Ahead(fetched["active"], at)
    BY DEF MarketInv, MigratingActiveOK
  <2>2. /\ Range(active') \subseteq Ahead(fetched["active"], at)
        /\ ~(Ahead(fetched["active"], at) \subseteq Range(active'))
    BY <1>3, <2>1
  <2> QED BY <2>2 DEF MigratingActiveOK, Ahead
<1>10. MigratingMaturedOK'
  <2>1. active # <<>>
    BY DEF Range
  <2> QED BY <2>1 DEF MarketInv, MigratingMaturedOK
<1>11. SourceIsLeft'
  BY <1>3 DEF MarketInv, SourceIsLeft
<1> QED BY <1>4, <1>5, <1>7, <1>8, <1>9, <1>10, <1>11 DEF MarketInv

\* Nothing of the source or of the run changes.
LEMMA SourceUntouched ==
  ASSUME MarketInv, MarketTypes',
         UNCHANGED <<existed, mig, kind, at, counts, fetched, older>>,
         active' = active, matured' = matured
  PROVE  MarketInv'
<1>1. SourceListsOK'
  BY DEF MarketInv, SourceListsOK
<1>2. CountingOK' /\ FetchingActiveOK'
  BY DEF MarketInv, CountingOK, FetchingActiveOK, Copying
<1>3. FetchingMaturedOK' /\ ManagerOK'
  BY DEF MarketInv, FetchingMaturedOK, ManagerOK, ActiveIntact, Copying
<1>4. MigratingActiveOK' /\ MigratingMaturedOK' /\ SourceIsLeft'
  BY DEF MarketInv, MigratingActiveOK, MigratingMaturedOK, SourceIsLeft, Ahead
<1> QED BY <1>1, <1>2, <1>3, <1>4 DEF MarketInv
------------------------------------------------------------------------------
(* What users do, and runs that stop. *)

\* Removing a market from any list leaves a list.
LEMMA RemoveIsList ==
  ASSUME NEW list \in Seq(Markets), NEW m
  PROVE  remove(list, m) \in Seq(Markets)
<1> DEFINE n == Len(list)
           r == remove(list, m)
<1>1. n \in Nat /\ \A i \in 1 .. n : list[i] \in Markets
  OBVIOUS
<1>2. CASE n = 0
  <2>1. r = <<>>
    BY <1>1, <1>2 DEF remove
  <2> QED BY <2>1
<1>3. CASE n # 0
  <2>1. r = [i \in 1 .. (n - 1) |-> IF list[i] = m THEN list[n] ELSE list[i]]
    BY DEF remove
  <2> HIDE DEF r, n
  <2>2. n - 1 \in Nat /\ n \in 1 .. n /\ \A i \in 1 .. (n - 1) : i \in 1 .. n
    BY <1>1, <1>3
  <2>3. \A i \in 1 .. (n - 1) : r[i] \in Markets
    BY <1>1, <2>1, <2>2
  <2>4. r \in Seq(Markets)
    BY <2>1, <2>2, <2>3, FunctionIsList
  <2> QED BY <2>4 DEF r
<1> QED BY <1>2, <1>3

\* A market is appended that is not on the list.
LEMMA AppendFacts ==
  ASSUME NEW list \in Seq(Markets), NEW m \in Markets
  PROVE  /\ Append(list, m) \in Seq(Markets)
         /\ Range(Append(list, m)) = Range(list) \cup {m}
         /\ Distinct(list) /\ m \notin Range(list) => Distinct(Append(list, m))
<1> DEFINE n == Len(list)
           a == Append(list, m)
<1>1. /\ a \in Seq(Markets) /\ n \in Nat /\ DOMAIN list = 1 .. n /\ DOMAIN a = 1 .. (n + 1)
      /\ a[n + 1] = m /\ \A i \in 1 .. n : a[i] = list[i]
  OBVIOUS
<1> HIDE DEF a, n
<1>2. \A i : i \in 1 .. (n + 1) <=> i \in 1 .. n \/ i = n + 1
  BY <1>1
<1>3. Range(a) = Range(list) \cup {m}
  BY <1>1, <1>2 DEF Range
<1>4. Distinct(list) /\ m \notin Range(list) => Distinct(a)
  BY <1>1, <1>2 DEF Distinct, Range
<1> QED BY <1>1, <1>3, <1>4 DEF a

\* The lists of another manager change.
LEMMA EndedElsewhere ==
  ASSUME MarketInv, NEW o \in DOMAIN lists, o # "source",
         NEW after \in [ListNames -> Seq(Markets)], lists' = [lists EXCEPT ![o] = after],
         UNCHANGED <<existed, mig, kind, at, counts, fetched, older>>
  PROVE  MarketInv'
<1>1. MarketTypes /\ o \in Managers /\ "source" \in Managers
  BY DEF MarketInv, MarketTypes, Managers
<1>2. lists' \in [Managers -> [ListNames -> Seq(Markets)]] /\ lists'["source"] = lists["source"]
  BY <1>1 DEF MarketTypes
<1>3. MarketTypes' /\ active' = active /\ matured' = matured
  BY <1>1, <1>2 DEF MarketTypes, active, matured
<1> QED BY <1>3, SourceUntouched

\* A bidding, trading or expired market is resolved or cancelled.
LEMMA MarketResolved == MarketInv /\ resolveMarket => MarketInv'
<1> SUFFICES ASSUME MarketInv, resolveMarket PROVE MarketInv'
  OBVIOUS
<1>1. PICK o \in DOMAIN lists, m \in Markets :
        /\ m \in Range(lists[o]["active"])
        /\ lists' = [lists EXCEPT ![o]["active"] = remove(@, m),
                                  ![o]["matured"] = Append(@, m)]
  BY DEF resolveMarket
<1>2. UNCHANGED <<existed, mig, kind, at, counts, fetched, older>>
  BY DEF resolveMarket
<1>3. MarketTypes /\ SourceListsOK
  BY DEF MarketInv
<1> DEFINE l1 == remove(lists[o]["active"], m)
           l2 == Append(lists[o]["matured"], m)
           after == [lists[o] EXCEPT !["active"] = l1, !["matured"] = l2]
<1>4. /\ lists[o]["active"] \in Seq(Markets) /\ lists[o]["matured"] \in Seq(Markets)
      /\ lists[o] \in [ListNames -> Seq(Markets)] /\ o \in Managers
      /\ "active" \in ListNames /\ "matured" \in ListNames /\ "active" # "matured"
      /\ lists \in [Managers -> [ListNames -> Seq(Markets)]]
  BY <1>3 DEF MarketTypes, ListNames
<1>5. l1 \in Seq(Markets) /\ l2 \in Seq(Markets)
  BY <1>4, RemoveIsList, AppendFacts
<1>6. lists' = [lists EXCEPT ![o] = after]
  BY <1>1, <1>4
<1> HIDE DEF l1, l2
<1>7. after \in [ListNames -> Seq(Markets)] /\ after["active"] = l1 /\ after["matured"] = l2
  BY <1>4, <1>5
<1> HIDE DEF after
<1>8. CASE o # "source"
  BY <1>2, <1>6, <1>7, <1>8, EndedElsewhere
<1>9. CASE o = "source"
  <2>1. lists'["source"] = after /\ lists' \in [Managers -> [ListNames -> Seq(Markets)]]
    BY <1>4, <1>6, <1>7, <1>9
  <2>2. active' = remove(active, m) /\ matured' = Append(matured, m) /\ m \in Range(active)
    BY <1>1, <1>7, <1>9, <2>1 DEF active, matured, l1, l2
  <2>3. MarketTypes'
    BY <1>2, <1>3, <2>1 DEF MarketTypes
  <2>4. active \in Seq(Markets) /\ matured \in Seq(Markets)
    BY <1>3, SourceTypes
  <2>5. /\ Distinct(active') /\ Range(active') \subseteq Range(active) \ {m}
        /\ Range(matured') = Range(matured) \cup {m} /\ Distinct(matured')
    BY <1>3, <2>2, <2>4, RemoveFacts, AppendFacts DEF SourceListsOK
  <2>6. SourceListsOK'
    BY <1>2, <1>3, <2>2, <2>5 DEF SourceListsOK
  <2> QED BY <1>2, <2>2, <2>3, <2>5, <2>6, ActiveLeaves
<1> QED BY <1>8, <1>9

\* A market is cancelled, or expires.
LEMMA MarketEnded == MarketInv /\ endMarket => MarketInv'
<1> SUFFICES ASSUME MarketInv, endMarket PROVE MarketInv'
  OBVIOUS
<1>1. PICK o \in DOMAIN lists, k \in ListNames, m \in Markets :
        /\ m \in Range(lists[o][k])
        /\ lists' = [lists EXCEPT ![o][k] = remove(@, m)]
  BY TheKinds DEF endMarket
<1>2. UNCHANGED <<existed, mig, kind, at, counts, fetched, older>>
  BY DEF endMarket
<1>3. MarketTypes /\ SourceListsOK
  BY DEF MarketInv
<1> DEFINE l == remove(lists[o][k], m)
           after == [lists[o] EXCEPT ![k] = l]
<1>4. /\ lists[o][k] \in Seq(Markets)
      /\ lists[o] \in [ListNames -> Seq(Markets)] /\ o \in Managers
      /\ "active" \in ListNames /\ "matured" \in ListNames /\ "active" # "matured"
      /\ lists \in [Managers -> [ListNames -> Seq(Markets)]]
  BY <1>3 DEF MarketTypes, ListNames
<1>5. l \in Seq(Markets)
  BY <1>4, RemoveIsList
<1>6. lists' = [lists EXCEPT ![o] = after]
  BY <1>1, <1>4
<1> HIDE DEF l
<1>7. /\ after \in [ListNames -> Seq(Markets)] /\ after[k] = l
      /\ \A other \in ListNames : other # k => after[other] = lists[o][other]
  BY <1>4, <1>5
<1> HIDE DEF after
<1>8. CASE o # "source"
  BY <1>2, <1>6, <1>7, <1>8, EndedElsewhere
<1>9. CASE o = "source"
  <2>1. lists'["source"] = after /\ lists' \in [Managers -> [ListNames -> Seq(Markets)]]
    BY <1>4, <1>6, <1>7, <1>9
  <2>2. MarketTypes'
    BY <1>2, <1>3, <2>1 DEF MarketTypes
  <2>3. active \in Seq(Markets) /\ matured \in Seq(Markets)
    BY <1>3, SourceTypes
  <2>4. CASE k = "active"
    <3>1. active' = remove(active, m) /\ matured' = matured /\ m \in Range(active)
      BY <1>1, <1>4, <1>7, <1>9, <2>1, <2>4 DEF active, matured, l
    <3>2. Distinct(active') /\ Range(active') \subseteq Range(active) \ {m}
      BY <1>3, <2>3, <3>1, RemoveFacts DEF SourceListsOK
    <3>3. SourceListsOK'
      BY <1>2, <1>3, <3>1, <3>2 DEF SourceListsOK
    <3> QED BY <1>2, <2>2, <3>1, <3>3, ActiveLeaves
  <2>5. CASE k = "matured"
    <3>1. matured' = remove(matured, m) /\ active' = active /\ m \in Range(matured)
      BY <1>1, <1>4, <1>7, <1>9, <2>1, <2>5 DEF active, matured, l
    <3>2. Distinct(matured') /\ Range(matured') \subseteq Range(matured) \ {m}
      BY <1>3, <2>3, <3>1, RemoveFacts DEF SourceListsOK
    <3>3. SourceListsOK'
      BY <1>2, <1>3, <3>1, <3>2 DEF SourceListsOK
    <3> QED BY <1>2, <2>2, <3>1, <3>3, MaturedEnds
  <2> QED BY <2>4, <2>5 DEF ListNames
<1> QED BY <1>8, <1>9

\* A market is created between two runs.
LEMMA MarketCreated == MarketInv /\ NothingCreated /\ createMarket => MarketInv'
<1> SUFFICES ASSUME MarketInv, NothingCreated, createMarket PROVE MarketInv'
  OBVIOUS
<1>1. PICK m \in Markets \ existed :
        /\ lists' = [lists EXCEPT !["source"]["active"] = Append(@, m)]
        /\ existed' = existed \cup {m}
  BY DEF createMarket
<1>2. /\ mig \in {"idle", "done"}
      /\ UNCHANGED <<mig, kind, at, counts, fetched, older>>
  BY DEF createMarket, NothingCreated
<1>3. MarketTypes /\ SourceListsOK
  BY DEF MarketInv
<1>4. active \in Seq(Markets) /\ matured \in Seq(Markets)
  BY <1>3, SourceTypes
<1>5. /\ lists \in [Managers -> [ListNames -> Seq(Markets)]] /\ "source" \in Managers
      /\ "active" \in ListNames /\ "matured" \in ListNames /\ "active" # "matured"
  BY <1>3 DEF MarketTypes, Managers, ListNames
<1>6. Append(active, m) \in Seq(Markets) /\ Range(Append(active, m)) = Range(active) \cup {m}
  BY <1>4, AppendFacts
<1>7. active' = Append(active, m) /\ matured' = matured
  BY <1>1, <1>5 DEF active, matured
<1>8. lists' \in [Managers -> [ListNames -> Seq(Markets)]]
  BY <1>1, <1>5, <1>6 DEF active
<1>9. MarketTypes'
  BY <1>1, <1>2, <1>3, <1>8 DEF MarketTypes
<1>10. Distinct(active') /\ m \notin Range(active) \cup Range(matured)
  BY <1>1, <1>3, <1>4, <1>7, AppendFacts DEF SourceListsOK
<1>11. SourceListsOK'
  BY <1>1, <1>3, <1>6, <1>7, <1>10 DEF SourceListsOK
<1>12. SourceIsLeft'
  <2>1. m \notin older
    BY <1>1, <1>3 DEF MarketTypes
  <2> QED BY <1>2, <1>6, <1>7, <2>1 DEF MarketInv, SourceIsLeft
<1> QED BY <1>2, <1>9, <1>11, <1>12
        DEF MarketInv, CountingOK, FetchingActiveOK, FetchingMaturedOK, ManagerOK,
            MigratingActiveOK, MigratingMaturedOK
------------------------------------------------------------------------------
(* The run. *)

\* The markets of the source are those of its two lists.
LEMMA MarketsOfSource == marketsOf("source") = Range(active) \cup Range(matured)
BY TheKinds DEF marketsOf, active, matured, ListNames

\* Nothing is read yet.
LEMMA NothingRead ==
  /\ Nothing \in [ListNames -> Seq(Markets)]
  /\ Nothing["active"] = <<>> /\ Nothing["matured"] = <<>>
BY TheKinds DEF Nothing, ListNames

\* All of a list is ahead of its first place, and nothing of its end.
LEMMA AheadFacts ==
  ASSUME NEW list \in Seq(Markets), NEW i \in Nat
  PROVE  /\ Ahead(list, 0) = Range(list)
         /\ i >= Len(list) => Ahead(list, i) = {}
<1>1. Len(list) \in Nat /\ DOMAIN list = 1 .. Len(list)
  OBVIOUS
<1>2. Ahead(list, 0) = Range(list)
  BY <1>1 DEF Ahead, Range
<1>3. i >= Len(list) => (i + 1) .. Len(list) = {}
  BY <1>1
<1> QED BY <1>2, <1>3 DEF Ahead

\* A run that throws leaves everything to the next.
LEMMA RunEnds ==
  ASSUME MarketInv, throws, UNCHANGED <<lists, existed, counts, fetched, older>>
  PROVE  MarketInv'
<1>1. MarketTypes' /\ SourceListsOK'
  BY DEF MarketInv, MarketTypes, SourceListsOK, active, matured, throws, run
<1> QED BY <1>1 DEF MarketInv, throws, run, CountingOK, FetchingActiveOK, FetchingMaturedOK,
                    ManagerOK, MigratingActiveOK, MigratingMaturedOK, SourceIsLeft

\* getMarkets asks for the numbers first.
LEMMA RunStarts == MarketInv /\ startMigration => MarketInv'
<1> SUFFICES ASSUME MarketInv, startMigration PROVE MarketInv'
  OBVIOUS
<1>1. /\ mig' = "count" /\ kind' = 1 /\ at' = 0 /\ fetched' = Nothing
      /\ older' = Range(active) \cup Range(matured)
      /\ UNCHANGED <<lists, existed, counts>>
  BY MarketsOfSource DEF startMigration, run, marketChain
<1>2. MarketTypes /\ SourceListsOK
  BY DEF MarketInv
<1>3. MarketTypes'
  BY <1>1, <1>2, NothingRead DEF MarketTypes, SourceListsOK
<1>4. SourceListsOK'
  BY <1>1, <1>2 DEF SourceListsOK, active, matured
<1> QED BY <1>1, <1>3, <1>4
        DEF MarketInv, CountingOK, FetchingActiveOK, FetchingMaturedOK, ManagerOK,
            MigratingActiveOK, MigratingMaturedOK, SourceIsLeft

\* The active markets are counted, then the matured ones.
LEMMA Counted == MarketInv /\ countMarkets => MarketInv'
<1> SUFFICES ASSUME MarketInv, countMarkets PROVE MarketInv'
  OBVIOUS
<1>1. /\ MarketTypes /\ SourceListsOK /\ fetched = Nothing /\ mig = "count"
      /\ UNCHANGED <<lists, existed, fetched, older>>
      /\ counts' = [counts EXCEPT ![now] = Len(lists["source"][now])]
      /\ nextList("count", "fetch")
  BY DEF MarketInv, CountingOK, countMarkets, marketChain
<1>2. active \in Seq(Markets) /\ matured \in Seq(Markets) /\ kind \in {1, 2}
      /\ "active" \in ListNames /\ "matured" \in ListNames
  BY <1>1, SourceTypes DEF ListNames
<1>3. Len(active) \in 0 .. 2 * FetchSize /\ Len(matured) \in 0 .. 2 * FetchSize
  BY <1>1, <1>2, FitsTwoPages DEF SourceListsOK
<1>4. SourceListsOK'
  BY <1>1 DEF SourceListsOK, active, matured
<1>5. CASE kind = 1
  <2>1. /\ counts' = [counts EXCEPT !["active"] = Len(active)]
        /\ mig' = "count" /\ kind' = 2 /\ at' = 0
    BY <1>1, <1>5, TheKinds DEF now, nextList, run, active
  <2>2. counts'["active"] = Len(active) /\ counts' \in [ListNames -> 0 .. 2 * FetchSize]
    BY <1>1, <1>2, <1>3, <2>1 DEF MarketTypes
  <2>3. MarketTypes'
    BY <1>1, <2>1, <2>2 DEF MarketTypes
  <2>4. active' = active /\ Len(active) \in Nat
    BY <1>1, <1>2 DEF active
  <2>5. CountingOK'
    BY <1>1, <2>1, <2>2, <2>4 DEF CountingOK, Nothing
  <2> QED BY <1>4, <2>1, <2>3, <2>5
          DEF MarketInv, FetchingActiveOK, FetchingMaturedOK, ManagerOK,
              MigratingActiveOK, MigratingMaturedOK, SourceIsLeft
<1>6. CASE kind = 2
  <2>1. /\ counts' = [counts EXCEPT !["matured"] = Len(matured)]
        /\ mig' = "fetch" /\ kind' = 1 /\ at' = 0
    BY <1>1, <1>6, TheKinds DEF now, nextList, run, matured
  <2>2. /\ counts'["matured"] = Len(matured) /\ counts'["active"] = counts["active"]
        /\ counts' \in [ListNames -> 0 .. 2 * FetchSize]
    BY <1>1, <1>2, <1>3, <2>1, TheKinds DEF MarketTypes
  <2>3. MarketTypes'
    BY <1>1, <2>1, <2>2 DEF MarketTypes
  <2>4. /\ active' = active /\ matured' = matured
        /\ fetched'["active"] = <<>> /\ fetched'["matured"] = <<>>
    BY <1>1, NothingRead DEF active, matured
  <2>5. Len(active) <= counts["active"] /\ counts["active"] \in Nat
    BY <1>1, <1>6, SourceTypes DEF MarketInv, CountingOK
  <2>6. Copying(active, <<>>, counts["active"], 0)
    <3>1. SubSeq(active, 1, 0) = <<>> /\ Len(<<>>) = 0
      BY <1>2
    <3>2. counts["active"] = 0 => Range(active) = {} /\ Len(active) = 0
      BY <1>2, <2>5 DEF Range
    <3> QED BY <1>2, <2>5, <3>1, <3>2 DEF Copying
  <2>7. Copying(active', fetched'["active"], counts'["active"], at')
    BY <2>1, <2>2, <2>4, <2>6
  <2>8. Len(matured') <= counts'["matured"]
    BY <1>2, <2>2, <2>4
  <2>9. FetchingActiveOK'
    BY <2>1, <2>4, <2>7, <2>8 DEF FetchingActiveOK, Copying, PageStarts
  <2> QED BY <1>4, <2>1, <2>3, <2>9
          DEF MarketInv, CountingOK, FetchingMaturedOK, ManagerOK,
              MigratingActiveOK, MigratingMaturedOK, SourceIsLeft
<1> QED BY <1>2, <1>5, <1>6

\* A page of a list is read.
LEMMA PageFetched == MarketInv /\ fetchPage => MarketInv'
<1> SUFFICES ASSUME MarketInv, fetchPage PROVE MarketInv'
  OBVIOUS
<1>1. /\ MarketTypes /\ SourceListsOK /\ mig = "fetch" /\ at < counts[now]
      /\ UNCHANGED <<lists, existed, counts, older>>
      /\ fetched' = [fetched EXCEPT ![now] = @ \o page(lists["source"][now], at)]
      /\ mig' = "fetch" /\ kind' = kind /\ at' = at + FetchSize
  BY DEF MarketInv, fetchPage, marketChain, run
<1>2. /\ active \in Seq(Markets) /\ matured \in Seq(Markets) /\ kind \in {1, 2}
      /\ fetched["active"] \in Seq(Markets) /\ fetched["matured"] \in Seq(Markets)
      /\ counts["active"] \in 0 .. 2 * FetchSize /\ counts["matured"] \in 0 .. 2 * FetchSize
      /\ FetchSize \in Nat /\ at \in Nat
      /\ Distinct(active) /\ Distinct(matured)
      /\ "active" \in ListNames /\ "matured" \in ListNames
  BY <1>1, SourceTypes DEF SourceListsOK, ListNames
<1>3. active' = active /\ matured' = matured /\ SourceListsOK'
  BY <1>1 DEF SourceListsOK, active, matured
<1>4. ASSUME NEW list \in Seq(Markets), NEW i \in Nat PROVE page(list, i) \in Seq(Markets)
  BY <1>2 DEF page, slice
<1>5. at \in PageStarts
  BY <1>1, <1>2 DEF MarketInv, FetchingActiveOK, FetchingMaturedOK
<1>6. at \in {0, FetchSize} /\ at' \in PageStarts
  <2>1. counts[now] \in 0 .. 2 * FetchSize
    BY <1>2, TheKinds DEF now
  <2> QED BY <1>1, <1>2, <1>5, <2>1 DEF PageStarts
<1>7. CASE kind = 1
  <2>1. now = "active"
    BY <1>7, TheKinds DEF now
  <2> DEFINE got == fetched["active"] \o page(active, at)
  <2>2. got \in Seq(Markets)
    BY <1>2, <1>4
  <2>3. fetched' = [fetched EXCEPT !["active"] = got]
    BY <1>1, <2>1 DEF active
  <2>4. Copying(active, got, counts["active"], at + FetchSize)
    <3>1. Copying(active, fetched["active"], counts["active"], at)
      BY <1>1, <1>7 DEF MarketInv, FetchingActiveOK
    <3>2. at < counts["active"]
      BY <1>1, <2>1
    <3> QED BY <1>2, <1>6, <3>1, <3>2, PageCopied
  <2> HIDE DEF got
  <2>5. /\ fetched' \in [ListNames -> Seq(Markets)]
        /\ fetched'["active"] = got /\ fetched'["matured"] = fetched["matured"]
    BY <1>1, <1>2, <2>2, <2>3, TheKinds DEF MarketTypes
  <2>6. MarketTypes'
    BY <1>1, <1>2, <2>5 DEF MarketTypes
  <2>7. /\ Len(active) = counts["active"] => Len(matured) <= counts["matured"]
        /\ fetched["matured"] = <<>>
    BY <1>1, <1>7 DEF MarketInv, FetchingActiveOK
  <2>8. FetchingActiveOK'
    <3>1. Copying(active', fetched'["active"], counts'["active"], at')
      BY <1>1, <1>3, <2>4, <2>5
    <3> QED BY <1>1, <1>3, <1>6, <2>5, <2>7, <3>1 DEF FetchingActiveOK, Copying, PageStarts
  <2> QED BY <1>1, <1>3, <1>7, <2>6, <2>8
          DEF MarketInv, CountingOK, FetchingMaturedOK, ManagerOK,
              MigratingActiveOK, MigratingMaturedOK, SourceIsLeft
<1>8. CASE kind = 2
  <2>1. now = "matured"
    BY <1>8, TheKinds DEF now
  <2> DEFINE got == fetched["matured"] \o page(matured, at)
  <2>2. got \in Seq(Markets)
    BY <1>2, <1>4
  <2>3. fetched' = [fetched EXCEPT !["matured"] = got]
    BY <1>1, <2>1 DEF matured
  <2>4. /\ Range(active) \subseteq Range(fetched["active"])
        /\ ActiveIntact => Copying(matured, fetched["matured"], counts["matured"], at)
    BY <1>1, <1>8 DEF MarketInv, FetchingMaturedOK
  <2>5. ActiveIntact => Copying(matured, got, counts["matured"], at + FetchSize)
    <3>1. at < counts["matured"]
      BY <1>1, <2>1
    <3> QED BY <1>2, <1>6, <2>4, <3>1, PageCopied
  <2> HIDE DEF got
  <2>6. /\ fetched' \in [ListNames -> Seq(Markets)]
        /\ fetched'["matured"] = got /\ fetched'["active"] = fetched["active"]
    BY <1>1, <1>2, <2>2, <2>3, TheKinds DEF MarketTypes
  <2>7. MarketTypes'
    BY <1>1, <1>2, <2>6 DEF MarketTypes
  <2>8. FetchingMaturedOK'
    <3>1. ActiveIntact' <=> ActiveIntact
      BY <1>3, <2>6 DEF ActiveIntact
    <3>2. ActiveIntact' => Copying(matured', fetched'["matured"], counts'["matured"], at')
      BY <1>1, <1>3, <2>5, <2>6, <3>1
    <3>3. Range(active') \subseteq Range(fetched'["active"])
      BY <1>3, <2>4, <2>6
    <3> QED BY <1>1, <1>3, <1>6, <3>2, <3>3 DEF FetchingMaturedOK, Copying, PageStarts
  <2> QED BY <1>1, <1>3, <1>8, <2>7, <2>8
          DEF MarketInv, CountingOK, FetchingActiveOK, ManagerOK,
              MigratingActiveOK, MigratingMaturedOK, SourceIsLeft
<1> QED BY <1>2, <1>7, <1>8
------------------------------------------------------------------------------
(* The run hands the markets over. *)

\* A list has as many markets as were counted: then nothing of it is missing.
LEMMA ListChecked == MarketInv /\ checkFetched => MarketInv'
<1> SUFFICES ASSUME MarketInv, checkFetched PROVE MarketInv'
  OBVIOUS
<1>1. /\ MarketTypes /\ mig = "fetch" /\ at >= counts[now]
      /\ UNCHANGED <<lists, existed, counts, fetched, older>>
      /\ IF Len(fetched[now]) = counts[now] THEN nextList("fetch", "manager") ELSE throws
  BY DEF MarketInv, checkFetched, marketChain, allFetched
<1>2. /\ active \in Seq(Markets) /\ matured \in Seq(Markets) /\ kind \in {1, 2}
      /\ counts["matured"] \in Nat
  BY <1>1, SourceTypes
<1>3. active' = active /\ matured' = matured
  BY <1>1 DEF active, matured
<1>4. SourceListsOK'
  BY <1>1, <1>3 DEF MarketInv, SourceListsOK
<1>5. CASE Len(fetched[now]) # counts[now]
  BY <1>1, <1>5, RunEnds
<1>6. CASE Len(fetched[now]) = counts[now] /\ kind = 1
  <2>1. now = "active" /\ mig' = "fetch" /\ kind' = 2 /\ at' = 0
    BY <1>1, <1>6, TheKinds DEF now, nextList, run
  <2>2. MarketTypes'
    BY <1>1, <2>1 DEF MarketTypes
  <2>3. /\ Copying(active, fetched["active"], counts["active"], at)
        /\ Len(active) = counts["active"] => Len(matured) <= counts["matured"]
        /\ fetched["matured"] = <<>>
    BY <1>1, <1>6 DEF MarketInv, FetchingActiveOK
  <2>4. /\ Range(active) \subseteq Range(fetched["active"])
        /\ ActiveIntact => Len(matured) <= counts["matured"]
    BY <1>1, <1>6, <2>1, <2>3 DEF Copying, ActiveIntact
  <2>5. ActiveIntact => Copying(matured, <<>>, counts["matured"], 0)
    <3>1. SubSeq(matured, 1, 0) = <<>> /\ Len(<<>>) = 0 /\ Len(matured) \in Nat
      BY <1>2
    <3>2. Len(matured) = 0 => Range(matured) = {}
      BY <1>2 DEF Range
    <3> QED BY <1>2, <2>4, <3>1, <3>2 DEF Copying
  <2>6. ActiveIntact' => Copying(matured', fetched'["matured"], counts'["matured"], at')
    BY <1>1, <1>3, <2>1, <2>3, <2>5 DEF ActiveIntact
  <2>7. FetchingMaturedOK'
    BY <1>1, <1>3, <2>1, <2>4, <2>6 DEF FetchingMaturedOK, Copying, PageStarts
  <2> QED BY <1>4, <2>1, <2>2, <2>7
          DEF MarketInv, CountingOK, FetchingActiveOK, ManagerOK,
              MigratingActiveOK, MigratingMaturedOK, SourceIsLeft
<1>7. CASE Len(fetched[now]) = counts[now] /\ kind = 2
  <2>1. now = "matured" /\ mig' = "manager" /\ kind' = 1 /\ at' = 0
    BY <1>1, <1>7, TheKinds DEF now, nextList, run
  <2>2. MarketTypes'
    BY <1>1, <2>1 DEF MarketTypes
  <2>3. /\ Range(active) \subseteq Range(fetched["active"])
        /\ ActiveIntact => Copying(matured, fetched["matured"], counts["matured"], at)
    BY <1>1, <1>7 DEF MarketInv, FetchingMaturedOK
  <2>4. ActiveIntact => Range(matured) \subseteq Range(fetched["matured"])
    BY <1>1, <1>7, <2>1, <2>3 DEF Copying
  <2>5. ManagerOK'
    BY <1>1, <1>3, <2>3, <2>4 DEF ManagerOK, ActiveIntact
  <2> QED BY <1>4, <2>1, <2>2, <2>5
          DEF MarketInv, CountingOK, FetchingActiveOK, FetchingMaturedOK,
              MigratingActiveOK, MigratingMaturedOK, SourceIsLeft
<1> QED BY <1>2, <1>5, <1>6, <1>7

\* The target is told of the source.
LEMMA ManagerSet == MarketInv /\ setMigratingManager => MarketInv'
<1> SUFFICES ASSUME MarketInv, setMigratingManager PROVE MarketInv'
  OBVIOUS
<1>1. /\ MarketTypes /\ SourceListsOK /\ mig = "manager"
      /\ mig' = "sync" /\ kind' = 1 /\ at' = 0
      /\ UNCHANGED <<lists, existed, counts, fetched, older>>
  BY DEF MarketInv, setMigratingManager, run
<1>2. MarketTypes' /\ SourceListsOK' /\ active' = active /\ matured' = matured
  BY <1>1 DEF MarketTypes, SourceListsOK, active, matured
<1>3. fetched["active"] \in Seq(Markets)
  BY <1>1, SourceTypes
<1>4. Ahead(fetched["active"], 0) = Range(fetched["active"])
  BY <1>3, AheadFacts
<1>5. /\ Range(active) \subseteq Range(fetched["active"])
      /\ ActiveIntact => Range(matured) \subseteq Range(fetched["matured"])
  BY <1>1 DEF MarketInv, ManagerOK
<1>6. Ahead(fetched["active"], at)' = Ahead(fetched["active"], 0)
  BY <1>1 DEF Ahead
<1>7. MigratingActiveOK'
  BY <1>1, <1>2, <1>4, <1>5, <1>6 DEF MigratingActiveOK, ActiveIntact
<1> QED BY <1>1, <1>2, <1>7
        DEF MarketInv, CountingOK, FetchingActiveOK, FetchingMaturedOK, ManagerOK,
            MigratingMaturedOK, SourceIsLeft

\* The caches of the markets of a chunk are refreshed.
LEMMA ChunkSynced == MarketInv /\ syncChunk => MarketInv'
<1> SUFFICES ASSUME MarketInv, syncChunk PROVE MarketInv'
  OBVIOUS
<1>1. /\ mig = "sync" /\ UNCHANGED <<lists, existed, counts, fetched, older>>
      /\ run("migrate", kind, at) \/ throws
  BY DEF syncChunk, marketChain
<1>2. CASE throws
  BY <1>1, <1>2, RunEnds
<1>3. CASE run("migrate", kind, at)
  <2>1. mig' = "migrate" /\ kind' = kind /\ at' = at
    BY <1>3 DEF run
  <2>2. MarketTypes' /\ SourceListsOK'
    BY <1>1, <2>1 DEF MarketInv, MarketTypes, SourceListsOK, active, matured
  <2>3. MigratingActiveOK' /\ MigratingMaturedOK'
    BY <1>1, <2>1 DEF MarketInv, MigratingActiveOK, MigratingMaturedOK, active, matured, Ahead
  <2> QED BY <2>1, <2>2, <2>3
          DEF MarketInv, CountingOK, FetchingActiveOK, FetchingMaturedOK, ManagerOK, SourceIsLeft
<1> QED BY <1>1, <1>2, <1>3

\* What is ahead of a place is the chunk there and what is ahead of its end.
LEMMA ChunkFacts ==
  ASSUME NEW list \in Seq(Markets), NEW i \in Nat
  PROVE  LET c == slice(list, i, i + ChunkSize)
         IN  c \in Seq(Markets) /\ Ahead(list, i) = Range(c) \cup Ahead(list, i + ChunkSize)
<1> DEFINE n == Len(list)
           end == IF i + ChunkSize > n THEN n ELSE i + ChunkSize
           c == SubSeq(list, i + 1, end)
<1>1. /\ n \in Nat /\ DOMAIN list = 1 .. n /\ ChunkSize \in Nat
      /\ end \in Nat /\ end <= n /\ end <= i + ChunkSize /\ (end = n \/ end = i + ChunkSize)
  BY MarketAssumption
<1>2. slice(list, i, i + ChunkSize) = c
  BY DEF slice
<1> HIDE DEF end
<1>3. /\ c \in Seq(Markets) /\ DOMAIN c = 1 .. Len(c)
      /\ Len(c) = IF i + 1 <= end THEN end - i ELSE 0
      /\ \A j \in 1 .. Len(c) : c[j] = list[i + j]
  <2>1. /\ c \in Seq(Markets) /\ Len(c) = IF i + 1 <= end THEN end - i ELSE 0
        /\ \A j \in 1 .. Len(c) : c[j] = list[i + j]
    BY <1>1, PartOfList
  <2> HIDE DEF c
  <2> QED BY <2>1
<1> HIDE DEF c, n
<1>4. ASSUME NEW j \in (i + 1) .. n PROVE list[j] \in Range(c) \cup Ahead(list, i + ChunkSize)
  <2>1. CASE j <= end
    <3>1. j - i \in 1 .. Len(c) /\ i + (j - i) = j
      BY <1>1, <1>3, <2>1
    <3> QED BY <1>3, <3>1 DEF Range
  <2>2. CASE j > end
    <3>1. j \in (i + ChunkSize + 1) .. n
      BY <1>1, <2>2
    <3> QED BY <3>1 DEF Ahead, n
  <2> QED BY <1>1, <2>1, <2>2
<1>5. Range(c) \subseteq Ahead(list, i)
  <2> SUFFICES ASSUME NEW j \in 1 .. Len(c) PROVE c[j] \in Ahead(list, i)
    BY <1>3 DEF Range
  <2>1. i + j \in (i + 1) .. n
    BY <1>1, <1>3
  <2> QED BY <1>3, <2>1 DEF Ahead, n
<1>6. Ahead(list, i + ChunkSize) \subseteq Ahead(list, i)
  <2>1. \A j \in (i + ChunkSize + 1) .. n : j \in (i + 1) .. n
    BY <1>1
  <2> QED BY <2>1 DEF Ahead, n
<1>7. Ahead(list, i) \subseteq Range(c) \cup Ahead(list, i + ChunkSize)
  BY <1>4 DEF Ahead, n
<1> QED BY <1>2, <1>3, <1>5, <1>6, <1>7

\* A chunk is taken out of the list of the source that has all of it.
LEMMA ChunkMigrated == MarketInv /\ migrateChunk => MarketInv'
<1> SUFFICES ASSUME MarketInv, migrateChunk PROVE MarketInv'
  OBVIOUS
<1>1. MarketTypes /\ SourceListsOK /\ mig = "migrate"
      /\ UNCHANGED <<existed, counts, fetched, older>>
  BY DEF MarketInv, migrateChunk
<1>2. CASE ~canMigrate
  BY <1>1, <1>2, RunEnds DEF migrateChunk
<1>3. CASE canMigrate
  <2>1. /\ lists' = [lists EXCEPT !["source"][now] = FoldLeft(remove, @, chunk),
                                  !["target"][now] = @ \o chunk]
        /\ mig' = "sync" /\ kind' = kind /\ at' = at + ChunkSize
        /\ Range(chunk) \subseteq Range(lists["source"][now])
    BY <1>3 DEF migrateChunk, canMigrate, run
  <2> DEFINE kept == FoldLeft(remove, lists["source"][now], chunk)
             more == lists["target"][now] \o chunk
  <2>2. /\ lists \in [Managers -> [ListNames -> Seq(Markets)]] /\ now \in ListNames
        /\ "source" \in Managers /\ "target" \in Managers /\ "source" # "target"
        /\ lists["source"][now] \in Seq(Markets) /\ lists["target"][now] \in Seq(Markets)
        /\ Distinct(lists["source"][now])
        /\ fetched[now] \in Seq(Markets) /\ at \in Nat /\ kind \in {1, 2}
    BY <1>1, TheKinds DEF MarketTypes, SourceListsOK, Managers, ListNames, now, active, matured
  <2>3. /\ chunk \in Seq(Markets)
        /\ Ahead(fetched[now], at) = Range(chunk) \cup Ahead(fetched[now], at + ChunkSize)
    BY <2>2, ChunkFacts DEF chunk
  <2>4. /\ kept \in Seq(Markets) /\ Distinct(kept)
        /\ Range(kept) \subseteq Range(lists["source"][now]) \ Range(chunk)
        /\ more \in Seq(Markets)
    BY <2>2, <2>3, RemovedAll
  <2>5. lists' = [lists EXCEPT !["source"][now] = kept, !["target"][now] = more]
    BY <2>1, <2>2
  <2> HIDE DEF kept, more
  <2>6. /\ lists' \in [Managers -> [ListNames -> Seq(Markets)]]
        /\ lists'["source"][now] = kept
        /\ \A k \in ListNames : k # now => lists'["source"][k] = lists["source"][k]
    BY <2>2, <2>4, <2>5
  <2>7. at' \in Nat
    BY <2>1, <2>2, MarketAssumption
  <2>8. MarketTypes'
    BY <1>1, <2>1, <2>6, <2>7 DEF MarketTypes
  <2>9. CASE kind = 1
    <3>1. /\ now = "active" /\ active' = kept /\ matured' = matured
          /\ lists["source"][now] = active
      BY <2>6, <2>9, TheKinds DEF now, active, matured, ListNames
    <3>2. Range(kept) \subseteq Range(active) \ Range(chunk)
      BY <2>4, <3>1
    <3>3. SourceListsOK'
      BY <1>1, <2>4, <3>1, <3>2 DEF SourceListsOK
    <3>4. /\ Range(active) \subseteq Ahead(fetched["active"], at)
          /\ Ahead(fetched["active"], at) \subseteq Range(active) =>
               Range(matured) \subseteq Range(fetched["matured"])
      BY <1>1, <2>9 DEF MarketInv, MigratingActiveOK
    <3>5. Ahead(fetched["active"], at) = Range(chunk) \cup Ahead(fetched["active"], at + ChunkSize)
          /\ Range(chunk) \subseteq Range(active)
      BY <2>1, <2>3, <3>1
    <3>6. /\ Range(kept) \subseteq Ahead(fetched["active"], at + ChunkSize)
          /\ Ahead(fetched["active"], at + ChunkSize) \subseteq Range(kept) =>
               Range(matured) \subseteq Range(fetched["matured"])
      BY <3>2, <3>4, <3>5
    <3>7. Ahead(fetched["active"], at)' = Ahead(fetched["active"], at + ChunkSize)
      BY <1>1, <2>1 DEF Ahead
    <3>8. MigratingActiveOK'
      BY <1>1, <3>1, <3>6, <3>7 DEF MigratingActiveOK
    <3> QED BY <2>1, <2>8, <2>9, <3>3, <3>8
            DEF MarketInv, CountingOK, FetchingActiveOK, FetchingMaturedOK, ManagerOK,
                MigratingMaturedOK, SourceIsLeft
  <2>10. CASE kind = 2
    <3>1. /\ now = "matured" /\ matured' = kept /\ active' = active
          /\ lists["source"][now] = matured
      BY <2>6, <2>10, TheKinds DEF now, active, matured, ListNames
    <3>2. Range(kept) \subseteq Range(matured) \ Range(chunk)
      BY <2>4, <3>1
    <3>3. SourceListsOK'
      BY <1>1, <2>4, <3>1, <3>2 DEF SourceListsOK
    <3>4. active = <<>> /\ Range(matured) \subseteq Ahead(fetched["matured"], at)
      BY <1>1, <2>10 DEF MarketInv, MigratingMaturedOK
    <3>5. Ahead(fetched["matured"], at) =
            Range(chunk) \cup Ahead(fetched["matured"], at + ChunkSize)
      BY <2>3, <3>1
    <3>6. Range(kept) \subseteq Ahead(fetched["matured"], at + ChunkSize)
      BY <3>2, <3>4, <3>5
    <3>7. Ahead(fetched["matured"], at)' = Ahead(fetched["matured"], at + ChunkSize)
      BY <1>1, <2>1 DEF Ahead
    <3>8. MigratingMaturedOK'
      BY <3>1, <3>4, <3>6, <3>7 DEF MigratingMaturedOK
    <3> QED BY <2>1, <2>8, <2>10, <3>3, <3>8
            DEF MarketInv, CountingOK, FetchingActiveOK, FetchingMaturedOK, ManagerOK,
                MigratingActiveOK, SourceIsLeft
  <2> QED BY <2>2, <2>9, <2>10
<1> QED BY <1>2, <1>3

\* After the active markets come the matured ones; after them nothing is left.
LEMMA ListEnds == MarketInv /\ endOfList => MarketInv'
<1> SUFFICES ASSUME MarketInv, endOfList PROVE MarketInv'
  OBVIOUS
<1>1. /\ MarketTypes /\ SourceListsOK /\ mig = "sync" /\ at >= Len(fetched[now])
      /\ UNCHANGED <<lists, existed, counts, fetched, older>>
      /\ nextList("sync", "done")
  BY DEF MarketInv, endOfList, marketChain
<1>2. /\ active \in Seq(Markets) /\ at \in Nat /\ kind \in {1, 2}
      /\ fetched["active"] \in Seq(Markets) /\ fetched["matured"] \in Seq(Markets)
  BY <1>1, SourceTypes
<1>3. active' = active /\ matured' = matured /\ SourceListsOK'
  BY <1>1 DEF SourceListsOK, active, matured
<1>4. CASE kind = 1
  <2>1. now = "active" /\ mig' = "sync" /\ kind' = 2 /\ at' = 0
    BY <1>1, <1>4, TheKinds DEF now, nextList, run
  <2>2. MarketTypes'
    BY <1>1, <2>1 DEF MarketTypes
  <2>3. Ahead(fetched["active"], at) = {}
    BY <1>1, <1>2, <2>1, AheadFacts
  <2>4. Range(active) = {} /\ Range(matured) \subseteq Range(fetched["matured"])
    BY <1>1, <1>4, <2>3 DEF MarketInv, MigratingActiveOK
  <2>5. active = <<>>
    <3>1. DOMAIN active = 1 .. Len(active) /\ Len(active) \in Nat
      BY <1>2
    <3>2. Len(active) = 0
      <4>1. 1 \notin DOMAIN active
        BY <2>4 DEF Range
      <4> QED BY <3>1, <4>1
    <3> QED BY <1>2, <3>2
  <2>6. Ahead(fetched["matured"], at)' = Range(fetched["matured"])
    <3>1. Ahead(fetched["matured"], 0) = Range(fetched["matured"])
      BY <1>2, AheadFacts
    <3>2. Ahead(fetched["matured"], at)' = Ahead(fetched["matured"], 0)
      BY <1>1, <2>1 DEF Ahead
    <3> QED BY <3>1, <3>2
  <2>7. MigratingMaturedOK'
    BY <1>3, <2>4, <2>5, <2>6 DEF MigratingMaturedOK
  <2> QED BY <1>3, <2>1, <2>2, <2>7
          DEF MarketInv, CountingOK, FetchingActiveOK, FetchingMaturedOK, ManagerOK,
              MigratingActiveOK, SourceIsLeft
<1>5. CASE kind = 2
  <2>1. now = "matured" /\ mig' = "done" /\ kind' = 1 /\ at' = 0
    BY <1>1, <1>5, TheKinds DEF now, nextList, run
  <2>2. MarketTypes'
    BY <1>1, <2>1 DEF MarketTypes
  <2>3. Ahead(fetched["matured"], at) = {}
    BY <1>1, <1>2, <2>1, AheadFacts
  <2>4. active = <<>> /\ Range(matured) = {}
    BY <1>1, <1>5, <2>3 DEF MarketInv, MigratingMaturedOK
  <2>5. Range(active) = {}
    BY <2>4 DEF Range
  <2>6. SourceIsLeft'
    BY <1>3, <2>4, <2>5 DEF SourceIsLeft
  <2> QED BY <1>3, <2>1, <2>2, <2>6
          DEF MarketInv, CountingOK, FetchingActiveOK, FetchingMaturedOK, ManagerOK,
              MigratingActiveOK, MigratingMaturedOK
<1> QED BY <1>2, <1>4, <1>5
------------------------------------------------------------------------------
(* The result. *)

\* A finite set as a sequence: each member once, and nothing else.
LEMMA EachMemberOnce ==
  ASSUME NEW S \in SUBSET Markets
  PROVE  SetToSeq(S) \in Seq(Markets) /\ Distinct(SetToSeq(S)) /\ Range(SetToSeq(S)) = S
<1> DEFINE n == Cardinality(S)
           L == 1 .. n
           f == SetToSeq(S)
<1>1. IsFiniteSet(S)
  BY MarketAssumption, FS_Subset
<1>2. n \in Nat /\ ExistsBijection(L, S)
  BY <1>1, FS_CardinalityType
<1>3. IsFiniteSet(L) /\ Cardinality(L) = n
  BY <1>2, FS_Interval
<1> HIDE DEF n
<1>4. \E g \in [L -> S] : IsInjective(g)
  BY <1>2 DEF ExistsBijection, Bijection, Injection
<1>5. f \in [L -> S] /\ IsInjective(f)
  BY <1>4 DEF SetToSeq, n
<1> HIDE DEF f
<1>6. f \in Injection(L, S)
  BY <1>5 DEF Injection
<1>7. f \in Surjection(L, S)
  BY <1>1, <1>3, <1>6, FS_Injection DEF n
<1>8. \A m \in S : \E i \in L : f[i] = m
  BY <1>7 DEF Surjection
<1>9. f \in Seq(Markets) /\ DOMAIN f = L
  BY <1>2, <1>5
<1>10. Distinct(f)
  BY <1>5, <1>9 DEF IsInjective, Distinct
<1>11. Range(f) = S
  BY <1>5, <1>8, <1>9 DEF Range
<1> QED BY <1>9, <1>10, <1>11 DEF f

\* The source has each of its markets once.
LEMMA MarketInit == MigInit => MarketInv
<1> SUFFICES ASSUME MigInit PROVE MarketInv
  OBVIOUS
<1>1. PICK a, b \in SUBSET Markets :
        /\ a \cap b = {}
        /\ lists = [source |-> [active |-> SetToSeq(a), matured |-> SetToSeq(b)],
                    target |-> Nothing]
        /\ existed = a \cup b
  BY DEF MigInit
<1>2. \A S \in SUBSET Markets :
        SetToSeq(S) \in Seq(Markets) /\ Distinct(SetToSeq(S)) /\ Range(SetToSeq(S)) = S
  BY EachMemberOnce
<1>3. active = SetToSeq(a) /\ matured = SetToSeq(b)
  BY <1>1 DEF active, matured
<1>4. lists \in [Managers -> [ListNames -> Seq(Markets)]]
  BY <1>1, <1>2, NothingRead DEF Managers, ListNames
<1>5. MarketTypes
  BY <1>1, <1>4, NothingRead, TheKinds, MarketAssumption DEF MigInit, MarketTypes
<1>6. SourceListsOK
  BY <1>1, <1>2, <1>3 DEF SourceListsOK
<1> QED BY <1>5, <1>6
        DEF MarketInv, MigInit, CountingOK, FetchingActiveOK, FetchingMaturedOK, ManagerOK,
            MigratingActiveOK, MigratingMaturedOK, SourceIsLeft

\* Every step keeps the invariant.
LEMMA MarketNext == MarketInv /\ NothingCreated /\ [MigNext]_migVars => MarketInv'
<1> SUFFICES ASSUME MarketInv, NothingCreated, [MigNext]_migVars PROVE MarketInv'
  OBVIOUS
<1>1. CASE migStep
  BY <1>1, RunStarts, Counted, PageFetched, ListChecked, ManagerSet, ChunkSynced,
     ChunkMigrated, ListEnds DEF migStep
<1>2. CASE stopMigration
  BY <1>2, RunEnds DEF stopMigration, marketChain
<1>3. CASE UNCHANGED migVars
  <2>1. MarketTypes' /\ active' = active /\ matured' = matured
    BY <1>3 DEF MarketInv, MarketTypes, active, matured, migVars, marketChain
  <2> QED BY <1>3, <2>1, SourceUntouched DEF migVars, marketChain
<1> QED BY <1>1, <1>2, <1>3, MarketCreated, MarketResolved, MarketEnded DEF MigNext

\* The invariant holds of every behaviour of the migration.
THEOREM MarketInvariance ==
  ASSUME NothingCreated
  PROVE  MigSpec => []MarketInv
<1>1. MarketInv /\ [MigNext]_migVars => MarketInv'
  BY MarketNext
<1> QED BY <1>1, MarketInit, PTL DEF MigSpec

\* A run that completes has left nothing behind of what the source had when it
\* started, for any number of markets that fits two pages and any size of the
\* chunks, unless markets are created while it is in progress.
THEOREM NothingOlderRemains ==
  ASSUME NothingCreated
  PROVE  MigSpec => []OnlyNewMarketsRemain
<1>1. MarketInv => OnlyNewMarketsRemain
  BY MarketsOfSource DEF MarketInv, SourceIsLeft, OnlyNewMarketsRemain
<1> QED BY <1>1, MarketInvariance, PTL
==============================================================================
