----------------------------- MODULE SynthCommands -----------------------------
(* The commands that maintain synths (commands/replace-synths.js, purge-synths *)
(* .js, remove-synths.js): replace puts a new instance of a synth behind its   *)
(* proxy and token state, purge burns what the holders have, remove takes a    *)
(* synth without supply out of the Issuer and out of the files. An instance is *)
(* a version; the units of a synth are the accounts that hold one.             *)
EXTENDS Naturals, Sequences, FiniteSets

CONSTANTS Keys,          \* the synths that the commands may name (not sUSD)
          Users,
          HolderLimit,   \* the most holders the explorer returns
          BatchSize,
          Interruptible, \* commands that may stop between two steps
          TradedDuring,  \* commands that run while users issue and burn, and
                         \* "deferred" if they do so while a removal waits
          MaxCommands    \* bound on commands

ASSUME SynthAssumption == IsFiniteSet(Users) /\ MaxCommands \in Nat

NoKey == "none"

VARIABLES holders,      \* chain: accounts in the token state of a synth
          supply,       \* chain: total supply of each version of a synth
          issuerHas,    \* chain: version the Issuer has of a synth, 0 = none
          tokenOf,      \* chain: version the token state belongs to
          proxyTo,      \* chain: version the proxy forwards to
          isOwner,      \* the account owns the contracts
          mainnet,      \* purge asks an explorer for the holders
          targets,      \* deployment.json: version of a synth, 0 = none
          configured,   \* config.json: the synths it names
          listed,       \* synths.json
          deferred,     \* owner-actions.json: removals not performed
          cmd, todo, place, totals, created, proxyKey, addresses, left, \* the command
          commands,
          disturbed     \* history: the synths whose replacement was disturbed

synthChain == <<holders, supply, issuerHas, tokenOf, proxyTo>>
synthFiles == <<targets, configured, listed, deferred>>
purged == <<addresses, left>>
synthRun == <<cmd, todo, place, totals, created, proxyKey, purged>>
operator == <<isOwner, mainnet>>
setting == <<operator, disturbed>>
synthVars == <<synthChain, setting, synthFiles, synthRun, commands>>

Versions == 1 .. (1 + MaxCommands)

SynthInit ==
  /\ holders \in [Keys -> SUBSET Users]
  /\ supply = [k \in Keys |-> [v \in Versions |-> IF v = 1 THEN Cardinality(holders[k]) ELSE 0]]
  /\ issuerHas = [k \in Keys |-> 1] /\ tokenOf = issuerHas /\ proxyTo = issuerHas
  /\ isOwner \in BOOLEAN /\ mainnet \in BOOLEAN
  /\ targets = issuerHas /\ configured = Keys /\ listed = Keys /\ deferred = {}
  /\ cmd = "none" /\ todo = <<>> /\ place = 0 /\ created = 0
  /\ totals = [k \in Keys |-> 0] /\ proxyKey = NoKey /\ addresses = {} /\ left = {}
  /\ commands = 0 /\ disturbed = {}

key == Head(todo)
old == targets[key]
Lists == {<<k>> : k \in Keys} \cup {q \in Keys \X Keys : q[1] # q[2]}

\* A command starts on synths that synths.json lists.
begin(c) ==
  /\ cmd = "none" /\ commands < MaxCommands
  /\ cmd' = c /\ commands' = commands + 1
  /\ \E q \in Lists : (\A i \in DOMAIN q : q[i] \in listed) /\ todo' = q
  /\ place' = 1 /\ created' = 0 /\ proxyKey' = NoKey /\ addresses' = {} /\ left' = {}

moveTo(n) ==
  /\ place' = n
  /\ UNCHANGED <<cmd, todo, totals, created, proxyKey>>
dieOr(goOn) ==
  IF isOwner THEN cmd' = "none" /\ UNCHANGED <<todo, place, totals, created, proxyKey>> ELSE goOn
nextKey ==
  /\ todo' = Tail(todo) /\ place' = 1
  /\ cmd' = IF Len(todo) = 1 THEN "none" ELSE cmd
  /\ UNCHANGED <<totals, created, proxyKey, commands>>
endCommand ==
  /\ cmd' = "none" /\ todo' = <<>> /\ place' = 1
  /\ totals' = [k \in Keys |-> 0] /\ created' = 0 /\ proxyKey' = NoKey
  /\ addresses' = {} /\ left' = {}

\* performTransactionalStep without a file for owner actions: the owner sends the
\* transaction; anybody else waits for an operator who confirms that the owner
\* has made the call, or denies it, which does not stop the command (see deny).

\* An instance that issues and burns: the Issuer has it, the token state takes
\* balances from it and the proxy takes its events.
works(k, v) == issuerHas[k] = v /\ tokenOf[k] = v /\ proxyTo[k] = v

(* ------------------------------- replace ---------------------------------- *)

\* The supplies of all synths are read once, before the operator confirms.
replaceSynths ==
  /\ begin("replace")
  /\ \A i \in DOMAIN todo' : targets[todo'[i]] # 0
  /\ totals' = [k \in Keys |-> IF targets[k] = 0 THEN 0 ELSE supply[k][targets[k]]]
  /\ UNCHANGED <<synthChain, setting, synthFiles>>

setTotalSupply ==
  /\ cmd = "replace" /\ place = 1
  /\ supply' = [supply EXCEPT ![key][old] = 0]
  /\ moveTo(2)
  /\ UNCHANGED <<holders, issuerHas, tokenOf, proxyTo, setting, synthFiles, purged, commands>>

\* The Issuer removes a synth that has no supply, and refuses any other: the
\* owner's command dies of it, an operator may confirm and never notice.
removeOld ==
  /\ cmd = "replace" /\ place = 2
  /\ IF issuerHas[key] = 0 \/ supply[key][issuerHas[key]] = 0
     THEN issuerHas' = [issuerHas EXCEPT ![key] = 0] /\ moveTo(3)
     ELSE UNCHANGED issuerHas /\ dieOr(moveTo(3))
  /\ UNCHANGED <<holders, supply, tokenOf, proxyTo, setting, synthFiles, purged, commands>>

\* Reading it now: zero, since the old instance was reset.
supplyWhenDeployed == supply[key][old]
\* The new instance has the supply that was read at the start.
supplyOfNew == totals[key]

\* The Deployer, started with no flags, writes deployment.json and a config.json
\* that names the synths of this command only. The account sets the resolver.
deployNew ==
  /\ cmd = "replace" /\ place = 3
  /\ created' = old + 1
  /\ supply' = [supply EXCEPT ![key][created'] = supplyOfNew]
  /\ targets' = [targets EXCEPT ![key] = created']
  /\ configured' = IF created = 0 THEN {key} ELSE configured \cup {key}
  /\ place' = 4
  /\ UNCHANGED <<holders, issuerHas, tokenOf, proxyTo, setting, listed, deferred, cmd, todo,
                 totals, proxyKey, purged, commands>>

\* The Issuer adds a synth that it does not have.
addNew ==
  /\ cmd = "replace" /\ place = 4
  /\ IF issuerHas[key] = 0
     THEN issuerHas' = [issuerHas EXCEPT ![key] = created] /\ moveTo(5)
     ELSE UNCHANGED issuerHas /\ dieOr(moveTo(5))
  /\ UNCHANGED <<holders, supply, tokenOf, proxyTo, setting, synthFiles, purged, commands>>

setAssociatedContract ==
  /\ cmd = "replace" /\ place = 5
  /\ tokenOf' = [tokenOf EXCEPT ![key] = created]
  /\ moveTo(6)
  /\ UNCHANGED <<holders, supply, issuerHas, proxyTo, setting, synthFiles, purged, commands>>

setTarget ==
  /\ cmd = "replace" /\ place = 6
  /\ proxyTo' = [proxyTo EXCEPT ![key] = created]
  /\ nextKey
  /\ UNCHANGED <<holders, supply, issuerHas, tokenOf, setting, synthFiles, purged>>

\* What the step in hand should bring about does not hold yet.
isNeeded ==
  \/ place = 1 /\ supply[key][old] # 0
  \/ place = 2 /\ issuerHas[key] # 0
  \/ place = 4 /\ issuerHas[key] # created
  \/ place = 5 /\ tokenOf[key] # created
  \/ place = 6 /\ proxyTo[key] # created

\* The operator denies a call, or confirms one that nobody has made: it is not
\* made, and the next step follows.
deny ==
  /\ cmd = "replace" /\ ~isOwner /\ isNeeded
  /\ IF place = 6 THEN nextKey ELSE moveTo(place + 1) /\ UNCHANGED commands
  /\ disturbed' = disturbed \cup {key}
  /\ UNCHANGED <<synthChain, operator, synthFiles, purged>>

(* -------------------------------- purge ----------------------------------- *)

\* On a test network the holders are an option of the command.
purgeSynths ==
  /\ cmd = "none" /\ commands < MaxCommands
  /\ cmd' = "purge" /\ commands' = commands + 1
  /\ \E q \in Lists : (\A i \in DOMAIN q : q[i] \in listed) /\ todo' = q
  /\ place' = 1 /\ created' = 0 /\ proxyKey' = NoKey
  /\ \E given \in SUBSET Users : (mainnet => given = {}) /\ addresses' = given
  /\ left' = {}
  /\ UNCHANGED <<synthChain, setting, synthFiles, totals>>

\* The files and the Issuer must agree on the instance.
agrees == targets[key] # 0 /\ targets[key] = issuerHas[key]

\* The explorer is asked for the holders of the first synth's proxy, also when
\* a later synth is purged; those without a balance are left out.
fetchHolders ==
  /\ cmd = "purge" /\ place = 1 /\ agrees
  /\ LET asked == IF proxyKey = NoKey THEN key ELSE proxyKey
     IN /\ proxyKey' = asked
        /\ IF mainnet
           THEN \E top \in SUBSET holders[asked] :
                  /\ Cardinality(top) <= HolderLimit
                  /\ Cardinality(top) = HolderLimit \/ top = holders[asked]
                  /\ addresses' = top \cap holders[key]
           ELSE addresses' = addresses
  /\ left' = addresses'
  /\ IF supply[key][old] = 0
     THEN todo' = Tail(todo) /\ place' = 1 /\ cmd' = (IF Len(todo) = 1 THEN "none" ELSE cmd)
     ELSE UNCHANGED <<todo, cmd>> /\ place' = 2
  /\ UNCHANGED <<synthChain, setting, synthFiles, totals, created, commands>>

batches == {b \in SUBSET left : \/ Cardinality(b) = BatchSize
                                \/ b = left /\ Cardinality(b) < BatchSize}
\* The purge of holders fails where the instance does not work, or has less
\* supply than they hold.
burns(batch) ==
  LET held == batch \cap holders[key]
  IN held = {} \/ (works(key, old) /\ Cardinality(held) <= supply[key][old])

\* One batch: the owner burns the balances, or the command dies of a call that
\* fails. On mainnet the call is printed and the next batch follows, as it does
\* after a call that an operator denies or that failed when the owner made it.
purgeBatch ==
  /\ cmd = "purge" /\ place = 2 /\ left # {}
  /\ \E batch \in batches :
       /\ left' = left \ batch
       /\ \/ /\ isOwner \/ ~mainnet
             /\ burns(batch)
             /\ holders' = [holders EXCEPT ![key] = @ \ batch]
             /\ supply' = [supply EXCEPT ![key][old] = @ - Cardinality(batch \cap holders[key])]
             /\ cmd' = cmd
          \/ /\ isOwner => ~burns(batch)
             /\ UNCHANGED <<holders, supply>>
             /\ cmd' = IF isOwner THEN "none" ELSE cmd
  /\ UNCHANGED <<issuerHas, tokenOf, proxyTo, setting, synthFiles, todo, place, totals,
                 created, proxyKey, addresses, commands>>

\* The supply that is left is only warned about.
purgeDone ==
  /\ cmd = "purge" /\ place = 2 /\ left = {}
  /\ nextKey
  /\ UNCHANGED <<synthChain, setting, synthFiles, purged>>

(* -------------------------------- remove ---------------------------------- *)

removeSynths ==
  /\ begin("remove")
  /\ UNCHANGED <<synthChain, setting, synthFiles, totals>>

\* On mainnet the call is printed and forgotten.
printRemoval == IF mainnet THEN deferred ELSE deferred \cup {key}
\* The call is appended to the owner's actions, also on mainnet.
deferRemoval == deferred \cup {key}

\* A synth without supply is removed from the Issuer by its owner, or deferred.
removeSynth ==
  /\ cmd = "remove" /\ place = 1 /\ agrees
  /\ supply[key][old] = 0
  /\ IF isOwner THEN issuerHas' = [issuerHas EXCEPT ![key] = 0] /\ UNCHANGED deferred
     ELSE deferred' = deferRemoval /\ UNCHANGED issuerHas
  /\ moveTo(2)
  /\ UNCHANGED <<holders, supply, tokenOf, proxyTo, setting, targets, configured, listed,
                 purged, commands>>

\* The files forget it, one after the other.
forgetInConfig ==
  /\ cmd = "remove" /\ place = 2
  /\ configured' = configured \ {key}
  /\ moveTo(3)
  /\ UNCHANGED <<synthChain, setting, targets, listed, deferred, purged, commands>>
forgetInDeployment ==
  /\ cmd = "remove" /\ place = 3
  /\ targets' = [targets EXCEPT ![key] = 0]
  /\ moveTo(4)
  /\ UNCHANGED <<synthChain, setting, configured, listed, deferred, purged, commands>>
forgetInSynths ==
  /\ cmd = "remove" /\ place = 4
  /\ listed' = listed \ {key}
  /\ nextKey
  /\ UNCHANGED <<synthChain, setting, targets, configured, deferred, purged>>

(* ------------------------- the world around them -------------------------- *)

\* The command ends early: the Issuer has another instance than the files, the
\* files have none, or the synth to remove has supply.
refuse ==
  /\ cmd \in {"purge", "remove"} /\ place = 1
  /\ agrees => cmd = "remove" /\ supply[key][old] > 0
  /\ endCommand
  /\ UNCHANGED <<synthChain, setting, synthFiles, commands>>

\* A crash, a failed call or a cancelled prompt.
interrupt ==
  /\ cmd \in Interruptible
  /\ disturbed' = disturbed \cup {k \in {key} : cmd = "replace" /\ place # 1}
  /\ endCommand
  /\ UNCHANGED <<synthChain, operator, synthFiles, commands>>

\* The owner performs a removal; the Issuer refuses one of a synth with supply.
performRemoval ==
  /\ \E k \in deferred :
       /\ deferred' = deferred \ {k}
       /\ issuerHas' = IF issuerHas[k] # 0 /\ supply[k][issuerHas[k]] = 0
                       THEN [issuerHas EXCEPT ![k] = 0] ELSE issuerHas
  /\ UNCHANGED <<holders, supply, tokenOf, proxyTo, setting, targets, configured, listed,
                 synthRun, commands>>

\* A synth that waits to be replaced, or whose new instance is not deployed.
supplyIsRead(k) ==
  cmd = "replace" /\ \E i \in DOMAIN todo : todo[i] = k /\ (i # 1 \/ place <= 3)

\* Users issue and burn a synth that works, of any instance.
trade ==
  /\ cmd \in {"none"} \cup TradedDuring
  /\ \E k \in Keys, u \in Users :
       LET v == issuerHas[k]
       IN /\ k \in deferred => "deferred" \in TradedDuring
          /\ v # 0 /\ works(k, v)
          /\ disturbed' = disturbed \cup {s \in {k} : supplyIsRead(s)}
          /\ IF u \in holders[k]
             THEN /\ supply[k][v] > 0
                  /\ holders' = [holders EXCEPT ![k] = @ \ {u}]
                  /\ supply' = [supply EXCEPT ![k][v] = @ - 1]
             ELSE /\ holders' = [holders EXCEPT ![k] = @ \cup {u}]
                  /\ supply' = [supply EXCEPT ![k][v] = @ + 1]
  /\ UNCHANGED <<issuerHas, tokenOf, proxyTo, operator, synthFiles, synthRun, commands>>

replaceStep ==
  \/ replaceSynths \/ setTotalSupply \/ removeOld \/ deployNew
  \/ addNew \/ setAssociatedContract \/ setTarget \/ deny
purgeStep == purgeSynths \/ fetchHolders \/ purgeBatch \/ purgeDone
removeStep ==
  \/ removeSynths \/ removeSynth
  \/ forgetInConfig \/ forgetInDeployment \/ forgetInSynths

SynthNext ==
  replaceStep \/ purgeStep \/ removeStep \/ refuse \/ interrupt \/ performRemoval \/ trade
SynthSpec == SynthInit /\ [][SynthNext]_synthVars

(* ------------------------------- properties ------------------------------- *)

\* Between commands a synth of the Issuer is whole: its total supply is what its
\* holders have, and token state, proxy and deployment.json are those of the
\* instance (replace-synths.js:233: a replacement takes all of it over), whatever
\* else was replaced, purged or removed, and wherever commands stopped. It does
\* not hold of a synth that was itself disturbed while it was replaced: the
\* command stopped between its steps, one of its calls was denied, or users
\* issued or burnt it after its supply was read and before its new instance had
\* it. The command prevents none of these.
SynthsAreWhole ==
  cmd = "none" =>
    \A k \in Keys \ disturbed :
      LET v == issuerHas[k]
      IN v # 0 /\ targets[k] # 0 =>
           /\ supply[k][v] = Cardinality(holders[k])
           /\ tokenOf[k] = v /\ proxyTo[k] = v /\ targets[k] = v

\* deployment.json forgets a synth only when the Issuer has removed it or its
\* removal is left to the owner, wherever a command stopped
\* (remove-synths.js:157 before :176).
ForgottenSynthsAreRemoved ==
  \A k \in Keys : targets[k] = 0 => issuerHas[k] = 0 \/ k \in deferred

\* An instance that the Issuer adds has the supply of the holders it takes over:
\* "ensure new Synth gets totalSupply set from old Synth" (replace-synths.js:268).
\* A run that stops after it has reset the old one leaves nothing to read, and
\* what users issue or burn after the reading is not in it.
NewSynthHasOldSupply ==
  [][\A k \in Keys : issuerHas'[k] \notin {0, issuerHas[k]} =>
       supply'[k][issuerHas'[k]] = Cardinality(holders'[k])]_synthVars
================================================================================
