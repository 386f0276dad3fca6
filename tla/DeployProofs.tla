------------------------------ MODULE DeployProofs -----------------------------
(* Whatever point a deployment stops at, the files it leaves let the next run *)
(* start, every file and every link names an instance that exists, and no link *)
(* goes back to an older one: for any releases, synths and number of stops. What *)
(* is done only once in the life of a network is done, unless a run was stopped *)
(* or refused.                                                                *)
EXTENDS Deploy, SumProofs, TLAPS

(* ------------------------- the inductive invariant ------------------------ *)

\* The instance of the contract in hand exists before its address is written,
\* and its address is written before its flag is cleared.
WrittenInOrder ==
  /\ at = "mined" /\ Plan[pc].on \in Names => minted[Plan[pc].on] > 0
  /\ at = "written" /\ Plan[pc].on \in Names => recorded[Plan[pc].on] > 0

FilesInv ==
  /\ minted \in [Names -> Nat] /\ recorded \in [Names -> Nat]
  /\ config \in [Names -> {"absent", "keep", "deploy"}]
  /\ at \in {"step", "mined", "written"}
  /\ FilesAllowRestart
  /\ WrittenInOrder

LEMMA FilesInit == DeployInit => FilesInv
<1> SUFFICES ASSUME DeployInit PROVE FilesInv
  OBVIOUS
<1>1. minted = recorded /\ at = "step"
  BY DEF DeployInit
<1>2. CASE FreshNetwork
  <2>1. /\ config = [n \in Names |-> IF n \in Unlisted THEN "absent"
                                     ELSE IF n = Feed THEN "keep" ELSE "deploy"]
        /\ recorded = [n \in Names |-> IF n = Feed THEN 1 ELSE 0]
    BY <1>2 DEF FreshNetwork
  <2> QED BY <1>1, <2>1 DEF FilesInv, FilesAllowRestart, missingDeployments, WrittenInOrder
<1>3. CASE RunningNetwork
  <2>1. /\ config = [n \in Names |-> IF n \in Unlisted THEN "absent" ELSE "keep"]
        /\ recorded = [n \in Names |-> IF n \in Unlisted THEN 0 ELSE 1]
    BY <1>3 DEF RunningNetwork
  <2> QED BY <1>1, <2>1 DEF FilesInv, FilesAllowRestart, missingDeployments, WrittenInOrder
<1> QED BY <1>2, <1>3 DEF DeployInit

\* Steps of the run that create or record an instance or clear its flag, and
\* all the others, which leave files and instances alone or flag contracts.
LEMMA FilesStep ==
  ASSUME FilesInv, [DeployNext]_deployVars
  PROVE  FilesInv'
<1> USE DEF FilesInv, FilesAllowRestart, missingDeployments, WrittenInOrder
<1>1. ASSUME UNCHANGED <<minted, recorded, config>>, at' = "step" \/ UNCHANGED <<pc, at>>
      PROVE  FilesInv'
  BY <1>1
<1>2. CASE deploy(Plan[pc])
  <2>1. /\ UNCHANGED <<recorded, config, pc>> /\ at' = "mined"
        /\ minted' = [minted EXCEPT ![Plan[pc].on] = @ + 1]
    BY <1>2 DEF deploy
  <2>2. ASSUME NEW n \in Names, n = Plan[pc].on PROVE minted'[n] > 0
    <3>1. minted'[n] = minted[n] + 1 /\ minted[n] \in Nat
      BY <2>1, <2>2
    <3> QED BY <3>1
  <2>3. minted' \in [Names -> Nat]
    <3>1. \A n \in Names : n # Plan[pc].on => minted'[n] = minted[n]
      BY <2>1
    <3>2. \A n \in Names : n = Plan[pc].on => minted'[n] = minted[n] + 1
      BY <2>1
    <3>3. \A n \in Names : minted[n] \in Nat
      OBVIOUS
    <3>4. \A n \in Names : minted'[n] \in Nat
      BY <3>1, <3>2, <3>3
    <3>5. minted' = [n \in Names |-> minted'[n]]
      BY <2>1
    <3> QED BY <3>4, <3>5
  <2>4. WrittenInOrder'
    BY <2>1, <2>2
  <2> QED BY <2>1, <2>3, <2>4
<1>3. CASE writeDeployment(Plan[pc])
  <2>1. /\ UNCHANGED <<minted, config, pc>> /\ at = "mined" /\ at' = "written"
        /\ recorded' = [recorded EXCEPT ![Plan[pc].on] = minted[Plan[pc].on]]
    BY <1>3 DEF writeDeployment
  <2>2. \A n \in Names : n = Plan[pc].on => recorded'[n] = minted[n] /\ recorded'[n] > 0
    BY <2>1
  <2>3. \A n \in Names : n # Plan[pc].on => recorded'[n] = recorded[n]
    BY <2>1
  <2>4. recorded' \in [Names -> Nat]
    BY <2>1
  <2>5. FilesAllowRestart'
    BY <2>1, <2>2, <2>3
  <2>6. WrittenInOrder'
    BY <2>1, <2>2
  <2> QED BY <2>1, <2>4, <2>5, <2>6
<1>4. CASE writeConfig(Plan[pc])
  <2>1. /\ UNCHANGED <<minted, recorded>> /\ at = "written" /\ at' = "step"
        /\ config' = [config EXCEPT ![Plan[pc].on] = "keep"]
    BY <1>4 DEF writeConfig, advance, chain
  <2>2. \A n \in Names : n # Plan[pc].on => config'[n] = config[n]
    BY <2>1
  <2>3. FilesAllowRestart'
    BY <2>1, <2>2
  <2> QED BY <2>1, <2>3
<1>5. CASE prepareDeploy
  <2>1. /\ UNCHANGED <<minted, recorded, at, pc>>
        /\ \E r \in Releases :
             config' = [n \in Names |-> IF n \in r THEN "deploy" ELSE config[n]]
    BY <1>5 DEF prepareDeploy, chain, run
  <2> QED BY <2>1
<1>6. ASSUME nothingRequired(Plan[pc]) \/ appendOwnerAction(Plan[pc]) \/ throw \/ start \/ stop
      PROVE  FilesInv'
  <2>1. UNCHANGED <<minted, recorded, config>> /\ at' = "step"
    BY <1>6 DEF nothingRequired, appendOwnerAction, advance, throw, start, stop, chain
  <2> QED BY <1>1, <2>1
<1>7. CASE send(Plan[pc])
  <2>1. UNCHANGED <<minted, recorded, config>> /\ at' = "step"
    BY <1>7 DEF send, advance, invoke
  <2> QED BY <1>1, <2>1
<1>8. CASE performOwnerAction
  <2>1. UNCHANGED <<minted, recorded, config, pc, at>>
    BY <1>8 DEF performOwnerAction, invoke, chain, run
  <2> QED BY <1>1, <2>1
<1>9. CASE UNCHANGED deployVars
  <2>1. UNCHANGED <<minted, recorded, config, pc, at>>
    BY <1>9 DEF deployVars, chain, run
  <2> QED BY <1>1, <2>1
<1> QED BY <1>2, <1>3, <1>4, <1>5, <1>6, <1>7, <1>8, <1>9 DEF DeployNext, step

\* Deployer.js: deployment.json has the address of every contract that config.json
\* says is deployed, so that no run leaves files with which the next cannot start.
THEOREM FilesAlwaysAllowRestart == DeploySpec => []FilesAllowRestart
<1>1. DeploySpec => DeployInit /\ [][DeployNext]_deployVars
  BY PTL DEF DeploySpec
<1>2. FilesInv => FilesAllowRestart
  BY DEF FilesInv
<1> QED BY <1>1, <1>2, FilesInit, FilesStep, PTL

(* ------------------------ the links and the file -------------------------- *)

LinkNames(n) == {l[2] : l \in LinksOn(n)}
CallNames == {"set", "setResolverAndSyncCache", "free", "frozen"}
Calls == [on : Names, at : Nat, fn : CallNames,
          sets : UNION {[F -> Nat] : F \in SUBSET {l[2] : l \in Links}}]
Entries == [call : Calls, complete : BOOLEAN]

\* The calls that the file names, and those of them that wait for the owner.
Filed == {ownerActions[i].call : i \in DOMAIN ownerActions}
Waiting == {ownerActions[i].call : i \in pending}

\* The place of the run in the plan.
PlaceOK ==
  /\ pc \in 0 .. Len(Plan)
  /\ at # "step" => pc # 0 /\ Plan[pc].do = "deploy"

\* An instance is on record only when it exists, and the one in hand is newer.
RecordedExist ==
  /\ \A n \in Names : recorded[n] <= minted[n]
  /\ at = "mined" => recorded[Plan[pc].on] < minted[Plan[pc].on]

\* No link is ahead of deployment.json.
LinksRecorded ==
  /\ DOMAIN wired = Holders
  /\ \A n \in Holders : wired[n] \in [LinkNames(n) -> Nat]
  /\ \A l \in Links : pointsTo(l) <= recorded[l[3]]

isLive(c) == c.at = recorded[c.on]

\* A call in the file is one of its contract, and sets no link past the instance
\* on record; if its contract is still in use, that has another owner.
Deferred(c) ==
  /\ c.at <= recorded[c.on]
  /\ DOMAIN c.sets \subseteq LinkNames(c.on)
  /\ \A l \in LinksOn(c.on) : l[2] \in DOMAIN c.sets => c.sets[l[2]] <= recorded[l[3]]
  /\ c.fn = "setResolverAndSyncCache" => c.on \in ResolverUsers
  /\ isLive(c) => c.on \in foreign

\* One that waits sets no link back.
NotBehind(c) ==
  isLive(c) =>
    \A l \in LinksOn(c.on) : l[2] \in DOMAIN c.sets => pointsTo(l) <= c.sets[l[2]]

\* Of two calls the later sets a link to the newer instance.
NotBefore(c, d) ==
  c.on = d.on /\ isLive(c) /\ isLive(d) =>
    \A f \in DOMAIN c.sets \cap DOMAIN d.sets : c.sets[f] <= d.sets[f]

DeferredInOrder ==
  /\ ownerActions \in Seq(Entries)
  /\ \A c \in Filed : Deferred(c)
  /\ \A c \in Waiting : NotBehind(c)
  /\ \A i, j \in DOMAIN ownerActions :
       i < j => NotBefore(ownerActions[i].call, ownerActions[j].call)

\* A contract that is flagged, or absent, is created once more; each creation
\* beyond the first is that of a release or repeats one of a stopped run.
isPendingMint(n) == config[n] # "keep" /\ ~(at \in {"mined", "written"} /\ n = Plan[pc].on)
MintsAreBounded ==
  /\ stops \in 0 .. MaxStops /\ upgrades \in 0 .. MaxEvents /\ stops + upgrades <= MaxEvents
  /\ \A n \in Names :
       minted[n] + (IF isPendingMint(n) THEN 1 ELSE 0) <= 1 + stops + upgrades

\* What a run keeps in memory, and the tables that no other part is about.
RunTypes ==
  /\ pricing \in [Versions -> {"none", "free", "frozen"}]
  /\ foreign \subseteq Contracts /\ synced \subseteq ResolverUsers
  /\ tokenFlag \in BOOLEAN /\ oldExrates \in {0} \cup Versions

DeployInv ==
  /\ FilesInv /\ PlaceOK /\ RecordedExist /\ MintsAreBounded
  /\ LinksRecorded /\ DeferredInOrder /\ RunTypes

(* ------------------------ the place and the instances ---------------------- *)

\* A run goes to a step of the plan that is not behind it, or is over.
LEMMA StepsAreInPlan ==
  ASSUME NEW k \in Nat, k > 0
  PROVE  stepFrom(k) \in 0 .. Len(Plan)
<1> DEFINE T == {i \in k .. Len(Plan) : ~isReuse(Plan[i])}
<1>1. stepFrom(k) = IF T = {} THEN 0 ELSE Min(T)
  BY DEF stepFrom
<1>2. T \subseteq 1 .. Len(Plan) /\ T \in SUBSET Nat
  BY PlanAssumption
<1> HIDE DEF T
<1>3. ASSUME T # {} PROVE Min(T) \in 1 .. Len(Plan)
  <2>1. PICK m \in T : \A y \in T : m <= y
    BY <1>2, <1>3, LeastMember
  <2>2. Min(T) = m
    BY <1>2, <2>1, LeastIsMin
  <2> QED BY <1>2, <2>2
<1>4. Len(Plan) \in Nat
  BY PlanAssumption
<1>5. 0 \in 0 .. Len(Plan) /\ 1 .. Len(Plan) \subseteq 0 .. Len(Plan)
  BY <1>4
<1>6. CASE T = {}
  BY <1>1, <1>5, <1>6
<1>7. CASE T # {}
  BY <1>1, <1>3, <1>5, <1>7
<1> QED BY <1>6, <1>7

\* What every step of the plan is about.
LEMMA StepOfPlan ==
  ASSUME PlaceOK, pc # 0
  PROVE  /\ Plan[pc] \in Range(Plan)
         /\ Plan[pc].do = "deploy" => Plan[pc].on \in Contracts /\ Plan[pc].on \in Names
<1>1. Plan[pc] \in Range(Plan)
  BY PlanAssumption DEF PlaceOK, Range
<1> QED BY <1>1 DEF Contracts, Creations, Names

LEMMA PlaceStep ==
  ASSUME PlaceOK, [DeployNext]_deployVars
  PROVE  PlaceOK'
<1>1. ASSUME NEW k \in Nat, k > 0, pc' = stepFrom(k), at' = "step"
      PROVE  PlaceOK'
  BY <1>1, StepsAreInPlan DEF PlaceOK
<1>2. ASSUME advance PROVE PlaceOK'
  <2>1. pc + 1 \in Nat /\ pc + 1 > 0
    BY PlanAssumption DEF PlaceOK
  <2> QED BY <1>1, <1>2, <2>1 DEF advance
<1>3. ASSUME pc' = 0, at' = "step" PROVE PlaceOK'
  BY <1>3, PlanAssumption DEF PlaceOK
<1>4. CASE start
  <2>1. pc' = stepFrom(1) /\ at' = "step"
    BY <1>4 DEF start
  <2> QED BY <1>1, <2>1
<1>5. CASE step
  <2>1. CASE throw
    BY <1>3, <2>1 DEF throw
  <2>2. CASE deploy(Plan[pc]) \/ writeDeployment(Plan[pc])
    BY <1>5, <2>2 DEF step, deploy, writeDeployment, PlaceOK
  <2>3. ASSUME writeConfig(Plan[pc]) \/ nothingRequired(Plan[pc]) \/ send(Plan[pc])
                 \/ appendOwnerAction(Plan[pc])
        PROVE  PlaceOK'
    BY <1>2, <2>3 DEF writeConfig, nothingRequired, send, appendOwnerAction
  <2> QED BY <1>5, <2>1, <2>2, <2>3 DEF step
<1>6. CASE stop
  BY <1>3, <1>6 DEF stop
<1>7. CASE prepareDeploy \/ performOwnerAction \/ UNCHANGED deployVars
  <2>1. UNCHANGED <<pc, at>>
    BY <1>7 DEF prepareDeploy, performOwnerAction, deployVars, run
  <2> QED BY <2>1 DEF PlaceOK
<1> QED BY <1>4, <1>5, <1>6, <1>7 DEF DeployNext

\* No instance is on record that does not exist, and none is created but for a
\* flag, a release or a stopped run.
LEMMA InstancesStep ==
  ASSUME FilesInv, PlaceOK, RecordedExist, MintsAreBounded, [DeployNext]_deployVars
  PROVE  RecordedExist' /\ MintsAreBounded'
<1>0. /\ MaxStops \in Nat /\ MaxEvents \in Nat /\ stops \in Nat /\ upgrades \in Nat
      /\ \A n \in Names : minted[n] \in Nat /\ recorded[n] \in Nat
  BY PlanAssumption DEF MintsAreBounded, FilesInv
<1>1. ASSUME UNCHANGED <<minted, recorded, config, stops, upgrades>>,
             (at = "step" /\ at' = "step") \/ UNCHANGED <<pc, at>>
      PROVE  RecordedExist' /\ MintsAreBounded'
  <2>1. CASE at = "step" /\ at' = "step"
    <3>1. \A n \in Names : isPendingMint(n)' <=> isPendingMint(n)
      BY <1>1, <2>1 DEF isPendingMint
    <3> QED BY <1>1, <2>1, <3>1 DEF RecordedExist, MintsAreBounded
  <2>2. CASE UNCHANGED <<pc, at>>
    <3>1. \A n \in Names : isPendingMint(n)' <=> isPendingMint(n)
      BY <1>1, <2>2 DEF isPendingMint
    <3> QED BY <1>1, <2>2, <3>1 DEF RecordedExist, MintsAreBounded
  <2> QED BY <1>1, <2>1, <2>2
<1>2. CASE pc # 0 /\ deploy(Plan[pc])
  <2>1. /\ UNCHANGED <<recorded, config, pc, stops, upgrades>> /\ at = "step" /\ at' = "mined"
        /\ minted' = [minted EXCEPT ![Plan[pc].on] = @ + 1]
        /\ config[Plan[pc].on] # "keep" /\ Plan[pc].do = "deploy"
    BY <1>2 DEF deploy, mustDeploy
  <2>2. Plan[pc].on \in Names
    BY <1>2, <2>1, StepOfPlan
  <2>3. /\ minted'[Plan[pc].on] = minted[Plan[pc].on] + 1
        /\ \A n \in Names : n # Plan[pc].on => minted'[n] = minted[n]
    BY <2>1, <2>2 DEF FilesInv
  <2>4. \A n \in Names :
          IF n = Plan[pc].on THEN isPendingMint(n) /\ ~isPendingMint(n)'
          ELSE isPendingMint(n)' <=> isPendingMint(n)
    BY <2>1 DEF isPendingMint
  <2>5. RecordedExist'
    BY <1>0, <2>1, <2>2, <2>3 DEF RecordedExist
  <2>6. ASSUME NEW n \in Names
        PROVE  minted'[n] + (IF isPendingMint(n)' THEN 1 ELSE 0) <= 1 + stops + upgrades
    <3>1. minted[n] + (IF isPendingMint(n) THEN 1 ELSE 0) <= 1 + stops + upgrades
      BY DEF MintsAreBounded
    <3>2. CASE n = Plan[pc].on
      BY <1>0, <2>3, <2>4, <3>1, <3>2
    <3>3. CASE n # Plan[pc].on
      BY <1>0, <2>3, <2>4, <3>1, <3>3
    <3> QED BY <3>2, <3>3
  <2> QED BY <2>1, <2>5, <2>6 DEF MintsAreBounded
<1>3. CASE pc # 0 /\ writeDeployment(Plan[pc])
  <2>1. /\ UNCHANGED <<minted, config, pc, stops, upgrades>> /\ at = "mined" /\ at' = "written"
        /\ recorded' = [recorded EXCEPT ![Plan[pc].on] = minted[Plan[pc].on]]
    BY <1>3 DEF writeDeployment
  <2>2. \A n \in Names : recorded'[n] = recorded[n] \/ recorded'[n] = minted[n]
    BY <2>1 DEF FilesInv
  <2>3. \A n \in Names : isPendingMint(n)' <=> isPendingMint(n)
    BY <2>1 DEF isPendingMint
  <2>4. RecordedExist'
    BY <1>0, <2>1, <2>2 DEF RecordedExist
  <2> QED BY <2>1, <2>3, <2>4 DEF MintsAreBounded
<1>4. CASE pc # 0 /\ writeConfig(Plan[pc])
  <2>1. /\ UNCHANGED <<minted, recorded, stops, upgrades>> /\ at = "written" /\ at' = "step"
        /\ config' = [config EXCEPT ![Plan[pc].on] = "keep"]
    BY <1>4 DEF writeConfig, advance, chain
  <2>2. \A n \in Names : isPendingMint(n)' => isPendingMint(n)
    BY <2>1 DEF isPendingMint, FilesInv
  <2>3. RecordedExist'
    BY <2>1 DEF RecordedExist
  <2>4. ASSUME NEW n \in Names
        PROVE  minted'[n] + (IF isPendingMint(n)' THEN 1 ELSE 0) <= 1 + stops + upgrades
    <3>1. minted[n] + (IF isPendingMint(n) THEN 1 ELSE 0) <= 1 + stops + upgrades
      BY DEF MintsAreBounded
    <3> QED BY <1>0, <2>1, <2>2, <3>1
  <2> QED BY <2>1, <2>3, <2>4 DEF MintsAreBounded
<1>5. CASE stop \/ prepareDeploy
  <2>1. /\ UNCHANGED <<minted, recorded>> /\ at' = "step"
        /\ stops' \in 0 .. MaxStops /\ upgrades' \in 0 .. MaxEvents
        /\ stops' + upgrades' <= MaxEvents
        /\ \/ stops' = stops + 1 /\ upgrades' = upgrades
           \/ stops' = stops /\ upgrades' = upgrades + 1
    <3>1. CASE stop
      <4>1. /\ UNCHANGED <<minted, recorded, upgrades>> /\ at' = "step" /\ stops' = stops + 1
            /\ stops < MaxStops /\ stops + upgrades < MaxEvents
        BY <3>1 DEF stop, chain
      <4> QED BY <1>0, <4>1 DEF MintsAreBounded
    <3>2. CASE prepareDeploy
      <4>1. /\ UNCHANGED <<minted, recorded, pc, at, stops>> /\ pc = 0
            /\ stops + upgrades < MaxEvents /\ upgrades' = upgrades + 1
        BY <3>2 DEF prepareDeploy, chain, run
      <4>2. at = "step"
        BY <4>1 DEF PlaceOK
      <4> QED BY <1>0, <4>1, <4>2 DEF MintsAreBounded
    <3> QED BY <1>5, <3>1, <3>2
  <2>3. RecordedExist'
    BY <2>1 DEF RecordedExist
  <2>4. ASSUME NEW n \in Names
        PROVE  minted'[n] + (IF isPendingMint(n)' THEN 1 ELSE 0) <= 1 + stops' + upgrades'
    <3>1. minted[n] + (IF isPendingMint(n) THEN 1 ELSE 0) <= 1 + stops + upgrades
      BY DEF MintsAreBounded
    <3>2. minted[n] <= 1 + stops + upgrades
      BY <1>0, <3>1
    <3>3. stops' + upgrades' = stops + upgrades + 1
      <4>1. stops \in Nat /\ upgrades \in Nat
        BY <1>0
      <4>2. CASE stops' = stops + 1 /\ upgrades' = upgrades
        BY <4>1, <4>2
      <4>3. CASE stops' = stops /\ upgrades' = upgrades + 1
        BY <4>1, <4>3
      <4> QED BY <2>1, <4>2, <4>3
    <3>4. minted'[n] = minted[n] /\ minted[n] \in Nat
      BY <1>0, <2>1
    <3>5. minted[n] + 1 <= 1 + stops' + upgrades' /\ minted[n] <= 1 + stops' + upgrades'
      <4> DEFINE total == stops' + upgrades'
      <4>1. total = stops + upgrades + 1 /\ minted[n] + 1 <= 1 + total /\ minted[n] <= 1 + total
        BY <1>0, <3>2, <3>3, <3>4
      <4>2. stops' \in Nat /\ upgrades' \in Nat
        BY <1>0, <2>1
      <4> QED BY <4>1, <4>2
    <3> QED BY <3>4, <3>5
  <2> QED BY <2>1, <2>3, <2>4 DEF MintsAreBounded
<1>6. CASE start
  <2>1. UNCHANGED <<minted, recorded, config, stops, upgrades>> /\ at = "step" /\ at' = "step"
    BY <1>6 DEF start, chain, PlaceOK
  <2> QED BY <1>1, <2>1
<1>7. CASE pc # 0 /\ throw
  <2>1. at = "step"
    BY <1>7 DEF throw, throws, PlaceOK, FilesInv
  <2>2. UNCHANGED <<minted, recorded, config, stops, upgrades>> /\ at' = "step"
    BY <1>7 DEF throw, chain
  <2> QED BY <1>1, <2>1, <2>2
<1>8. CASE \/ nothingRequired(Plan[pc]) \/ send(Plan[pc]) \/ appendOwnerAction(Plan[pc])
  <2>1. UNCHANGED <<minted, recorded, config, stops, upgrades>> /\ at' = "step"
    BY <1>8 DEF nothingRequired, send, appendOwnerAction, advance, invoke, chain
  <2>2. at = "step"
    BY <1>8 DEF nothingRequired, send, appendOwnerAction, PlaceOK
  <2> QED BY <1>1, <2>1, <2>2
<1>9. CASE performOwnerAction \/ UNCHANGED deployVars
  <2>1. UNCHANGED <<minted, recorded, config, stops, upgrades, pc, at>>
    BY <1>9 DEF performOwnerAction, invoke, chain, run, deployVars
  <2> QED BY <1>1, <2>1
<1> QED BY <1>2, <1>3, <1>4, <1>5, <1>6, <1>7, <1>8, <1>9 DEF DeployNext, step

(* --------------------------- calls to contracts ---------------------------- *)

\* A call that sets links of a contract to the instances on record.
RecordsLinks(c, n) ==
  /\ c \in Calls /\ c.on = n /\ c.at = recorded[n]
  /\ DOMAIN c.sets \subseteq LinkNames(n)
  /\ \A l \in LinksOn(n) : l[2] \in DOMAIN c.sets => c.sets[l[2]] = recorded[l[3]]
  /\ c.fn = "setResolverAndSyncCache" => n \in ResolverUsers

\* The contracts that a link belongs to and points to.
LEMMA LinkEnds ==
  /\ \A l \in Links : /\ l[1] \in Names /\ l[3] \in Names /\ l[1] \in Holders
                      /\ l \in LinksOn(l[1]) /\ l[2] \in LinkNames(l[1])
  /\ \A n : \A f \in LinkNames(n) : \E l \in LinksOn(n) : l[2] = f
  /\ \A n : \A l \in LinksOn(n) : l \in Links /\ l[1] = n
<1>1. \A l \in Links : l[1] \in Names /\ l[3] \in Names
  BY PlanAssumption
<1> QED BY <1>1 DEF Holders, LinksOn, LinkNames

LEMMA CallRecords ==
  ASSUME recorded \in [Names -> Nat], NEW n \in Names, NEW fn \in CallNames,
         NEW links \in SUBSET LinksOn(n), fn = "setResolverAndSyncCache" => n \in ResolverUsers
  PROVE  RecordsLinks(call(n, fn, links), n)
<1> DEFINE target(f) == recorded[(CHOOSE l \in links : l[2] = f)[3]]
           F == {l[2] : l \in links}
           c == call(n, fn, links)
<1>1. c = [on |-> n, at |-> recorded[n], fn |-> fn, sets |-> [f \in F |-> target(f)]]
  BY DEF call
<1>2. \A l \in links : (CHOOSE m \in links : m[2] = l[2]) = l
  <2>1. \A l, m \in links : m[2] = l[2] => m = l
    <3>1. \A l \in links : l \in Links /\ l[1] = n
      BY LinkEnds
    <3> QED BY <3>1, PlanAssumption
  <2>2. ASSUME NEW l \in links PROVE (CHOOSE m \in links : m[2] = l[2]) = l
    BY <2>1
  <2> QED BY <2>2
<1>3. \A l \in links : target(l[2]) = recorded[l[3]]
  BY <1>2
<1>4. \A l \in links : l \in Links /\ l[3] \in Names
  BY LinkEnds
<1>5. \A f \in F : target(f) \in Nat
  BY <1>3, <1>4
<1>6. F \in SUBSET {l[2] : l \in Links} /\ F \subseteq LinkNames(n)
  BY <1>4 DEF LinkNames
<1>7. \A l \in LinksOn(n) : l[2] \in F => l \in links
  <2>1. \A l, m \in LinksOn(n) : l[2] = m[2] => l = m
    BY LinkEnds, PlanAssumption
  <2> QED BY <2>1
<1> HIDE DEF target, F
<1>8. c.sets = [f \in F |-> target(f)] /\ c.on = n /\ c.at = recorded[n] /\ c.fn = fn
  BY <1>1
<1>9. c \in Calls
  <2>1. [f \in F |-> target(f)] \in [F -> Nat]
    BY <1>5
  <2>2. [f \in F |-> target(f)] \in UNION {[G -> Nat] : G \in SUBSET {l[2] : l \in Links}}
    BY <1>6, <2>1
  <2>3. recorded[n] \in Nat
    OBVIOUS
  <2> QED BY <1>1, <2>2, <2>3 DEF Calls
<1>10. \A l \in LinksOn(n) : l[2] \in DOMAIN c.sets => c.sets[l[2]] = recorded[l[3]]
  <2>1. ASSUME NEW l \in LinksOn(n), l[2] \in F PROVE target(l[2]) = recorded[l[3]]
    BY <1>3, <1>7, <2>1
  <2> QED BY <1>8, <2>1
<1> HIDE DEF c
<1>11. RecordsLinks(c, n)
  BY <1>6, <1>8, <1>9, <1>10 DEF RecordsLinks
<1> QED BY <1>11 DEF c

\* So do the calls of every step.
LEMMA NeededCalls ==
  ASSUME FilesInv, PlaceOK, RunTypes, pc # 0, Plan[pc].do # "deploy", NEW c \in needed(Plan[pc])
  PROVE  RecordsLinks(c, Plan[pc].on)
<1> DEFINE s == Plan[pc]
<1>1. s \in Range(Plan) /\ s.do \in {"wire", "issue", "import", "sync", "inverse", "settings"}
  BY StepOfPlan, PlanAssumption
<1>2. recorded \in [Names -> Nat] /\ ResolverUsers \subseteq Names
  BY PlanAssumption DEF FilesInv, Names
<1>3. ASSUME NEW links \in SUBSET Links, \A l \in links : l[1] = s.on, links # {},
             c = call(s.on, "set", links)
      PROVE  RecordsLinks(c, s.on)
  <2>1. links \in SUBSET LinksOn(s.on) /\ s.on \in Names
    BY <1>3, LinkEnds DEF LinksOn
  <2>2. "set" \in CallNames
    BY DEF CallNames
  <2> QED BY <1>2, <1>3, <2>1, <2>2, CallRecords
<1>4. CASE s.do = "wire"
  <2>1. linkOf(s) \in Links /\ linkOf(s)[1] = s.on
    BY <1>1, <1>4 DEF Links, Wires, linkOf
  <2>2. c = call(s.on, "set", {linkOf(s)})
    BY <1>4 DEF needed
  <2> QED BY <1>3, <2>1, <2>2
<1>5. CASE s.do = "issue"
  <2>1. InitialIssuance \in Links /\ InitialIssuance[1] = s.on
    BY <1>1, <1>5, PlanAssumption DEF Links
  <2>2. c = call(s.on, "set", {InitialIssuance})
    BY <1>5 DEF needed
  <2> QED BY <1>3, <2>1, <2>2
<1>6. CASE s.do = "import"
  <2> DEFINE links == {inResolver(n) : n \in notInResolver}
  <2>1. \A l \in links : l \in Links /\ l[1] = s.on
    <3>1. s.on = "AddressResolver"
      BY <1>1, <1>6, PlanAssumption
    <3>2. ASSUME NEW n \in notInResolver
          PROVE  inResolver(n) \in Links /\ inResolver(n)[1] = "AddressResolver"
      <4>1. n \in Required
        BY DEF notInResolver
      <4> QED BY <4>1 DEF Links, inResolver
    <3> QED BY <3>1, <3>2
  <2>2. c = call(s.on, "set", links) /\ links # {}
    BY <1>6 DEF needed
  <2> HIDE DEF links
  <2>3. links \in SUBSET Links
    BY <2>1
  <2> QED BY <1>3, <2>1, <2>2, <2>3
<1>7. CASE s.do = "sync"
  <2>1. c = call(s.on, "setResolverAndSyncCache", {}) /\ s.on \in ResolverUsers
    BY <1>1, <1>7, PlanAssumption DEF needed
  <2>2. "setResolverAndSyncCache" \in CallNames /\ {} \in SUBSET LinksOn(s.on)
    BY DEF CallNames
  <2> QED BY <1>2, <2>1, <2>2, CallRecords
<1>8. CASE s.do = "inverse"
  <2>1. PICK p \in inversePricing : c = call(s.on, p, {})
    BY <1>8 DEF needed
  <2>2. p \in {"free", "frozen"}
    <3>1. pricing[oldExrates] \in {"none", "free", "frozen"} \/ oldExrates = 0
      BY DEF RunTypes
    <3> QED BY <2>1, <3>1 DEF inversePricing
  <2>3. p \in CallNames /\ p # "setResolverAndSyncCache" /\ {} \in SUBSET LinksOn(s.on)
    BY <2>2 DEF CallNames
  <2>4. s.on \in Names
    BY <1>1, <1>2, <1>8, PlanAssumption
  <2> QED BY <1>2, <2>1, <2>3, <2>4, CallRecords
<1>9. CASE s.do = "settings"
  <2>1. Settings \in Links /\ Settings[1] = s.on
    BY <1>1, <1>9, PlanAssumption DEF Links
  <2>2. c = call(s.on, "set", {Settings})
    BY <1>9 DEF needed
  <2> QED BY <1>3, <2>1, <2>2
<1> QED BY <1>1, <1>4, <1>5, <1>6, <1>7, <1>8, <1>9

(* ------------------------------- every step -------------------------------- *)

\* A call of an instance in use sets the links it names and no others; any other
\* call sets none.
LEMMA InvokeSetsLinks ==
  ASSUME LinksRecorded, NEW c \in Calls, DOMAIN c.sets \subseteq LinkNames(c.on), invoke(c)
  PROVE  /\ DOMAIN wired' = Holders
         /\ \A n \in Holders : wired'[n] \in [LinkNames(n) -> Nat]
         /\ \A l \in Links : pointsTo(l)' = IF isLive(c) /\ l[1] = c.on /\ l[2] \in DOMAIN c.sets
                                            THEN c.sets[l[2]] ELSE pointsTo(l)
<1>1. wired' = IF isLive(c) /\ c.on \in Holders
               THEN [wired EXCEPT ![c.on] =
                       [f \in DOMAIN wired[c.on] |->
                          IF f \in DOMAIN c.sets THEN c.sets[f] ELSE wired[c.on][f]]]
               ELSE wired
  BY DEF invoke, isLive
<1>2. DOMAIN wired = Holders /\ \A n \in Holders : wired[n] \in [LinkNames(n) -> Nat]
  BY DEF LinksRecorded
<1>3. CASE ~(isLive(c) /\ c.on \in Holders)
  <2>1. wired' = wired
    BY <1>1, <1>3
  <2>2. \A l \in Links : l[1] \in Holders
    BY LinkEnds
  <2> QED BY <1>2, <1>3, <2>1, <2>2 DEF pointsTo
<1>4. CASE isLive(c) /\ c.on \in Holders
  <2> DEFINE old == wired[c.on]
             new == [f \in DOMAIN old |-> IF f \in DOMAIN c.sets THEN c.sets[f] ELSE old[f]]
  <2>1. /\ DOMAIN c.sets \subseteq LinkNames(c.on) /\ \A f \in DOMAIN c.sets : c.sets[f] \in Nat
        /\ old \in [LinkNames(c.on) -> Nat]
    BY <1>2, <1>4 DEF Calls
  <2>3. /\ new \in [LinkNames(c.on) -> Nat]
        /\ \A f \in LinkNames(c.on) : new[f] = IF f \in DOMAIN c.sets THEN c.sets[f] ELSE old[f]
    <3> HIDE DEF old
    <3> QED BY <2>1
  <2>4. wired' = [wired EXCEPT ![c.on] = new]
    BY <1>1, <1>4
  <2> HIDE DEF new
  <2>5. DOMAIN wired' = Holders /\ \A n \in Holders : wired'[n] = IF n = c.on THEN new ELSE wired[n]
    BY <1>2, <1>4, <2>4
  <2>6. ASSUME NEW l \in Links
        PROVE  pointsTo(l)' = IF isLive(c) /\ l[1] = c.on /\ l[2] \in DOMAIN c.sets
                              THEN c.sets[l[2]] ELSE pointsTo(l)
    <3>1. l[1] \in Holders /\ l[2] \in LinkNames(l[1])
      BY LinkEnds
    <3>2. pointsTo(l)' = wired'[l[1]][l[2]] /\ pointsTo(l) = wired[l[1]][l[2]]
      BY DEF pointsTo
    <3>3. CASE l[1] = c.on
      BY <1>4, <2>3, <2>5, <3>1, <3>2, <3>3
    <3>4. CASE l[1] # c.on
      BY <2>5, <3>1, <3>2, <3>4
    <3> QED BY <3>3, <3>4
  <2>7. \A n \in Holders : wired'[n] \in [LinkNames(n) -> Nat]
    BY <1>2, <2>3, <2>5
  <2> QED BY <2>5, <2>6, <2>7
<1> QED BY <1>3, <1>4

\* A call that is written takes its old place, or the last.
LEMMA WrittenInPlace ==
  ASSUME NEW q \in Seq(Entries), NEW c \in Calls, NEW r, r = withAction(q, c)
  PROVE  /\ r \in Seq(Entries)
         /\ \E i \in DOMAIN r : r[i] = entry(c)
         /\ \A i \in DOMAIN r : r[i] = entry(c) \/ (i \in DOMAIN q /\ r[i] = q[i])
         /\ \A i \in DOMAIN q : i \in DOMAIN r /\ r[i].call = q[i].call
                                /\ (r[i] = q[i] \/ r[i] = entry(c))
         /\ \A i, j \in DOMAIN r : i < j => i \in DOMAIN q /\ (j \in DOMAIN q \/ r[j] = entry(c))
<1>1. entry(c) \in Entries /\ entry(c).call = c
  BY DEF entry, Entries
<1>2. CASE \E i \in DOMAIN q : q[i].call = c
  <2>1. /\ r = [i \in DOMAIN q |-> IF q[i].call = c THEN entry(c) ELSE q[i]]
        /\ DOMAIN r = DOMAIN q
    BY <1>2 DEF withAction
  <2>2. r \in Seq(Entries)
    <3>1. PICK m \in Nat : m = Len(q)
      OBVIOUS
    <3>2. r \in [1 .. m -> Entries]
      BY <1>1, <2>1, <3>1
    <3> QED BY <3>2
  <2> HIDE DEF entry
  <2> QED BY <1>1, <1>2, <2>1, <2>2
<1>3. CASE ~ \E i \in DOMAIN q : q[i].call = c
  <2>1. PICK m \in Nat : m = Len(q)
    OBVIOUS
  <2>2. /\ r \in Seq(Entries) /\ DOMAIN r = 1 .. m + 1 /\ DOMAIN q = 1 .. m
        /\ r[m + 1] = entry(c) /\ \A i \in 1 .. m : r[i] = q[i]
    BY <1>1, <1>3, <2>1 DEF withAction
  <2>3. /\ m + 1 \in 1 .. m + 1 /\ \A i \in 1 .. m + 1 : i \in 1 .. m \/ i = m + 1
        /\ \A i \in 1 .. m : i \in 1 .. m + 1
        /\ \A i, j \in 1 .. m + 1 : i < j => i \in 1 .. m
    OBVIOUS
  <2> QED BY <2>2, <2>3
<1> QED BY <1>2, <1>3

\* The owner performs the first call that waits, and marks it.
LEMMA FirstIsPerformed ==
  ASSUME ownerActions \in Seq(Entries), performOwnerAction
  PROVE  \E k \in pending :
           /\ \A j \in pending : k <= j
           /\ IF reverts(ownerActions[k].call) THEN UNCHANGED chain
              ELSE invoke(ownerActions[k].call)
           /\ ownerActions[k].call \in Calls /\ ownerActions[k].call \in Waiting
           /\ ownerActions' \in Seq(Entries) /\ DOMAIN ownerActions' = DOMAIN ownerActions
           /\ \A i \in DOMAIN ownerActions : ownerActions'[i].call = ownerActions[i].call
           /\ pending' = pending \ {k}
<1>1. PICK k \in pending :
        /\ \A j \in pending : k <= j
        /\ IF reverts(ownerActions[k].call) THEN UNCHANGED chain
           ELSE invoke(ownerActions[k].call)
        /\ ownerActions' = [ownerActions EXCEPT ![k].complete = TRUE]
  BY DEF performOwnerAction
<1>2. PICK m \in Nat : m = Len(ownerActions)
  OBVIOUS
<1>3. DOMAIN ownerActions = 1 .. m /\ \A i \in 1 .. m : ownerActions[i] \in Entries
  BY <1>2
<1>4. k \in 1 .. m
  BY <1>3 DEF pending
<1>5. /\ DOMAIN ownerActions' = 1 .. m
      /\ \A i \in 1 .. m :
           /\ ownerActions'[i] \in Entries /\ ownerActions'[i].call = ownerActions[i].call
           /\ ownerActions'[i].complete = (i = k \/ ownerActions[i].complete)
  BY <1>1, <1>3, <1>4 DEF Entries
<1>6. ownerActions' \in Seq(Entries)
  <2>1. ownerActions' = [i \in 1 .. m |-> ownerActions'[i]]
    BY <1>1, <1>3
  <2>2. ownerActions' \in [1 .. m -> Entries]
    BY <1>5, <2>1
  <2> QED BY <2>2
<1>7. pending' = pending \ {k}
  BY <1>3, <1>4, <1>5 DEF pending
<1>8. ownerActions[k].call \in Calls /\ ownerActions[k].call \in Waiting
  BY <1>3, <1>4 DEF Entries, Waiting
<1> QED BY <1>1, <1>3, <1>5, <1>6, <1>7, <1>8

\* What becomes of the file in a step.
LEMMA FiledOrWaiting ==
  ASSUME ownerActions \in Seq(Entries)
  PROVE  /\ Waiting \subseteq Filed /\ Filed \subseteq Calls
         /\ \A c \in Calls : ownerActions' = withAction(ownerActions, c) =>
              Filed' = Filed \cup {c} /\ Waiting' = Waiting \cup {c}
         /\ performOwnerAction => Filed' = Filed /\ Waiting' \subseteq Waiting
<1>1. Waiting \subseteq Filed
  BY DEF Waiting, Filed, pending
<1>2. Filed \subseteq Calls
  <2>1. \A i \in DOMAIN ownerActions : ownerActions[i] \in Entries
    OBVIOUS
  <2> QED BY <2>1 DEF Filed, Entries
<1>3. ASSUME NEW c \in Calls, ownerActions' = withAction(ownerActions, c)
      PROVE  Filed' = Filed \cup {c} /\ Waiting' = Waiting \cup {c}
  <2>1. /\ \E i \in DOMAIN ownerActions' : ownerActions'[i] = entry(c)
        /\ \A i \in DOMAIN ownerActions' : \/ ownerActions'[i] = entry(c)
                                          \/ /\ i \in DOMAIN ownerActions
                                             /\ ownerActions'[i] = ownerActions[i]
        /\ \A i \in DOMAIN ownerActions :
             /\ i \in DOMAIN ownerActions' /\ ownerActions'[i].call = ownerActions[i].call
             /\ ownerActions'[i] = ownerActions[i] \/ ownerActions'[i] = entry(c)
    BY <1>3, WrittenInPlace
  <2>2. entry(c).call = c /\ ~entry(c).complete
    BY DEF entry
  <2> HIDE DEF entry
  <2>3. Filed' = Filed \cup {c}
    BY <2>1, <2>2 DEF Filed
  <2>4. Waiting' = Waiting \cup {c}
    BY <2>1, <2>2 DEF Waiting, pending
  <2> QED BY <2>3, <2>4
<1>4. ASSUME performOwnerAction PROVE Filed' = Filed /\ Waiting' \subseteq Waiting
  <2>1. PICK k \in pending :
          /\ DOMAIN ownerActions' = DOMAIN ownerActions
          /\ \A i \in DOMAIN ownerActions : ownerActions'[i].call = ownerActions[i].call
          /\ pending' = pending \ {k}
    BY <1>4, FirstIsPerformed
  <2>2. Filed' = Filed
    BY <2>1 DEF Filed
  <2>3. pending \subseteq DOMAIN ownerActions
    BY DEF pending
  <2>4. Waiting' \subseteq Waiting
    BY <2>1, <2>3 DEF Waiting
  <2> QED BY <2>2, <2>4
<1> QED BY <1>1, <1>2, <1>3, <1>4

\* Steps that leave the links, the instances and the file alone.
LEMMA NothingCalled ==
  ASSUME LinksRecorded, DeferredInOrder, UNCHANGED <<recorded, wired, foreign, ownerActions>>
  PROVE  LinksRecorded' /\ DeferredInOrder'
<1>1. LinksRecorded'
  BY DEF LinksRecorded, pointsTo
<1>2. \A c : (Deferred(c) => Deferred(c)') /\ (NotBehind(c) => NotBehind(c)')
  BY DEF Deferred, NotBehind, isLive, pointsTo
<1>3. \A c, d : NotBefore(c, d) => NotBefore(c, d)'
  BY DEF NotBefore, isLive
<1>4. Filed' = Filed /\ Waiting' = Waiting
  BY DEF Filed, Waiting, pending
<1> QED BY <1>1, <1>2, <1>3, <1>4 DEF DeferredInOrder

\* The account that runs the command owns the contract that it calls.
LEMMA SendKeepsLinks ==
  ASSUME FilesInv, PlaceOK, RunTypes, LinksRecorded, DeferredInOrder, pc # 0, send(Plan[pc])
  PROVE  /\ LinksRecorded' /\ DeferredInOrder'
         /\ \A l \in Links : inPlace(l) => pointsTo(l)' = pointsTo(l)
<1> DEFINE n == Plan[pc].on
<1>1. PICK c \in needed(Plan[pc]) : invoke(c)
  BY DEF send
<1>2. RecordsLinks(c, n) /\ n \notin foreign
  BY NeededCalls DEF send
<1>3. UNCHANGED <<recorded, ownerActions, foreign>>
  BY <1>1 DEF send, invoke
<1> HIDE DEF n
<1>4. c \in Calls /\ DOMAIN c.sets \subseteq LinkNames(c.on) /\ c.on = n
  BY <1>2 DEF RecordsLinks
<1>5. /\ DOMAIN wired' = Holders
      /\ \A k \in Holders : wired'[k] \in [LinkNames(k) -> Nat]
      /\ \A l \in Links : pointsTo(l)' = IF isLive(c) /\ l[1] = c.on /\ l[2] \in DOMAIN c.sets
                                         THEN c.sets[l[2]] ELSE pointsTo(l)
  BY <1>1, <1>4, InvokeSetsLinks
<1>6. \A l \in Links : pointsTo(l)' = pointsTo(l) \/ pointsTo(l)' = recorded[l[3]]
  <2>1. \A l \in Links : l[1] = n => l \in LinksOn(n)
    BY LinkEnds
  <2> QED BY <1>2, <1>4, <1>5, <2>1 DEF RecordsLinks
<1>7. \A l \in Links : pointsTo(l)' <= recorded[l[3]]
  BY <1>6, LinkEnds DEF LinksRecorded, FilesInv
<1>8. \A l \in Links : l[1] \in foreign => pointsTo(l)' = pointsTo(l)
  BY <1>2, <1>4, <1>5
<1>9. LinksRecorded'
  BY <1>3, <1>5, <1>7 DEF LinksRecorded
<1>10. \A d : Deferred(d) => Deferred(d)' /\ (NotBehind(d) => NotBehind(d)')
  <2>1. \A k : \A l \in LinksOn(k) : l \in Links /\ l[1] = k
    BY LinkEnds
  <2>2. ASSUME NEW d, Deferred(d) PROVE Deferred(d)' /\ (NotBehind(d) => NotBehind(d)')
    <3>1. isLive(d)' <=> isLive(d)
      BY <1>3 DEF isLive
    <3>2. isLive(d) => \A l \in LinksOn(d.on) : pointsTo(l)' = pointsTo(l)
      BY <1>8, <2>1, <2>2 DEF Deferred
    <3> QED BY <1>3, <2>2, <3>1, <3>2 DEF Deferred, NotBehind
  <2> QED BY <2>2
<1>11. \A d, e : NotBefore(d, e) => NotBefore(d, e)'
  BY <1>3 DEF NotBefore, isLive
<1>12. DeferredInOrder'
  <2>1. Filed' = Filed /\ Waiting' = Waiting /\ Waiting \subseteq Filed
    BY <1>3, FiledOrWaiting DEF Filed, Waiting, pending, DeferredInOrder
  <2> QED BY <1>3, <1>10, <1>11, <2>1 DEF DeferredInOrder
<1> QED BY <1>6, <1>9, <1>12 DEF inPlace

\* What is left to the owner sets the links to the instances on record, and so
\* to none that is older than what an earlier entry sets.
LEMMA AppendKeepsLinks ==
  ASSUME FilesInv, PlaceOK, RunTypes, LinksRecorded, DeferredInOrder, pc # 0,
         appendOwnerAction(Plan[pc])
  PROVE  LinksRecorded' /\ DeferredInOrder'
<1> DEFINE n == Plan[pc].on
<1>1. PICK c \in needed(Plan[pc]) : ownerActions' = withAction(ownerActions, c)
  BY DEF appendOwnerAction
<1>2. RecordsLinks(c, n) /\ n \in foreign
  BY NeededCalls DEF appendOwnerAction
<1>3. UNCHANGED <<recorded, wired, foreign>>
  BY DEF appendOwnerAction, chain
<1> HIDE DEF n
<1>4. c \in Calls /\ ownerActions \in Seq(Entries) /\ Filed \subseteq Calls /\ Waiting \subseteq Filed
      /\ Filed' = Filed \cup {c} /\ Waiting' = Waiting \cup {c}
  BY <1>1, <1>2, FiledOrWaiting DEF RecordsLinks, DeferredInOrder
<1>5. LinksRecorded'
  BY <1>3 DEF LinksRecorded, pointsTo
<1>6. \A d : (Deferred(d) => Deferred(d)') /\ (NotBehind(d) => NotBehind(d)')
  BY <1>3 DEF Deferred, NotBehind, isLive, pointsTo
<1>8. \A l \in Links : recorded[l[3]] \in Nat
  BY LinkEnds DEF FilesInv
<1>9. \A l \in LinksOn(n) : l \in Links
  BY LinkEnds
<1>10. Deferred(c) /\ NotBehind(c)
  <2>1. /\ c.at = recorded[c.on] /\ c.on \in Names /\ recorded[c.on] \in Nat
        /\ c.on = n /\ DOMAIN c.sets \subseteq LinkNames(c.on)
    BY <1>2 DEF RecordsLinks, FilesInv, Calls
  <2>2. \A l \in LinksOn(n) : l[2] \in DOMAIN c.sets =>
          c.sets[l[2]] <= recorded[l[3]] /\ pointsTo(l) <= c.sets[l[2]]
    BY <1>2, <1>8, <1>9 DEF RecordsLinks, LinksRecorded
  <2> QED BY <1>2, <2>1, <2>2 DEF RecordsLinks, Deferred, NotBehind, isLive
<1>11. ASSUME NEW d, Deferred(d) PROVE NotBefore(d, c)
  <2>1. ASSUME d.on = c.on, NEW f \in DOMAIN d.sets \cap DOMAIN c.sets
        PROVE  d.sets[f] <= c.sets[f]
    <3>1. PICK l \in LinksOn(n) : l[2] = f
      BY <1>2, <2>1, LinkEnds DEF RecordsLinks
    <3>2. d.sets[f] <= recorded[l[3]]
      BY <1>2, <1>11, <2>1, <3>1 DEF Deferred, RecordsLinks
    <3>3. c.sets[f] = recorded[l[3]]
      BY <1>2, <2>1, <3>1 DEF RecordsLinks
    <3> QED BY <3>2, <3>3
  <2> QED BY <2>1 DEF NotBefore
<1>12. /\ ownerActions' \in Seq(Entries)
       /\ \A i \in DOMAIN ownerActions : ownerActions'[i].call = ownerActions[i].call
       /\ \A i, j \in DOMAIN ownerActions' : i < j =>
            i \in DOMAIN ownerActions /\ (j \in DOMAIN ownerActions \/ ownerActions'[j] = entry(c))
  BY <1>1, <1>4, WrittenInPlace
<1>13. ASSUME NEW i \in DOMAIN ownerActions', NEW j \in DOMAIN ownerActions', i < j
       PROVE  NotBefore(ownerActions[i].call, ownerActions[j].call)'
  <2>1. i \in DOMAIN ownerActions /\ ownerActions'[i].call = ownerActions[i].call
    BY <1>12, <1>13
  <2>2. CASE j \in DOMAIN ownerActions
    <3>1. NotBefore(ownerActions[i].call, ownerActions[j].call)
      BY <1>13, <2>1, <2>2 DEF DeferredInOrder
    <3>2. ownerActions'[j].call = ownerActions[j].call
      BY <1>12, <2>2
    <3> QED BY <1>3, <2>1, <3>1, <3>2 DEF NotBefore, isLive
  <2>3. CASE ownerActions'[j] = entry(c)
    <3>1. ownerActions'[j].call = c
      BY <2>3 DEF entry
    <3>2. Deferred(ownerActions[i].call)
      BY <2>1 DEF DeferredInOrder, Filed
    <3>3. NotBefore(ownerActions[i].call, c)
      BY <1>11, <3>2
    <3> QED BY <1>3, <2>1, <3>1, <3>3 DEF NotBefore, isLive
  <2> QED BY <1>12, <1>13, <2>2, <2>3
<1>14. DeferredInOrder'
  <2>1. \A d \in Filed' : Deferred(d)'
    BY <1>4, <1>6, <1>10 DEF DeferredInOrder
  <2>2. \A d \in Waiting' : NotBehind(d)'
    BY <1>4, <1>6, <1>10 DEF DeferredInOrder
  <2> QED BY <1>12, <1>13, <2>1, <2>2 DEF DeferredInOrder
<1> QED BY <1>5, <1>14

\* The owner performs the oldest entry first: it takes no link past a younger
\* one, and changes none that already points to the instance on record.
LEMMA PerformKeepsLinks ==
  ASSUME FilesInv, LinksRecorded, DeferredInOrder, performOwnerAction
  PROVE  /\ LinksRecorded' /\ DeferredInOrder'
         /\ \A l \in Links : inPlace(l) => pointsTo(l)' = pointsTo(l)
<1>1. PICK k \in pending :
        /\ \A j \in pending : k <= j
        /\ IF reverts(ownerActions[k].call) THEN UNCHANGED chain
           ELSE invoke(ownerActions[k].call)
        /\ ownerActions[k].call \in Calls /\ ownerActions[k].call \in Waiting
        /\ ownerActions' \in Seq(Entries) /\ DOMAIN ownerActions' = DOMAIN ownerActions
        /\ \A i \in DOMAIN ownerActions : ownerActions'[i].call = ownerActions[i].call
        /\ pending' = pending \ {k}
  BY FirstIsPerformed DEF DeferredInOrder
<1> DEFINE c == ownerActions[k].call
<1>2. UNCHANGED <<recorded, foreign>>
  BY <1>1 DEF performOwnerAction, invoke, chain
<1>3. /\ c \in Calls
      /\ UNCHANGED chain \/ invoke(c)
      /\ Filed' = Filed /\ Waiting \subseteq Filed /\ c \in Waiting
  BY <1>1, FiledOrWaiting DEF DeferredInOrder
<1>4. Deferred(c) /\ NotBehind(c)
      /\ \A d \in Waiting' : Deferred(d) /\ NotBehind(d) /\ NotBefore(c, d)
  <2>1. ASSUME NEW i \in pending' PROVE NotBefore(c, ownerActions[i].call)
    <3>1. i \in pending /\ i # k /\ k <= i
      BY <1>1, <2>1
    <3>2. k \in DOMAIN ownerActions /\ i \in DOMAIN ownerActions /\ k \in Nat /\ i \in Nat
      BY <3>1 DEF pending, DeferredInOrder
    <3> QED BY <3>1, <3>2 DEF DeferredInOrder
  <2>2. \A d \in Waiting' : \E i \in pending' : d = ownerActions[i].call /\ i \in pending
    BY <1>1 DEF Waiting, pending
  <2>3. \A d \in Waiting' : d \in Waiting
    BY <2>2 DEF Waiting
  <2>4. \A d \in Waiting' : NotBefore(c, d)
    BY <2>1, <2>2
  <2> HIDE DEF c
  <2> QED BY <1>3, <2>3, <2>4 DEF DeferredInOrder
<1> HIDE DEF c
<1>5. /\ DOMAIN wired' = Holders
      /\ \A n \in Holders : wired'[n] \in [LinkNames(n) -> Nat]
      /\ \A l \in Links : \/ pointsTo(l)' = pointsTo(l)
                          \/ /\ isLive(c) /\ l[1] = c.on /\ l[2] \in DOMAIN c.sets
                             /\ pointsTo(l)' = c.sets[l[2]]
  <2>1. CASE UNCHANGED chain
    BY <2>1 DEF chain, LinksRecorded, pointsTo
  <2>2. CASE invoke(c)
    BY <1>3, <1>4, <2>2, InvokeSetsLinks DEF Deferred
  <2> QED BY <1>3, <2>1, <2>2
<1>6. ASSUME NEW l \in Links
      PROVE  /\ pointsTo(l)' <= recorded[l[3]] /\ pointsTo(l) <= recorded[l[3]]
             /\ pointsTo(l) <= pointsTo(l)' /\ recorded[l[3]] \in Nat
             /\ pointsTo(l)' \in Nat /\ pointsTo(l) \in Nat
  <2>1. recorded[l[3]] \in Nat /\ pointsTo(l) <= recorded[l[3]]
    BY LinkEnds DEF FilesInv, LinksRecorded
  <2>2. pointsTo(l) \in Nat /\ pointsTo(l)' \in Nat
    BY <1>5, LinkEnds DEF pointsTo, LinksRecorded
  <2>3. CASE pointsTo(l)' = pointsTo(l)
    BY <2>1, <2>2, <2>3
  <2>4. CASE /\ isLive(c) /\ l[1] = c.on /\ l[2] \in DOMAIN c.sets
             /\ pointsTo(l)' = c.sets[l[2]]
    <3>1. l \in LinksOn(c.on)
      BY <2>4, LinkEnds
    <3> QED BY <1>4, <2>1, <2>2, <2>4, <3>1 DEF Deferred, NotBehind
  <2> QED BY <1>5, <2>3, <2>4
<1>7. LinksRecorded'
  BY <1>2, <1>5, <1>6 DEF LinksRecorded
<1>8. ASSUME NEW d \in Waiting' PROVE NotBehind(d)'
  <2>1. NotBehind(d) /\ NotBefore(c, d)
    BY <1>4
  <2>2. isLive(d)' <=> isLive(d)
    BY <1>2 DEF isLive
  <2>3. ASSUME isLive(d), NEW l \in LinksOn(d.on), l[2] \in DOMAIN d.sets
        PROVE  pointsTo(l)' <= d.sets[l[2]]
    <3>1. pointsTo(l) <= d.sets[l[2]]
      BY <2>1, <2>3 DEF NotBehind
    <3>2. l \in Links /\ l[1] = d.on
      BY LinkEnds
    <3>3. CASE pointsTo(l)' = pointsTo(l)
      BY <3>1, <3>3
    <3>4. CASE /\ isLive(c) /\ l[1] = c.on /\ l[2] \in DOMAIN c.sets
               /\ pointsTo(l)' = c.sets[l[2]]
      <4>1. c.sets[l[2]] <= d.sets[l[2]]
        BY <2>1, <2>3, <3>2, <3>4 DEF NotBefore
      <4> QED BY <3>4, <4>1
    <3> QED BY <1>5, <3>2, <3>3, <3>4
  <2> QED BY <2>2, <2>3 DEF NotBehind
<1>9. \A d : Deferred(d) => Deferred(d)'
  BY <1>2 DEF Deferred, isLive
<1>10. DeferredInOrder'
  <2>1. \A d \in Filed' : Deferred(d)'
    BY <1>3, <1>9 DEF DeferredInOrder
  <2>2. ASSUME NEW i \in DOMAIN ownerActions', NEW j \in DOMAIN ownerActions', i < j
        PROVE  NotBefore(ownerActions[i].call, ownerActions[j].call)'
    <3>1. NotBefore(ownerActions[i].call, ownerActions[j].call)
      BY <1>1, <2>2 DEF DeferredInOrder
    <3>2. /\ ownerActions'[i].call = ownerActions[i].call
          /\ ownerActions'[j].call = ownerActions[j].call
      BY <1>1, <2>2
    <3> QED BY <1>2, <3>1, <3>2 DEF NotBefore, isLive
  <2> QED BY <1>1, <1>8, <2>1, <2>2 DEF DeferredInOrder
<1>11. \A l \in Links : inPlace(l) => pointsTo(l)' = pointsTo(l)
  <2>1. ASSUME NEW l \in Links, inPlace(l) PROVE pointsTo(l)' = pointsTo(l)
    BY <1>6, <2>1 DEF inPlace
  <2> QED BY <2>1
<1> QED BY <1>7, <1>10, <1>11

\* A new instance starts with the links its constructor sets; the calls left for
\* the one it replaces have no effect any more.
LEMMA WriteKeepsLinks ==
  ASSUME FilesInv, PlaceOK, RecordedExist, LinksRecorded, DeferredInOrder, pc # 0,
         writeDeployment(Plan[pc])
  PROVE  LinksRecorded' /\ DeferredInOrder' /\ recorded' # recorded
<1> DEFINE s == Plan[pc]
<1>1. /\ UNCHANGED ownerActions /\ at = "mined" /\ s.do = "deploy"
      /\ recorded' = [recorded EXCEPT ![s.on] = minted[s.on]]
      /\ wired' = linksOfNew(s) /\ foreign' = foreign \ {s.on}
  BY DEF writeDeployment
<1>2. s \in Range(Plan) /\ s.on \in Names
  BY <1>1, StepOfPlan
<1>3. /\ recorded \in [Names -> Nat] /\ minted \in [Names -> Nat]
      /\ recorded[s.on] < minted[s.on]
  BY <1>1 DEF FilesInv, RecordedExist
<1>4. /\ recorded'[s.on] > recorded[s.on] /\ recorded' # recorded
      /\ \A n \in Names : n # s.on => recorded'[n] = recorded[n]
      /\ \A n \in Names : /\ recorded'[n] \in Nat /\ recorded[n] \in Nat
                          /\ recorded[n] <= recorded'[n]
  <2>1. recorded'[s.on] = minted[s.on]
    BY <1>1, <1>2, <1>3
  <2>2. \A n \in Names : n # s.on => recorded'[n] = recorded[n]
    BY <1>1, <1>3
  <2> QED BY <1>2, <1>3, <2>1, <2>2
<1>5. DOMAIN wired = Holders /\ \A n \in Holders : wired[n] \in [LinkNames(n) -> Nat]
  BY DEF LinksRecorded
<1>6. /\ DOMAIN wired' = Holders /\ \A n \in Holders : wired'[n] \in [LinkNames(n) -> Nat]
      /\ \A l \in Links : l[1] # s.on => pointsTo(l)' = pointsTo(l)
      /\ \A l \in Links : \/ pointsTo(l)' \in {0, pointsTo(l)}
                          \/ pointsTo(l)' = recorded[l[3]]
  <2>1. CASE s.on \notin Holders \/ s.on = Settings[1]
    <3>1. wired' = wired
      BY <1>1, <2>1 DEF linksOfNew
    <3> QED BY <1>5, <3>1 DEF pointsTo
  <2>2. CASE s.on \in Holders /\ s.on # Settings[1]
    <3> DEFINE arg(f) == CHOOSE a \in s.args : a[1] = f
               set(f) == IF \E a \in s.args : a[1] = f THEN recorded[arg(f)[2]] ELSE 0
               new == [f \in LinkNames(s.on) |-> set(f)]
    <3>1. wired' = [wired EXCEPT ![s.on] = new]
      <4>1. DOMAIN wired[s.on] = LinkNames(s.on)
        BY <1>5, <2>2
      <4> QED BY <1>1, <2>2, <4>1 DEF linksOfNew
    <3>2. \A l \in LinksOn(s.on) : set(l[2]) \in {0, recorded[l[3]]}
      <4>1. ASSUME NEW l \in LinksOn(s.on), \E a \in s.args : a[1] = l[2]
            PROVE  arg(l[2])[2] = l[3]
        <5>1. arg(l[2]) \in s.args /\ arg(l[2])[1] = l[2]
          BY <4>1
        <5> HIDE DEF arg
        <5> QED BY <1>1, <1>2, <5>1, PlanAssumption
      <4> HIDE DEF arg
      <4> QED BY <4>1
    <3> HIDE DEF arg, set
    <3>3. \A l \in LinksOn(s.on) : l \in Links /\ recorded[l[3]] \in Nat
      BY <1>3, LinkEnds
    <3>4. \A f \in LinkNames(s.on) : set(f) \in Nat
      BY <3>2, <3>3, LinkEnds
    <3>5. /\ new \in [LinkNames(s.on) -> Nat]
          /\ \A f \in LinkNames(s.on) : new[f] = set(f)
      BY <3>4
    <3> HIDE DEF new
    <3>6. /\ DOMAIN wired' = Holders
          /\ \A n \in Holders : wired'[n] = IF n = s.on THEN new ELSE wired[n]
      BY <1>5, <2>2, <3>1
    <3>7. \A n \in Holders : wired'[n] \in [LinkNames(n) -> Nat]
      BY <1>5, <3>5, <3>6
    <3>8. \A l \in Links : l[1] # s.on => pointsTo(l)' = pointsTo(l)
      BY <3>6, LinkEnds DEF pointsTo
    <3>9. \A l \in Links : l[1] = s.on => pointsTo(l)' \in {0, recorded[l[3]]}
      <4>1. ASSUME NEW l \in Links, l[1] = s.on PROVE pointsTo(l)' \in {0, recorded[l[3]]}
        <5>1. l \in LinksOn(s.on) /\ l[2] \in LinkNames(s.on)
          BY <4>1, LinkEnds
        <5>2. pointsTo(l)' = set(l[2])
          BY <2>2, <3>5, <3>6, <4>1, <5>1 DEF pointsTo
        <5> QED BY <3>2, <5>1, <5>2
      <4> QED BY <4>1
    <3> QED BY <3>6, <3>7, <3>8, <3>9
  <2> QED BY <2>1, <2>2
<1> HIDE DEF s
<1>7. \A l \in Links : pointsTo(l)' <= recorded'[l[3]]
  <2>1. ASSUME NEW l \in Links PROVE pointsTo(l)' <= recorded'[l[3]]
    <3>1. /\ l[3] \in Names /\ pointsTo(l) <= recorded[l[3]] /\ pointsTo(l) \in Nat
      BY LinkEnds DEF LinksRecorded, pointsTo
    <3>2. recorded[l[3]] <= recorded'[l[3]] /\ recorded[l[3]] \in Nat /\ recorded'[l[3]] \in Nat
      BY <1>4, <3>1
    <3>3. \/ pointsTo(l)' = 0 \/ pointsTo(l)' = pointsTo(l)
          \/ pointsTo(l)' = recorded[l[3]]
      BY <1>6
    <3> QED BY <3>1, <3>2, <3>3
  <2> QED BY <2>1
<1>8. LinksRecorded'
  BY <1>6, <1>7 DEF LinksRecorded
<1>9. \A d \in Calls : d.on \in Names /\ d.at \in Nat
                       /\ \A f \in DOMAIN d.sets : d.sets[f] \in Nat
  BY DEF Calls
<1>10. \A d \in Calls : Deferred(d) /\ isLive(d)' => isLive(d) /\ d.on # s.on
  <2>1. ASSUME NEW d \in Calls, Deferred(d), isLive(d)' PROVE isLive(d) /\ d.on # s.on
    <3>1. d.at <= recorded[d.on] /\ d.at = recorded'[d.on] /\ d.on \in Names
      BY <1>9, <2>1 DEF Deferred, isLive
    <3>2. d.on # s.on
      BY <1>4, <1>9, <3>1
    <3> QED BY <1>4, <3>1, <3>2 DEF isLive
  <2> QED BY <2>1
<1>11. ASSUME NEW d \in Calls, Deferred(d)
       PROVE  Deferred(d)' /\ (NotBehind(d) => NotBehind(d)')
  <2>1. d.at <= recorded'[d.on]
    <3>1. d.at <= recorded[d.on] /\ d.at \in Nat /\ d.on \in Names
      BY <1>9, <1>11 DEF Deferred
    <3> QED BY <1>4, <3>1
  <2>2. ASSUME NEW l \in LinksOn(d.on), l[2] \in DOMAIN d.sets
        PROVE  d.sets[l[2]] <= recorded'[l[3]]
    <3>1. d.sets[l[2]] <= recorded[l[3]] /\ d.sets[l[2]] \in Nat /\ l[3] \in Names
      BY <1>9, <1>11, <2>2, LinkEnds DEF Deferred
    <3> QED BY <1>4, <3>1
  <2>3. ASSUME isLive(d)'
        PROVE  /\ d.on \in foreign'
               /\ isLive(d) /\ \A l \in LinksOn(d.on) : pointsTo(l)' = pointsTo(l)
    <3>1. isLive(d) /\ d.on # s.on
      BY <1>10, <1>11, <2>3
    <3>2. \A l \in LinksOn(d.on) : pointsTo(l)' = pointsTo(l)
      BY <1>6, <3>1, LinkEnds
    <3> QED BY <1>1, <1>11, <3>1, <3>2 DEF Deferred
  <2> QED BY <1>11, <2>1, <2>2, <2>3 DEF Deferred, NotBehind
<1>12. \A d, e \in Calls : Deferred(d) /\ Deferred(e) /\ NotBefore(d, e) => NotBefore(d, e)'
  BY <1>10 DEF NotBefore
<1>13. /\ Filed \subseteq Calls /\ Waiting \subseteq Filed /\ Filed' = Filed /\ Waiting' = Waiting
       /\ ownerActions' = ownerActions
  BY <1>1, FiledOrWaiting DEF DeferredInOrder, Filed, Waiting, pending
<1>14. DeferredInOrder'
  <2>1. \A d \in Filed' : Deferred(d)'
    BY <1>11, <1>13 DEF DeferredInOrder
  <2>2. \A d \in Waiting' : NotBehind(d)'
    BY <1>11, <1>13 DEF DeferredInOrder
  <2>3. ASSUME NEW i \in DOMAIN ownerActions, NEW j \in DOMAIN ownerActions, i < j
        PROVE  NotBefore(ownerActions[i].call, ownerActions[j].call)'
    <3>1. ownerActions[i].call \in Filed /\ ownerActions[j].call \in Filed
      BY DEF Filed
    <3> QED BY <1>12, <1>13, <2>3, <3>1 DEF DeferredInOrder
  <2> QED BY <1>13, <2>1, <2>2, <2>3 DEF DeferredInOrder
<1> QED BY <1>4, <1>8, <1>14

(* ----------------------------- the invariant ------------------------------- *)

\* The links of both networks at the start.
LEMMA LinkTables ==
  ASSUME NEW V \in [Links -> Nat]
  PROVE  /\ DOMAIN LinkTable(V) = Holders
         /\ \A n \in Holders : LinkTable(V)[n] \in [LinkNames(n) -> Nat]
         /\ \A l \in Links : LinkTable(V)[l[1]][l[2]] = V[l]
<1> DEFINE W == LinkTable(V)
           named(n, f) == CHOOSE l \in LinksOn(n) : l[2] = f
<1>1. W = [n \in Holders |-> [f \in LinkNames(n) |-> V[named(n, f)]]]
  BY DEF LinkTable, LinkNames
<1>2. \A n : \A f \in LinkNames(n) : named(n, f) \in LinksOn(n) /\ named(n, f)[2] = f
  BY LinkEnds
<1>3. \A l \in Links : named(l[1], l[2]) = l
  <2>1. ASSUME NEW l \in Links PROVE named(l[1], l[2]) = l
    <3>1. named(l[1], l[2]) \in LinksOn(l[1]) /\ named(l[1], l[2])[2] = l[2]
      BY <1>2, LinkEnds
    <3> HIDE DEF named
    <3> QED BY <3>1, LinkEnds, PlanAssumption
  <2> QED BY <2>1
<1> HIDE DEF named, W
<1>4. \A n \in Holders : \A f \in LinkNames(n) : V[named(n, f)] \in Nat
  BY <1>2, LinkEnds
<1>5. DOMAIN W = Holders /\ \A n \in Holders : W[n] = [f \in LinkNames(n) |-> V[named(n, f)]]
  BY <1>1
<1>6. \A n \in Holders : W[n] \in [LinkNames(n) -> Nat]
  BY <1>4, <1>5
<1>7. \A l \in Links : W[l[1]][l[2]] = V[l]
  BY <1>3, <1>5, LinkEnds
<1> QED BY <1>5, <1>6, <1>7 DEF W

LEMMA InvInit == DeployInit => DeployInv
<1> SUFFICES ASSUME DeployInit PROVE DeployInv
  OBVIOUS
<1>1. /\ minted = recorded /\ ownerActions = <<>> /\ pc = 0 /\ at = "step"
      /\ tokenFlag = FALSE /\ oldExrates = 0 /\ stops = 0 /\ upgrades = 0
  BY DEF DeployInit
<1>2. FilesInv
  BY FilesInit
<1>3. /\ MaxStops \in Nat /\ MaxEvents \in Nat /\ Feed \notin Unlisted /\ Len(Plan) \in Nat
  BY PlanAssumption
<1>4. PlaceOK /\ RecordedExist
  BY <1>1, <1>2, <1>3 DEF PlaceOK, RecordedExist, FilesInv
<1>5. DeferredInOrder
  <2>1. ownerActions \in Seq(Entries) /\ DOMAIN ownerActions = {} /\ Filed = {} /\ Waiting = {}
    BY <1>1 DEF Filed, Waiting, pending
  <2> QED BY <1>1, <2>1 DEF DeferredInOrder
<1>6. CASE FreshNetwork
  <2>1. /\ config = [n \in Names |-> IF n \in Unlisted THEN "absent"
                                     ELSE IF n = Feed THEN "keep" ELSE "deploy"]
        /\ recorded = [n \in Names |-> IF n = Feed THEN 1 ELSE 0]
        /\ wired = LinkTable([l \in Links |-> 0]) /\ synced = {} /\ foreign = {}
        /\ pricing = [v \in Versions |-> "none"]
    BY <1>6 DEF FreshNetwork
  <2>2. MintsAreBounded
    <3>1. ASSUME NEW n \in Names
          PROVE  minted[n] + (IF isPendingMint(n) THEN 1 ELSE 0) <= 1
      <4>1. (minted[n] = 1 /\ config[n] = "keep") \/ minted[n] = 0
        BY <1>1, <1>3, <2>1
      <4> QED BY <4>1 DEF isPendingMint
    <3> QED BY <1>1, <1>3, <3>1 DEF MintsAreBounded
  <2>3. /\ DOMAIN wired = Holders /\ \A n \in Holders : wired[n] \in [LinkNames(n) -> Nat]
        /\ \A l \in Links : pointsTo(l) = 0
    <3> DEFINE V == [l \in Links |-> 0]
    <3>1. V \in [Links -> Nat] /\ \A l \in Links : V[l] = 0
      OBVIOUS
    <3>2. wired = LinkTable(V)
      BY <2>1
    <3> HIDE DEF V
    <3> QED BY <3>1, <3>2, LinkTables DEF pointsTo
  <2>4. LinksRecorded
    <3>1. \A l \in Links : recorded[l[3]] \in Nat
      BY <1>2, LinkEnds DEF FilesInv
    <3> QED BY <2>3, <3>1 DEF LinksRecorded
  <2>5. RunTypes
    BY <1>1, <2>1 DEF RunTypes
  <2> QED BY <1>2, <1>4, <1>5, <2>2, <2>4, <2>5 DEF DeployInv
<1>7. CASE RunningNetwork
  <2>1. /\ config = [n \in Names |-> IF n \in Unlisted THEN "absent" ELSE "keep"]
        /\ recorded = [n \in Names |-> IF n \in Unlisted THEN 0 ELSE 1]
        /\ wired = LinkTable([l \in Links |-> IF {l[1], l[3]} \cap Unlisted = {} THEN 1 ELSE 0])
        /\ synced = {n \in ResolverUsers : (Needs(n) \cup {n}) \cap Unlisted = {}}
        /\ foreign = Contracts \ Unlisted
        /\ pricing = [v \in Versions |-> IF v = 1 THEN "frozen" ELSE "none"]
    BY <1>7 DEF RunningNetwork
  <2>2. MintsAreBounded
    <3>1. ASSUME NEW n \in Names
          PROVE  minted[n] + (IF isPendingMint(n) THEN 1 ELSE 0) <= 1
      <4>1. (minted[n] = 1 /\ config[n] = "keep") \/ minted[n] = 0
        BY <1>1, <1>3, <2>1
      <4> QED BY <4>1 DEF isPendingMint
    <3> QED BY <1>1, <1>3, <3>1 DEF MintsAreBounded
  <2>3. /\ DOMAIN wired = Holders /\ \A n \in Holders : wired[n] \in [LinkNames(n) -> Nat]
        /\ \A l \in Links : pointsTo(l) = IF {l[1], l[3]} \cap Unlisted = {} THEN 1 ELSE 0
    <3> DEFINE V == [l \in Links |-> IF {l[1], l[3]} \cap Unlisted = {} THEN 1 ELSE 0]
    <3>1. /\ V \in [Links -> Nat]
          /\ \A l \in Links : V[l] = IF {l[1], l[3]} \cap Unlisted = {} THEN 1 ELSE 0
      OBVIOUS
    <3>2. wired = LinkTable(V)
      BY <2>1
    <3> HIDE DEF V
    <3> QED BY <3>1, <3>2, LinkTables DEF pointsTo
  <2>4. LinksRecorded
    <3>1. ASSUME NEW l \in Links PROVE pointsTo(l) <= recorded[l[3]]
      <4>1. l[3] \in Names /\ recorded[l[3]] = IF l[3] \in Unlisted THEN 0 ELSE 1
        BY <2>1, LinkEnds
      <4> QED BY <2>3, <4>1
    <3> QED BY <2>3, <3>1 DEF LinksRecorded
  <2>5. RunTypes
    BY <1>1, <2>1 DEF RunTypes
  <2> QED BY <1>2, <1>4, <1>5, <2>2, <2>4, <2>5 DEF DeployInv
<1> QED BY <1>6, <1>7 DEF DeployInit

\* The links and the file, in every step.
LEMMA LinksStep ==
  ASSUME DeployInv, [DeployNext]_deployVars
  PROVE  /\ LinksRecorded' /\ DeferredInOrder'
         /\ recorded' # recorded \/ \A l \in Links : inPlace(l) => pointsTo(l)' = pointsTo(l)
<1> USE DEF DeployInv
<1>1. ASSUME UNCHANGED <<recorded, wired, foreign, ownerActions>>
      PROVE  /\ LinksRecorded' /\ DeferredInOrder'
             /\ \A l \in Links : inPlace(l) => pointsTo(l)' = pointsTo(l)
  BY <1>1, NothingCalled DEF pointsTo
<1>2. CASE pc # 0 /\ (deploy(Plan[pc]) \/ writeConfig(Plan[pc]) \/ nothingRequired(Plan[pc]))
  <2>1. UNCHANGED <<recorded, wired, foreign, ownerActions>>
    BY <1>2 DEF deploy, writeConfig, nothingRequired, chain
  <2> QED BY <1>1, <2>1
<1>3. CASE pc # 0 /\ writeDeployment(Plan[pc])
  BY <1>3, WriteKeepsLinks
<1>4. CASE pc # 0 /\ send(Plan[pc])
  BY <1>4, SendKeepsLinks
<1>5. CASE pc # 0 /\ appendOwnerAction(Plan[pc])
  <2>1. UNCHANGED wired
    BY <1>5 DEF appendOwnerAction, chain
  <2> QED BY <1>5, <2>1, AppendKeepsLinks DEF pointsTo
<1>6. CASE performOwnerAction
  BY <1>6, PerformKeepsLinks
<1>7. CASE throw \/ start \/ stop \/ prepareDeploy \/ UNCHANGED deployVars
  <2>1. UNCHANGED <<recorded, wired, foreign, ownerActions>>
    BY <1>7 DEF throw, start, stop, prepareDeploy, deployVars, chain
  <2> QED BY <1>1, <2>1
<1> QED BY <1>2, <1>3, <1>4, <1>5, <1>6, <1>7 DEF DeployNext, step

\* The tables that a call changes besides the links.
LEMMA InvokeKeepsTypes ==
  ASSUME RunTypes, NEW c \in Calls, c.fn = "setResolverAndSyncCache" => c.on \in ResolverUsers,
         invoke(c)
  PROVE  /\ pricing' \in [Versions -> {"none", "free", "frozen"}]
         /\ synced' \subseteq ResolverUsers /\ foreign' = foreign
<1>1. pricing' = IF c.fn \in {"free", "frozen"} THEN [pricing EXCEPT ![c.at] = c.fn] ELSE pricing
  BY DEF invoke
<1>2. pricing' \in [Versions -> {"none", "free", "frozen"}]
  BY <1>1 DEF RunTypes
<1>3. synced' \subseteq synced \cup {n \in ResolverUsers : TRUE}
  BY DEF invoke
<1>4. foreign' = foreign
  BY DEF invoke
<1> QED BY <1>2, <1>3, <1>4 DEF RunTypes

LEMMA TypesStep ==
  ASSUME DeployInv, [DeployNext]_deployVars
  PROVE  RunTypes'
<1> USE DEF DeployInv
<1>1. ASSUME UNCHANGED <<pricing, synced, tokenFlag, oldExrates>>, foreign' \subseteq foreign
      PROVE  RunTypes'
  BY <1>1 DEF RunTypes
<1>2. ASSUME NEW c \in Calls, c.fn = "setResolverAndSyncCache" => c.on \in ResolverUsers,
             invoke(c), UNCHANGED <<tokenFlag, oldExrates>>
      PROVE  RunTypes'
  BY <1>2, InvokeKeepsTypes DEF RunTypes
<1>3. CASE start
  <2>1. "ExchangeRates" \in Names
    BY PlanAssumption DEF Names
  <2>2. recorded["ExchangeRates"] \in {0} \cup Versions
    <3>1. /\ recorded["ExchangeRates"] \in Nat /\ minted["ExchangeRates"] \in Nat
          /\ recorded["ExchangeRates"] <= minted["ExchangeRates"]
      BY <2>1 DEF FilesInv, RecordedExist
    <3>2. minted["ExchangeRates"] <= 1 + stops + upgrades
      BY <2>1, <3>1 DEF MintsAreBounded
    <3>3. stops + upgrades <= MaxEvents /\ stops \in Nat /\ upgrades \in Nat /\ MaxEvents \in Nat
      BY PlanAssumption DEF MintsAreBounded
    <3> QED BY <3>1, <3>2, <3>3 DEF Versions
  <2> QED BY <1>3, <2>2 DEF start, chain, RunTypes
<1>4. CASE pc # 0 /\ send(Plan[pc])
  <2>1. PICK c \in needed(Plan[pc]) : invoke(c)
    BY <1>4 DEF send
  <2>2. RecordsLinks(c, Plan[pc].on)
    BY <1>4, NeededCalls DEF send
  <2>3. UNCHANGED <<tokenFlag, oldExrates>>
    BY <1>4 DEF send, advance
  <2> QED BY <1>2, <2>1, <2>2, <2>3 DEF RecordsLinks
<1>5. CASE performOwnerAction
  <2>1. PICK c \in Waiting : c \in Calls /\ (UNCHANGED chain \/ invoke(c))
    BY <1>5, FirstIsPerformed DEF DeferredInOrder
  <2>2. Deferred(c) /\ UNCHANGED <<tokenFlag, oldExrates>>
    BY <1>5, <2>1, FiledOrWaiting DEF DeferredInOrder, performOwnerAction, run
  <2>3. CASE UNCHANGED chain
    BY <1>1, <2>2, <2>3 DEF chain
  <2>4. CASE invoke(c)
    BY <1>2, <2>1, <2>2, <2>4 DEF Deferred
  <2> QED BY <2>1, <2>3, <2>4
<1>6. CASE pc # 0 /\ writeDeployment(Plan[pc])
  <2>1. /\ UNCHANGED <<pricing, tokenFlag, oldExrates>>
        /\ foreign' \subseteq foreign /\ synced' \subseteq synced
    BY <1>6 DEF writeDeployment
  <2> QED BY <2>1 DEF RunTypes
<1>7. CASE \/ throw \/ stop \/ prepareDeploy \/ UNCHANGED deployVars \/ deploy(Plan[pc])
           \/ writeConfig(Plan[pc]) \/ nothingRequired(Plan[pc]) \/ appendOwnerAction(Plan[pc])
  <2>1. UNCHANGED <<pricing, synced, foreign, tokenFlag, oldExrates>>
    BY <1>7 DEF throw, stop, prepareDeploy, deployVars, deploy, writeConfig, nothingRequired,
                appendOwnerAction, advance, chain, run
  <2> QED BY <1>1, <2>1
<1> QED BY <1>3, <1>4, <1>5, <1>6, <1>7 DEF DeployNext, step

LEMMA InvStep == DeployInv /\ [DeployNext]_deployVars => DeployInv'
<1> SUFFICES ASSUME DeployInv, [DeployNext]_deployVars PROVE DeployInv'
  OBVIOUS
<1>1. FilesInv' /\ PlaceOK'
  BY FilesStep, PlaceStep DEF DeployInv
<1>2. RecordedExist' /\ MintsAreBounded'
  BY InstancesStep DEF DeployInv
<1>3. LinksRecorded' /\ DeferredInOrder'
  BY LinksStep
<1>4. RunTypes'
  BY TypesStep
<1> QED BY <1>1, <1>2, <1>3, <1>4 DEF DeployInv

LEMMA InvAlways == DeploySpec => []DeployInv
<1>1. DeploySpec => DeployInit /\ [][DeployNext]_deployVars
  BY PTL DEF DeploySpec
<1> QED BY <1>1, InvInit, InvStep, PTL

\* Every part of the type follows.
LEMMA InvTypes == DeployInv => DeployTypeOK
<1> SUFFICES ASSUME DeployInv PROVE DeployTypeOK
  OBVIOUS
<1> USE DEF DeployInv
<1>1. ASSUME NEW n \in Names
      PROVE  recorded[n] <= minted[n] /\ minted[n] \in {0} \cup Versions
  <2>1. minted[n] \in Nat /\ recorded[n] <= minted[n]
    BY DEF FilesInv, RecordedExist
  <2>2. minted[n] <= 1 + stops + upgrades
    BY <2>1 DEF MintsAreBounded
  <2>3. stops + upgrades <= MaxEvents /\ stops \in Nat /\ upgrades \in Nat /\ MaxEvents \in Nat
    BY PlanAssumption DEF MintsAreBounded
  <2> QED BY <2>1, <2>2, <2>3 DEF Versions
<1>2. ASSUME NEW l \in Links PROVE pointsTo(l) \in 0 .. minted[l[3]]
  <2>1. pointsTo(l) \in Nat /\ pointsTo(l) <= recorded[l[3]] /\ l[3] \in Names
    BY LinkEnds DEF LinksRecorded, pointsTo
  <2>2. recorded[l[3]] <= minted[l[3]] /\ recorded[l[3]] \in Nat /\ minted[l[3]] \in Nat
    BY <2>1 DEF FilesInv, RecordedExist
  <2> QED BY <2>1, <2>2
<1>3. oldExrates \in Nat
  BY PlanAssumption DEF RunTypes, Versions
<1> QED BY <1>1, <1>2, <1>3 DEF DeployTypeOK, RunTypes, FilesInv, PlaceOK, MintsAreBounded

\* deploy.js: no file and no link names an instance that was never created, and
\* no contract is created more often than once, plus once for every release that
\* flags it and every run that stopped before its flag was cleared.
THEOREM DeployTypeCorrect == DeploySpec => []DeployTypeOK
<1> QED BY InvTypes, InvAlways, PTL

\* util.js: a link to the contract in use is never turned back to an older one,
\* not even by a call that waited in owner-actions.json while the contract was
\* replaced once more.
THEOREM LinksStayForward == DeploySpec => LinksDoNotRegress
<1>1. DeployInv /\ [DeployNext]_deployVars
        => [wired' # wired /\ recorded' = recorded =>
              \A l \in Links : inPlace(l) => wired'[l[1]][l[2]] = pointsTo(l)]_deployVars
  BY LinksStep DEF pointsTo
<1>2. DeploySpec => [][DeployNext]_deployVars
  BY PTL DEF DeploySpec
<1> QED BY <1>1, <1>2, InvAlways, PTL DEF LinksDoNotRegress

(* -------------------------- what is done only once ------------------------- *)

\* No run ends by an exception.
NoRunThrows == pc # 0 => ~throws(Plan[pc])

Token == InitialIssuance[1]
Balance == InitialIssuance[2]
ExRates == "ExchangeRates"

\* A step of this kind is still to come in the run.
Ahead(kind) == pc # 0 /\ \E k \in DOMAIN Plan : pc <= k /\ Plan[k].do = kind

\* The first balance is there, or the call that issues it waits for the owner.
Issues(c) ==
  /\ c.on = Token /\ c.fn = "set" /\ isLive(c)
  /\ Balance \in DOMAIN c.sets /\ c.sets[Balance] = recorded[InitialIssuance[3]]
Issued == inPlace(InitialIssuance) \/ \E c \in Waiting : Issues(c)

\* A token state that is deployed was flagged when the run started, and the step
\* that issues the balance comes after it.
FirstBalance ==
  /\ pc # 0 /\ config[Token] = "deploy" => tokenFlag
  /\ at # "step" /\ Plan[pc].on = Token => tokenFlag
  /\ \/ Issued
     \/ pc = 0 /\ config[Token] = "deploy"
     \/ tokenFlag /\ Ahead("issue")

\* Without a frozen synth there is none to keep.
NothingFrozen ==
  /\ \A v \in Versions : pricing[v] # "frozen"
  /\ \A c \in Filed : c.fn # "frozen"

\* An instance that replaces the one the run found belongs to the deployer, and
\* gets its status in the same run: such a call is never left to the owner.
KeptFrozen ==
  /\ recorded[ExRates] \in Versions
  /\ \A c \in Filed : c.fn \notin {"free", "frozen"}
  /\ pc = 0 => pricing[recorded[ExRates]] = "frozen"
  /\ pc # 0 => /\ oldExrates \in Versions /\ pricing[oldExrates] = "frozen"
               /\ recorded[ExRates] # oldExrates =>
                    /\ ExRates \notin foreign
                    /\ pricing[recorded[ExRates]] = "frozen" \/ Ahead("inverse")

OneTimeInv ==
  stops = 0 => FirstBalance /\ (ParamsChanged \/ NothingFrozen \/ KeptFrozen)

\* A run does not pass a step that is no deployment.
LEMMA StepsAreTaken ==
  ASSUME NEW j \in Nat, j > 0, NEW k \in DOMAIN Plan, j <= k, Plan[k].do # "deploy"
  PROVE  stepFrom(j) # 0 /\ stepFrom(j) <= k
<1> DEFINE T == {i \in j .. Len(Plan) : ~isReuse(Plan[i])}
<1>1. stepFrom(j) = IF T = {} THEN 0 ELSE Min(T)
  BY DEF stepFrom
<1>2. T \in SUBSET Nat /\ k \in T /\ \A i \in T : i > 0
  BY PlanAssumption DEF isReuse
<1> HIDE DEF T
<1>3. PICK m \in T : \A y \in T : m <= y
  BY <1>2, LeastMember
<1>4. Min(T) = m
  BY <1>2, <1>3, LeastIsMin
<1>5. stepFrom(j) = m /\ m \in Nat /\ m > 0 /\ m <= k
  BY <1>1, <1>2, <1>3, <1>4
<1> QED BY <1>5

LEMMA StillAhead ==
  ASSUME PlaceOK, pc # 0, NEW kind, kind # "deploy", Ahead(kind), Plan[pc].do # kind,
         pc' = stepFrom(pc + 1)
  PROVE  Ahead(kind)'
<1>1. PICK k \in DOMAIN Plan : pc <= k /\ Plan[k].do = kind
  BY DEF Ahead
<1>2. pc \in Nat /\ k \in Nat /\ pc # k
  BY <1>1, PlanAssumption DEF PlaceOK
<1>3. pc + 1 \in Nat /\ pc + 1 > 0 /\ pc + 1 <= k
  BY <1>1, <1>2
<1>4. pc' # 0 /\ pc' <= k
  BY <1>1, <1>3, StepsAreTaken
<1> QED BY <1>1, <1>4 DEF Ahead

\* The file gets one more call that waits, or one less.
LEMMA FileChanges ==
  ASSUME DeployInv, [DeployNext]_deployVars
  PROVE  /\ Filed \subseteq Calls /\ Waiting \subseteq Filed
         /\ \/ Filed' = Filed /\ Waiting' = Waiting
            \/ /\ pc # 0 /\ appendOwnerAction(Plan[pc])
               /\ \E c \in needed(Plan[pc]) :
                    c \in Calls /\ Filed' = Filed \cup {c} /\ Waiting' = Waiting \cup {c}
            \/ /\ performOwnerAction /\ Filed' = Filed
               /\ \E c \in Waiting :
                    /\ IF reverts(c) THEN UNCHANGED chain ELSE invoke(c)
                    /\ \A d \in Waiting : d = c \/ d \in Waiting'
<1>0. ownerActions \in Seq(Entries) /\ Filed \subseteq Calls /\ Waiting \subseteq Filed
  BY FiledOrWaiting DEF DeployInv, DeferredInOrder
<1>1. CASE pc # 0 /\ appendOwnerAction(Plan[pc])
  <2>1. PICK c \in needed(Plan[pc]) : ownerActions' = withAction(ownerActions, c)
    BY <1>1 DEF appendOwnerAction
  <2>2. c \in Calls
    BY <1>1, NeededCalls DEF appendOwnerAction, DeployInv, RecordsLinks
  <2>3. Filed' = Filed \cup {c} /\ Waiting' = Waiting \cup {c}
    BY <1>0, <2>1, <2>2, FiledOrWaiting
  <2> QED BY <1>0, <1>1, <2>2, <2>3
<1>2. CASE performOwnerAction
  <2>1. PICK k \in pending :
          /\ IF reverts(ownerActions[k].call) THEN UNCHANGED chain
             ELSE invoke(ownerActions[k].call)
          /\ ownerActions[k].call \in Waiting
          /\ DOMAIN ownerActions' = DOMAIN ownerActions
          /\ \A i \in DOMAIN ownerActions : ownerActions'[i].call = ownerActions[i].call
          /\ pending' = pending \ {k}
    BY <1>0, <1>2, FirstIsPerformed
  <2>2. ASSUME NEW d \in Waiting PROVE d = ownerActions[k].call \/ d \in Waiting'
    <3>1. PICK i \in pending : d = ownerActions[i].call /\ i \in DOMAIN ownerActions
      BY <2>2 DEF Waiting, pending
    <3>2. CASE i = k
      BY <3>1, <3>2
    <3>3. CASE i # k
      BY <2>1, <3>1, <3>3 DEF Waiting
    <3> QED BY <3>2, <3>3
  <2>3. Filed' = Filed
    BY <1>0, <1>2, FiledOrWaiting
  <2> QED BY <1>0, <1>2, <2>1, <2>2, <2>3
<1>3. CASE start \/ stop \/ prepareDeploy \/ UNCHANGED deployVars
  <2>1. UNCHANGED ownerActions
    BY <1>3 DEF start, stop, prepareDeploy, deployVars
  <2> QED BY <1>0, <2>1 DEF Filed, Waiting, pending
<1>4. CASE step
  <2>1. CASE \/ throw \/ deploy(Plan[pc]) \/ writeDeployment(Plan[pc]) \/ writeConfig(Plan[pc])
             \/ nothingRequired(Plan[pc]) \/ send(Plan[pc])
    <3>1. UNCHANGED ownerActions
      BY <2>1 DEF throw, deploy, writeDeployment, writeConfig, nothingRequired, send
    <3> QED BY <1>0, <3>1 DEF Filed, Waiting, pending
  <2> QED BY <1>1, <1>4, <2>1 DEF step
<1> QED BY <1>1, <1>2, <1>3, <1>4 DEF DeployNext

\* The link of the first balance.
LEMMA TokenLink ==
  /\ InitialIssuance \in Links /\ Token \in Names /\ InitialIssuance[3] = Token
  /\ Token = "TokenStateSynthetix" /\ InitialIssuance \in LinksOn(Token)
<1>1. InitialIssuance \in Links
  BY DEF Links
<1> QED BY <1>1, LinkEnds DEF Token, InitialIssuance

\* A call that issues does, when the owner performs it.
LEMMA IssuingIssues ==
  ASSUME LinksRecorded, NEW c \in Calls, Issues(c), DOMAIN c.sets \subseteq LinkNames(c.on),
         invoke(c), recorded' = recorded
  PROVE  inPlace(InitialIssuance)'
<1>1. pointsTo(InitialIssuance)' = c.sets[Balance]
  BY InvokeSetsLinks, TokenLink DEF Issues, Token, Balance
<1> QED BY <1>1 DEF Issues, inPlace

\* What is issued stays issued until the token state is deployed anew.
LEMMA IssuedKept ==
  ASSUME DeployInv, [DeployNext]_deployVars, recorded' = recorded, Issued
  PROVE  Issued'
<1>1. CASE inPlace(InitialIssuance)
  <2>1. pointsTo(InitialIssuance)' = pointsTo(InitialIssuance)
    BY <1>1, LinksStep, TokenLink
  <2> QED BY <1>1, <2>1 DEF Issued, inPlace
<1>2. ASSUME NEW c \in Waiting, Issues(c) PROVE Issued'
  <2>1. Issues(c)'
    BY <1>2 DEF Issues, isLive
  <2>2. CASE c \in Waiting'
    BY <2>1, <2>2 DEF Issued
  <2>3. CASE c \notin Waiting'
    <3>1. IF reverts(c) THEN UNCHANGED chain ELSE invoke(c)
      BY <1>2, <2>3, FileChanges
    <3>2. c \in Calls /\ Deferred(c)
      BY <1>2, FileChanges DEF DeployInv, DeferredInOrder
    <3>3. ~reverts(c)
      BY <1>2, TokenLink DEF reverts, Issues
    <3> QED BY <1>2, <3>1, <3>2, <3>3, IssuingIssues DEF Deferred, DeployInv, Issued
  <2> QED BY <2>2, <2>3
<1> QED BY <1>1, <1>2 DEF Issued

\* The step that issues does so, or leaves it to the owner.
LEMMA IssueStep ==
  ASSUME DeployInv, [DeployNext]_deployVars, pc # 0, Plan[pc].do = "issue",
         tokenFlag \/ Issued,
         nothingRequired(Plan[pc]) \/ send(Plan[pc]) \/ appendOwnerAction(Plan[pc])
  PROVE  Issued'
<1> DEFINE s == Plan[pc]
<1>0. PICK c : c = call(s.on, "set", {InitialIssuance})
  OBVIOUS
<1>1. recorded' = recorded /\ s.on = Token
  <2>1. Plan[pc] \in Range(Plan)
    BY StepOfPlan DEF DeployInv
  <2>2. s.on = Token
    BY <2>1, PlanAssumption DEF Token
  <2>3. recorded' = recorded
    BY DEF nothingRequired, send, appendOwnerAction, chain
  <2> QED BY <2>2, <2>3
<1>2. CASE Issued
  BY <1>1, <1>2, IssuedKept
<1>3. CASE ~Issued
  <2>1. needed(s) = {c}
    BY <1>0, <1>3 DEF needed, Issued
  <2>2. RecordsLinks(c, Token) /\ DOMAIN c.sets = {Balance} /\ c.fn = "set"
    <3>1. RecordsLinks(c, s.on)
      BY <2>1, NeededCalls DEF DeployInv
    <3>2. c.sets = [f \in {l[2] : l \in {InitialIssuance}} |->
                      recorded[(CHOOSE l \in {InitialIssuance} : l[2] = f)[3]]]
      BY <1>0 DEF call
    <3>3. {l[2] : l \in {InitialIssuance}} = {Balance}
      BY DEF Balance
    <3>4. c.fn = "set"
      BY <1>0 DEF call
    <3> QED BY <1>1, <3>1, <3>2, <3>3, <3>4
  <2> HIDE DEF s
  <2>3. Issues(c) /\ c \in Calls /\ DOMAIN c.sets \subseteq LinkNames(c.on)
    BY <2>2, TokenLink DEF RecordsLinks, Issues, isLive, Balance
  <2>4. CASE nothingRequired(Plan[pc])
    BY <2>1, <2>4 DEF nothingRequired, s
  <2>5. CASE send(Plan[pc])
    <3>1. invoke(c)
      BY <2>1, <2>5 DEF send, s
    <3> QED BY <1>1, <2>3, <3>1, IssuingIssues DEF DeployInv, Issued
  <2>6. CASE appendOwnerAction(Plan[pc])
    <3>1. ownerActions' = withAction(ownerActions, c)
      BY <2>1, <2>6 DEF appendOwnerAction, s
    <3>3. c \in Waiting'
      BY <2>3, <3>1, FiledOrWaiting DEF DeployInv, DeferredInOrder
    <3>4. Issues(c)'
      BY <1>1, <2>3 DEF Issues, isLive
    <3> QED BY <3>3, <3>4 DEF Issued
  <2> QED BY <2>4, <2>5, <2>6
<1> QED BY <1>2, <1>3

LEMMA FirstBalanceStep ==
  ASSUME DeployInv, DeployInv', NoRunThrows, FirstBalance, [DeployNext]_deployVars, ~stop
  PROVE  FirstBalance'
<1> USE DEF DeployInv
<1>1. PlaceOK /\ PlaceOK' /\ FilesInv /\ Token \in Names
  BY TokenLink
<1>2. PICK issue \in DOMAIN Plan :
        /\ Plan[issue].do = "issue" /\ issue > 0
        /\ \A i \in DOMAIN Plan : Plan[i].do = "deploy" /\ Plan[i].on = Token => i < issue
  <2>1. \A i \in DOMAIN Plan : i > 0
    BY PlanAssumption
  <2>2. \E issue \in DOMAIN Plan :
          /\ Plan[issue].do = "issue"
          /\ \A i \in DOMAIN Plan :
               Plan[i].do = "deploy" /\ Plan[i].on = InitialIssuance[1] => i < issue
    BY OneTimeAssumption
  <2> QED BY <2>1, <2>2 DEF Token
\* A step of the run that is done with.
<1>3. ASSUME pc # 0, advance, recorded' = recorded, config'[Token] = "deploy" => config[Token] = "deploy",
             Issued' \/ Plan[pc].do # "issue"
      PROVE  FirstBalance'
  <2>1. pc' = stepFrom(pc + 1) /\ at' = "step" /\ tokenFlag' = tokenFlag
    BY <1>3 DEF advance
  <2>2. CASE Issued'
    BY <1>3, <2>1, <2>2 DEF FirstBalance
  <2>3. CASE ~Issued'
    <3>1. tokenFlag /\ Ahead("issue")
      BY <1>3, <2>3, IssuedKept DEF FirstBalance
    <3>2. Ahead("issue")'
      BY <1>1, <1>3, <2>1, <2>3, <3>1, StillAhead
    <3> QED BY <1>3, <2>1, <3>1, <3>2 DEF FirstBalance
  <2> QED BY <2>2, <2>3
<1>4. ASSUME recorded' = recorded, UNCHANGED <<pc, at, tokenFlag>>,
             config'[Token] = config[Token] \/ (pc = 0 /\ config'[Token] = "deploy")
      PROVE  FirstBalance'
  <2>1. Issued => Issued'
    BY <1>4, IssuedKept
  <2>2. Ahead("issue") => Ahead("issue")'
    BY <1>4 DEF Ahead
  <2> QED BY <1>4, <2>1, <2>2, <1>1 DEF FirstBalance, PlaceOK
<1>5. CASE start
  <2>1. /\ pc = 0 /\ pc' = stepFrom(1) /\ at' = "step"
        /\ tokenFlag' = (config[Token] = "deploy")
        /\ UNCHANGED <<recorded, config>>
    BY <1>5, TokenLink DEF start, chain
  <2>2. Issued => Issued'
    BY <2>1, IssuedKept
  <2>3. Ahead("issue")'
    <3>1. pc' # 0 /\ pc' <= issue
      BY <1>2, <2>1, StepsAreTaken, PlanAssumption
    <3> QED BY <1>2, <3>1 DEF Ahead
  <2>4. Issued \/ config[Token] = "deploy"
    BY <2>1 DEF FirstBalance, Ahead
  <2> QED BY <2>1, <2>2, <2>3, <2>4 DEF FirstBalance
<1>6. CASE pc # 0 /\ deploy(Plan[pc])
  <2>1. /\ UNCHANGED <<recorded, config, pc, tokenFlag>> /\ at' = "mined"
        /\ mustDeploy(Plan[pc].on)
    BY <1>6 DEF deploy
  <2>2. Plan[pc].on = Token => config[Token] = "deploy"
    BY <2>1, OneTimeAssumption DEF mustDeploy, isForced, Token
  <2>3. Issued => Issued'
    BY <2>1, IssuedKept
  <2>4. Ahead("issue") => Ahead("issue")'
    BY <2>1 DEF Ahead
  <2> QED BY <1>6, <2>1, <2>2, <2>3, <2>4 DEF FirstBalance
<1>7. CASE pc # 0 /\ writeDeployment(Plan[pc])
  <2> DEFINE s == Plan[pc]
  <2>1. /\ UNCHANGED <<config, pc, tokenFlag, ownerActions>> /\ at = "mined" /\ at' = "written"
        /\ recorded' = [recorded EXCEPT ![s.on] = minted[s.on]]
        /\ wired' = linksOfNew(s) /\ s.do = "deploy"
    BY <1>7 DEF writeDeployment
  <2>2. CASE s.on = Token
    <3>1. tokenFlag
      BY <2>1, <2>2 DEF FirstBalance
    <3>2. Ahead("issue")'
      <4>1. pc \in DOMAIN Plan
        BY <1>1, <1>7, PlanAssumption DEF PlaceOK
      <4>2. pc < issue
        BY <1>2, <2>1, <2>2, <4>1
      <4> QED BY <1>2, <1>7, <2>1, <4>2, <4>1, PlanAssumption DEF Ahead
    <3> QED BY <1>7, <2>1, <3>1, <3>2 DEF FirstBalance
  <2>3. CASE s.on # Token
    <3>1. wired'[Token] = wired[Token] /\ recorded'[Token] = recorded[Token]
      <4>1. recorded'[Token] = recorded[Token]
        BY <1>1, <2>1, <2>3 DEF FilesInv
      <4>2. Token \in DOMAIN wired
        BY TokenLink, LinkEnds DEF LinksRecorded, LinksOn
      <4>3. wired'[Token] = wired[Token]
        BY <2>1, <2>3, <4>2 DEF linksOfNew
      <4> QED BY <4>1, <4>3
    <3>2. Issued => Issued'
      <4>1. \A c : Issues(c) => Issues(c)'
        BY <3>1, TokenLink DEF Issues, isLive
      <4>2. inPlace(InitialIssuance) => inPlace(InitialIssuance)'
        BY <3>1, TokenLink DEF inPlace, pointsTo, Token
      <4>3. Waiting' = Waiting
        BY <2>1 DEF Waiting, pending
      <4> QED BY <4>1, <4>2, <4>3 DEF Issued
    <3>3. Ahead("issue") => Ahead("issue")'
      BY <2>1 DEF Ahead
    <3> QED BY <1>7, <2>1, <2>3, <3>2, <3>3 DEF FirstBalance
  <2> QED BY <2>2, <2>3
<1>8. CASE pc # 0 /\ writeConfig(Plan[pc])
  <2>1. /\ recorded' = recorded /\ advance /\ Plan[pc].do = "deploy"
        /\ config' = [config EXCEPT ![Plan[pc].on] = "keep"]
    BY <1>8 DEF writeConfig
  <2>2. config'[Token] = "deploy" => config[Token] = "deploy"
    BY <1>1, <2>1 DEF FilesInv
  <2> QED BY <1>3, <1>8, <2>1, <2>2
<1>9. CASE pc # 0 /\ (nothingRequired(Plan[pc]) \/ send(Plan[pc]) \/ appendOwnerAction(Plan[pc]))
  <2>1. /\ recorded' = recorded /\ config' = config /\ advance
    BY <1>9 DEF nothingRequired, send, appendOwnerAction, chain
  <2>2. Plan[pc].do = "issue" => Issued'
    BY <1>9, IssueStep DEF FirstBalance
  <2> QED BY <1>3, <1>9, <2>1, <2>2
<1>10. CASE prepareDeploy
  <2>1. /\ pc = 0 /\ UNCHANGED <<recorded, pc, at, tokenFlag>>
        /\ \E r \in Releases :
             config' = [n \in Names |-> IF n \in r THEN "deploy" ELSE config[n]]
    BY <1>10 DEF prepareDeploy, chain, run
  <2>2. config'[Token] = config[Token] \/ config'[Token] = "deploy"
    BY <1>1, <2>1
  <2> QED BY <1>4, <2>1, <2>2
<1>11. CASE performOwnerAction \/ UNCHANGED deployVars
  <2>1. UNCHANGED <<recorded, config, pc, at, tokenFlag>>
    BY <1>11 DEF performOwnerAction, invoke, chain, run, deployVars
  <2> QED BY <1>4, <2>1
<1>12. CASE step
  <2>1. pc # 0 /\ ~throw
    BY <1>12 DEF step, throw, NoRunThrows
  <2> QED BY <1>6, <1>7, <1>8, <1>9, <1>12, <2>1 DEF step
<1> QED BY <1>5, <1>10, <1>11, <1>12 DEF DeployNext

\* Only the inverse synth's step makes calls that set its pricing.
LEMMA PricingCalls ==
  ASSUME DeployInv, pc # 0, Plan[pc].do # "deploy", NEW c \in needed(Plan[pc])
  PROVE  /\ c.fn \in {"free", "frozen"} => Plan[pc].do = "inverse"
         /\ Plan[pc].do = "inverse" =>
              c.fn \in inversePricing /\ c.on = ExRates /\ c.at = recorded[ExRates]
<1> DEFINE s == Plan[pc]
<1>1. s \in Range(Plan) /\ s.do \in {"wire", "issue", "import", "sync", "inverse", "settings"}
  BY StepOfPlan, PlanAssumption DEF DeployInv
<1>2. CASE s.do = "inverse"
  <2>1. s.on = ExRates
    BY <1>1, <1>2, PlanAssumption DEF ExRates
  <2>2. PICK p \in inversePricing : c = call(s.on, p, {})
    BY <1>2 DEF needed
  <2>3. c.fn = p /\ c.on = s.on /\ c.at = recorded[s.on]
    BY <2>2 DEF call
  <2> QED BY <1>2, <2>1, <2>2, <2>3
<1>3. CASE s.do # "inverse"
  <2>1. \E links : c = call(s.on, "set", links) \/ c = call(s.on, "setResolverAndSyncCache", links)
    BY <1>1, <1>3 DEF needed
  <2>2. c.fn \in {"set", "setResolverAndSyncCache"}
    BY <2>1 DEF call
  <2> QED BY <1>3, <2>2
<1> QED BY <1>2, <1>3

\* How the pricing changes.
LEMMA PricingChanges ==
  ASSUME DeployInv, [DeployNext]_deployVars
  PROVE  \/ UNCHANGED pricing
         \/ /\ pc # 0 /\ Plan[pc].do = "inverse" /\ send(Plan[pc])
            /\ \E p \in inversePricing : pricing' = [pricing EXCEPT ![recorded[ExRates]] = p]
         \/ \E c \in Filed :
              c.fn \in {"free", "frozen"} /\ pricing' = [pricing EXCEPT ![c.at] = c.fn]
<1>1. \A c : invoke(c) => \/ UNCHANGED pricing
                          \/ /\ c.fn \in {"free", "frozen"}
                             /\ pricing' = [pricing EXCEPT ![c.at] = c.fn]
  BY DEF invoke
<1>2. CASE pc # 0 /\ send(Plan[pc])
  <2>1. PICK c \in needed(Plan[pc]) : invoke(c)
    BY <1>2 DEF send
  <2>2. /\ c.fn \in {"free", "frozen"} => Plan[pc].do = "inverse"
        /\ Plan[pc].do = "inverse" =>
             c.fn \in inversePricing /\ c.on = ExRates /\ c.at = recorded[ExRates]
    BY <1>2, PricingCalls DEF send
  <2> QED BY <1>1, <1>2, <2>1, <2>2
<1>3. CASE performOwnerAction
  <2>1. UNCHANGED chain \/ \E c \in Filed : invoke(c)
    BY <1>3, FirstIsPerformed, FiledOrWaiting DEF DeployInv, DeferredInOrder
  <2> QED BY <1>1, <2>1 DEF chain
<1>4. CASE start \/ stop \/ prepareDeploy \/ throw \/ UNCHANGED deployVars
  BY <1>4 DEF start, stop, prepareDeploy, throw, deployVars, chain
<1>5. CASE \/ deploy(Plan[pc]) \/ writeDeployment(Plan[pc]) \/ writeConfig(Plan[pc])
           \/ nothingRequired(Plan[pc]) \/ appendOwnerAction(Plan[pc])
  BY <1>5 DEF deploy, writeDeployment, writeConfig, nothingRequired, appendOwnerAction, chain
<1> QED BY <1>2, <1>3, <1>4, <1>5 DEF DeployNext, step

LEMMA NothingFrozenStep ==
  ASSUME DeployInv, NothingFrozen, [DeployNext]_deployVars
  PROVE  NothingFrozen'
<1>1. pricing \in [Versions -> {"none", "free", "frozen"}] /\ oldExrates \in {0} \cup Versions
  BY DEF DeployInv, RunTypes
<1>2. "frozen" \notin inversePricing
  BY <1>1 DEF inversePricing, NothingFrozen
<1>3. ASSUME NEW v \in Versions PROVE pricing'[v] # "frozen"
  BY <1>1, <1>2, PricingChanges DEF NothingFrozen
<1>4. ASSUME NEW c \in Filed' PROVE c.fn # "frozen"
  <2>1. CASE c \in Filed
    BY <2>1 DEF NothingFrozen
  <2>2. CASE c \notin Filed
    <3>1. pc # 0 /\ appendOwnerAction(Plan[pc]) /\ c \in needed(Plan[pc])
      BY <1>4, <2>2, FileChanges
    <3> QED BY <1>2, <3>1, PricingCalls DEF appendOwnerAction
  <2> QED BY <2>1, <2>2
<1> QED BY <1>3, <1>4 DEF NothingFrozen

\* With the old parameters a frozen synth is left alone, or frozen in the new
\* ExchangeRates.
LEMMA PricingIsKept ==
  ASSUME ~ParamsChanged, KeptFrozen, pc # 0
  PROVE  inversePricing = IF oldExrates = recorded[ExRates] THEN {} ELSE {"frozen"}
<1>1. oldExrates # 0 /\ pricing[oldExrates] = "frozen"
  BY PlanAssumption DEF KeptFrozen, Versions
<1> QED BY <1>1 DEF inversePricing, ExRates

LEMMA KeptFrozenStep ==
  ASSUME DeployInv, DeployInv', NoRunThrows, ~ParamsChanged, KeptFrozen, ~stop,
         [DeployNext]_deployVars
  PROVE  KeptFrozen'
<1> DEFINE new == recorded[ExRates]
<1>1. /\ pricing \in [Versions -> {"none", "free", "frozen"}] /\ new \in Versions
      /\ PlaceOK /\ FilesInv /\ ExRates \in Names
  <2>1. ExRates \in Names
    BY PlanAssumption DEF Names, ExRates
  <2> QED BY <2>1 DEF DeployInv, RunTypes, KeptFrozen
\* The inverse synth's step finds nothing to do, or freezes it.
<1>2. ASSUME pc # 0, Plan[pc].do = "inverse"
      PROVE  needed(Plan[pc]) = {call(Plan[pc].on, p, {}) : p \in inversePricing}
  BY <1>2 DEF needed
\* What was frozen stays so.
<1>3. /\ \A v \in Versions : pricing[v] = "frozen" => pricing'[v] = "frozen"
      /\ UNCHANGED pricing \/ (pc # 0 /\ Plan[pc].do = "inverse" /\ send(Plan[pc]))
  <2>1. \A c \in Filed : c.fn \notin {"free", "frozen"}
    BY DEF KeptFrozen
  <2>2. pc # 0 => inversePricing \subseteq {"frozen"}
    BY PricingIsKept
  <2>3. ASSUME NEW v \in Versions, pricing[v] = "frozen" PROVE pricing'[v] = "frozen"
    <3>1. CASE UNCHANGED pricing
      BY <2>3, <3>1
    <3>2. ASSUME NEW w, pricing' = [pricing EXCEPT ![w] = "frozen"] PROVE pricing'[v] = "frozen"
      BY <1>1, <2>3, <3>2
    <3> QED BY <2>1, <2>2, <3>1, <3>2, PricingChanges
  <2> QED BY <2>1, <2>3, PricingChanges
\* No call of this kind is left to the owner.
<1>4. ASSUME NEW c \in Filed' PROVE c.fn \notin {"free", "frozen"}
  <2>1. CASE c \in Filed
    BY <2>1 DEF KeptFrozen
  <2>2. CASE c \notin Filed
    <3>1. pc # 0 /\ appendOwnerAction(Plan[pc]) /\ c \in needed(Plan[pc])
      BY <1>4, <2>2, FileChanges
    <3>2. Plan[pc].do = "inverse" => c.on = ExRates /\ c.fn \in inversePricing
      BY <3>1, PricingCalls DEF appendOwnerAction
    <3>3. Plan[pc].do # "inverse"
      <4>1. ASSUME Plan[pc].do = "inverse" PROVE FALSE
        <5>1. Plan[pc].on = ExRates /\ ExRates \in foreign
          <6>1. Plan[pc] \in Range(Plan)
            BY <3>1, StepOfPlan, <1>1
          <6> QED BY <3>1, <4>1, <6>1, PlanAssumption DEF appendOwnerAction, ExRates
        <5>2. new = oldExrates
          BY <3>1, <5>1 DEF KeptFrozen
        <5> QED BY <3>1, <3>2, <4>1, <5>2, PricingIsKept
      <4> QED BY <4>1
    <3> QED BY <3>1, <3>3, PricingCalls DEF appendOwnerAction
  <2> QED BY <2>1, <2>2
\* A step of the run that is done with.
<1>5. ASSUME pc # 0, advance, recorded' = recorded, foreign' = foreign,
             \/ Plan[pc].do # "inverse" \/ new = oldExrates \/ pricing'[new] = "frozen"
      PROVE  KeptFrozen'
  <2>1. pc' = stepFrom(pc + 1) /\ oldExrates' = oldExrates
    BY <1>5 DEF advance
  <2>2. /\ oldExrates \in Versions /\ pricing'[oldExrates] = "frozen"
        /\ new # oldExrates => ExRates \notin foreign
    BY <1>3, <1>5 DEF KeptFrozen
  <2>3. new = oldExrates \/ pricing'[new] = "frozen" \/ Ahead("inverse")'
    <3>1. CASE Plan[pc].do # "inverse" /\ Ahead("inverse")
      BY <1>1, <1>5, <2>1, <3>1, StillAhead
    <3>2. CASE Plan[pc].do # "inverse" /\ ~Ahead("inverse")
      BY <1>1, <1>3, <1>5, <3>2 DEF KeptFrozen
    <3> QED BY <1>5, <3>1, <3>2
  <2>4. pc' = 0 => pricing'[new] = "frozen"
    BY <2>2, <2>3 DEF Ahead
  <2> QED BY <1>1, <1>4, <1>5, <2>1, <2>2, <2>3, <2>4 DEF KeptFrozen
<1>6. ASSUME UNCHANGED <<recorded, pc, oldExrates>>, foreign' \subseteq foreign
      PROVE  KeptFrozen'
  <2>1. Ahead("inverse") => Ahead("inverse")'
    BY <1>6 DEF Ahead
  <2> QED BY <1>1, <1>3, <1>4, <1>6, <2>1 DEF KeptFrozen
<1>7. CASE start
  <2>1. /\ pc = 0 /\ UNCHANGED <<recorded, pricing>> /\ oldExrates' = new
    BY <1>7 DEF start, chain, ExRates
  <2> QED BY <1>1, <1>4, <2>1 DEF KeptFrozen
<1>8. CASE pc # 0 /\ deploy(Plan[pc])
  <2>1. UNCHANGED <<recorded, pc, oldExrates, foreign>>
    BY <1>8 DEF deploy
  <2> QED BY <1>6, <2>1
<1>9. CASE pc # 0 /\ writeDeployment(Plan[pc])
  <2> DEFINE s == Plan[pc]
  <2>1. /\ UNCHANGED <<pc, oldExrates, pricing>> /\ at = "mined" /\ s.do = "deploy"
        /\ recorded' = [recorded EXCEPT ![s.on] = minted[s.on]]
        /\ foreign' = foreign \ {s.on}
    BY <1>9 DEF writeDeployment
  <2>2. CASE s.on = ExRates
    <3>1. recorded'[ExRates] \in Versions
      <4>1. recorded'[ExRates] = minted[ExRates] /\ minted[ExRates] > 0
        BY <1>1, <2>1, <2>2 DEF FilesInv, WrittenInOrder
      <4>2. minted[ExRates] \in {0} \cup Versions
        BY <1>1, InvTypes DEF DeployTypeOK
      <4> QED BY <4>1, <4>2
    <3>2. Ahead("inverse")'
      <4>1. pc \in DOMAIN Plan
        BY <1>1, <1>9, PlanAssumption DEF PlaceOK
      <4>2. PICK m \in DOMAIN Plan : Plan[m].do = "inverse" /\ pc < m
        BY <2>1, <2>2, <4>1, OneTimeAssumption DEF ExRates
      <4>3. m \in Nat /\ pc \in Nat
        BY <4>1, PlanAssumption
      <4> QED BY <1>9, <2>1, <4>2, <4>3 DEF Ahead
    <3>3. ExRates \notin foreign'
      BY <2>1, <2>2
    <3>4. oldExrates \in Versions /\ pricing[oldExrates] = "frozen"
      BY <1>9 DEF KeptFrozen
    <3> QED BY <1>4, <1>9, <2>1, <3>1, <3>2, <3>3, <3>4 DEF KeptFrozen
  <2>3. CASE s.on # ExRates
    <3>1. recorded'[ExRates] = new /\ foreign' \subseteq foreign
      BY <1>1, <2>1, <2>3 DEF FilesInv
    <3>2. Ahead("inverse") => Ahead("inverse")'
      BY <2>1 DEF Ahead
    <3> QED BY <1>1, <1>4, <1>9, <2>1, <3>1, <3>2 DEF KeptFrozen
  <2> QED BY <2>2, <2>3
<1>10. CASE pc # 0 /\ writeConfig(Plan[pc])
  <2>1. recorded' = recorded /\ foreign' = foreign /\ advance /\ Plan[pc].do = "deploy"
    BY <1>10 DEF writeConfig, chain
  <2> QED BY <1>5, <1>10, <2>1
<1>11. CASE pc # 0 /\ (nothingRequired(Plan[pc]) \/ appendOwnerAction(Plan[pc]))
  <2>1. recorded' = recorded /\ foreign' = foreign /\ advance
    BY <1>11 DEF nothingRequired, appendOwnerAction, chain
  <2>2. CASE Plan[pc].do = "inverse" /\ new # oldExrates
    <3>1. needed(Plan[pc]) # {}
      BY <1>2, <1>11, <2>2, PricingIsKept
    <3>2. appendOwnerAction(Plan[pc])
      BY <1>11, <3>1 DEF nothingRequired
    <3>3. Plan[pc].on = ExRates
      <4>1. Plan[pc] \in Range(Plan)
        BY <1>1, <1>11, StepOfPlan
      <4> QED BY <2>2, <4>1, PlanAssumption DEF ExRates
    <3>4. ExRates \in foreign
      BY <3>2, <3>3 DEF appendOwnerAction
    <3> QED BY <1>11, <2>2, <3>4 DEF KeptFrozen
  <2> QED BY <1>5, <1>11, <2>1, <2>2
<1>12. CASE pc # 0 /\ send(Plan[pc])
  <2>1. recorded' = recorded /\ foreign' = foreign /\ advance
    BY <1>12 DEF send, invoke
  <2>2. CASE Plan[pc].do = "inverse" /\ new # oldExrates
    <3>1. PICK c \in needed(Plan[pc]) : invoke(c)
      BY <1>12 DEF send
    <3>2. c.fn = "frozen" /\ c.at = new
      BY <1>12, <2>2, <3>1, PricingCalls, PricingIsKept DEF send
    <3>3. pricing' = [pricing EXCEPT ![new] = "frozen"]
      BY <3>1, <3>2 DEF invoke
    <3>4. pricing'[new] = "frozen"
      BY <1>1, <3>3
    <3> QED BY <1>5, <1>12, <2>1, <3>4
  <2> QED BY <1>5, <1>12, <2>1, <2>2
<1>13. CASE prepareDeploy \/ performOwnerAction \/ UNCHANGED deployVars
  <2>1. UNCHANGED <<recorded, pc, oldExrates, foreign>>
    BY <1>13 DEF prepareDeploy, performOwnerAction, invoke, chain, run, deployVars
  <2> QED BY <1>6, <2>1
<1>14. CASE step
  <2>1. pc # 0 /\ ~throw
    BY <1>14 DEF step, throw, NoRunThrows
  <2> QED BY <1>8, <1>9, <1>10, <1>11, <1>12, <1>14, <2>1 DEF step
<1> QED BY <1>7, <1>13, <1>14 DEF DeployNext

LEMMA OneTimeInit == DeployInit => OneTimeInv
<1> SUFFICES ASSUME DeployInit PROVE OneTimeInv
  OBVIOUS
<1>1. /\ ownerActions = <<>> /\ pc = 0 /\ at = "step" /\ Filed = {} /\ Waiting = {}
  BY DEF DeployInit, Filed, Waiting, pending
<1>2. /\ Token \in Names /\ Token # Feed /\ ExRates \in Names /\ 1 \in Versions
      /\ ExRates \notin Unlisted /\ InitialIssuance \in Links
      /\ InitialIssuance[1] = Token /\ InitialIssuance[3] = Token
  <2>1. ExRates \in Names /\ MaxEvents \in Nat
    BY PlanAssumption DEF Names, ExRates
  <2>2. 1 \in Versions
    BY <2>1 DEF Versions
  <2> QED BY <2>1, <2>2, TokenLink, OneTimeAssumption DEF ExRates, Feed, Token
<1>3. inPlace(InitialIssuance) => FirstBalance
  BY <1>1 DEF FirstBalance, Issued
<1>4. CASE FreshNetwork
  <2> DEFINE V == [l \in Links |-> 0]
  <2>1. /\ recorded = [n \in Names |-> IF n = Feed THEN 1 ELSE 0] /\ wired = LinkTable(V)
        /\ pricing = [v \in Versions |-> "none"]
    BY <1>4 DEF FreshNetwork
  <2>2. V \in [Links -> Nat] /\ \A l \in Links : V[l] = 0
    OBVIOUS
  <2> HIDE DEF V
  <2>3. inPlace(InitialIssuance)
    BY <1>2, <2>1, <2>2, LinkTables DEF inPlace, pointsTo
  <2>4. NothingFrozen
    BY <1>1, <2>1 DEF NothingFrozen
  <2> QED BY <1>3, <2>3, <2>4 DEF OneTimeInv
<1>5. CASE RunningNetwork
  <2> DEFINE V == [l \in Links |-> IF {l[1], l[3]} \cap Unlisted = {} THEN 1 ELSE 0]
  <2>1. /\ recorded = [n \in Names |-> IF n \in Unlisted THEN 0 ELSE 1] /\ wired = LinkTable(V)
        /\ pricing = [v \in Versions |-> IF v = 1 THEN "frozen" ELSE "none"]
    BY <1>5 DEF RunningNetwork
  <2>2. /\ V \in [Links -> Nat]
        /\ \A l \in Links : V[l] = IF {l[1], l[3]} \cap Unlisted = {} THEN 1 ELSE 0
    OBVIOUS
  <2> HIDE DEF V
  <2>3. inPlace(InitialIssuance)
    BY <1>2, <2>1, <2>2, LinkTables DEF inPlace, pointsTo
  <2>4. KeptFrozen
    BY <1>1, <1>2, <2>1 DEF KeptFrozen
  <2> QED BY <1>3, <2>3, <2>4 DEF OneTimeInv
<1> QED BY <1>4, <1>5 DEF DeployInit

LEMMA OneTimeStep ==
  ASSUME DeployInv, DeployInv', NoRunThrows, OneTimeInv, [DeployNext]_deployVars
  PROVE  OneTimeInv'
<1>1. CASE stop
  <2>1. stops' = stops + 1 /\ stops \in Nat
    BY <1>1, PlanAssumption DEF stop, DeployInv, MintsAreBounded
  <2> QED BY <2>1 DEF OneTimeInv
<1>2. CASE ~stop
  <2>1. stops' = stops
    BY <1>2 DEF DeployNext, start, step, throw, deploy, writeDeployment, writeConfig,
                nothingRequired, send, appendOwnerAction, prepareDeploy, performOwnerAction,
                deployVars
  <2> QED BY <1>2, <2>1, FirstBalanceStep, NothingFrozenStep, KeptFrozenStep DEF OneTimeInv
<1> QED BY <1>1, <1>2

\* deploy.js:661, :1265: when no run was interrupted or ended by an exception, the
\* first balance has been issued and a frozen synth is frozen in the ExchangeRates
\* in use, for any releases, whoever owns the contracts and whenever the owner acts.
THEOREM OneTimeStepsHappen ==
  DeploySpec /\ []NoRunThrows => []OneTimeStepsAreDone
<1>1. DeployInv /\ OneTimeInv => OneTimeStepsAreDone
  <2> SUFFICES ASSUME DeployInv, OneTimeInv, AtRest, stops = 0, ~ParamsChanged
               PROVE  /\ inPlace(InitialIssuance)
                      /\ pricing[1] = "frozen" => pricing[recorded["ExchangeRates"]] = "frozen"
    BY DEF OneTimeStepsAreDone
  <2>1. pc = 0 /\ Waiting = {} /\ config[Token] # "deploy"
    BY TokenLink DEF AtRest, Waiting
  <2>2. inPlace(InitialIssuance)
    BY <2>1 DEF OneTimeInv, FirstBalance, Issued, Ahead
  <2>3. 1 \in Versions
    BY PlanAssumption DEF Versions
  <2> QED BY <2>1, <2>2, <2>3 DEF OneTimeInv, NothingFrozen, KeptFrozen, ExRates
<1>2. DeployInv /\ DeployInv' /\ NoRunThrows /\ OneTimeInv /\ [DeployNext]_deployVars
        => OneTimeInv'
  BY OneTimeStep
<1> QED BY <1>1, <1>2, OneTimeInit, InvAlways, PTL DEF DeploySpec
==============================================================================
