--------------------------------- MODULE Deploy --------------------------------
(* The deploy command (commands/deploy.js, Deployer.js, performTransactional-  *)
(* Step of util.js) on a network that keeps its files: a run walks through a   *)
(* fixed plan of contracts to deploy and calls that wire them to each other.   *)
(* config.json says which contracts to deploy, deployment.json which instance  *)
(* is in use, owner-actions.json what is left to the contracts' owner. A run   *)
(* that stops is started again on the files it left. An instance is a version: *)
(* 0 is no instance, and a link of a contract is the version it points to.     *)
EXTENDS Naturals, Sequences, SequencesExt, FiniteSetsExt

CONSTANTS Synths,        \* the currency keys of synths.json, in order
          Inverted,      \* the key of synths.json that has inverse pricing
          Unlisted,      \* contracts that config.json does not name
          Releases,      \* sets of contracts that a release flags
          AddNewSynths, ForceInverse,  \* options of the command
          ParamsChanged, NoSupply, \* of the inverse synth: its parameters in
                                   \* synths.json are new, its supply is zero
          MaxStops, MaxEvents  \* bounds on interrupted runs, and on them and
                               \* releases together

ASSUME DeployOptions ==
  /\ {AddNewSynths, ForceInverse, ParamsChanged, NoSupply} \subseteq BOOLEAN
  /\ Inverted \in Range(Synths)

Synth(key) == "Synth" \o key
Proxy(key) == "Proxy" \o key
TokenState(key) == "TokenState" \o key
SynthNames == {Synth(key) : key \in Range(Synths)}
SynthContracts == UNION {{Synth(key), Proxy(key), TokenState(key)} : key \in Range(Synths)}
Feed == "Feed"  \* a price feed of another system

(* ------------------------------- the plan --------------------------------- *)

\* A contract to deploy: what must be known before it, and the links that its
\* constructor sets.
deployContract(on, deps, args) ==
  [do |-> "deploy", on |-> on, deps |-> deps, args |-> args]
\* A call that makes the link fn of a contract point to another.
runStep(on, fn, to) == [do |-> "wire", on |-> on, fn |-> fn, to |-> to]
\* The steps that need more than a link; see needed below.
special(do, on) == [do |-> do, on |-> on]

CorePlan == <<
  deployContract("SafeDecimalMath", {}, {}), deployContract("Math", {}, {}),
  deployContract("AddressResolver", {}, {}),
  deployContract("ReadProxyAddressResolver", {}, {}),
  runStep("ReadProxyAddressResolver", "target", "AddressResolver"),
  deployContract("FlexibleStorage", {"ReadProxyAddressResolver"},
                 {<<"resolver", "ReadProxyAddressResolver">>}),
  deployContract("SystemSettings", {}, {}), deployContract("SystemStatus", {}, {}),
  deployContract("ExchangeRates", {}, {}), deployContract("RewardEscrow", {}, {}),
  deployContract("SynthetixEscrow", {}, {}), deployContract("SynthetixState", {}, {}),
  deployContract("ProxyFeePool", {}, {}) >>

StoragePlan == <<
  deployContract("DelegateApprovalsEternalStorage", {}, {}),
  deployContract("DelegateApprovals", {}, {<<"eternalStorage", "DelegateApprovalsEternalStorage">>}),
  runStep("DelegateApprovalsEternalStorage", "associatedContract", "DelegateApprovals"),
  deployContract("Liquidations", {}, {}),
  deployContract("EternalStorageLiquidations", {}, {<<"associatedContract", "Liquidations">>}),
  runStep("EternalStorageLiquidations", "associatedContract", "Liquidations") >>

FeePoolPlan == <<
  deployContract("FeePoolEternalStorage", {}, {}),
  deployContract("FeePool", {"ProxyFeePool", "AddressResolver"}, {<<"proxy", "ProxyFeePool">>}),
  runStep("ProxyFeePool", "target", "FeePool"),
  runStep("FeePoolEternalStorage", "associatedContract", "FeePool"),
  deployContract("FeePoolState", {"FeePool"}, {<<"feePool", "FeePool">>}),
  runStep("FeePoolState", "feePool", "FeePool") >>

SynthetixPlan == <<
  deployContract("RewardsDistribution", {"RewardEscrow", "ProxyFeePool"},
                 {<<"rewardEscrow", "RewardEscrow">>, <<"feePoolProxy", "ProxyFeePool">>}),
  deployContract("SupplySchedule", {}, {}), deployContract("ProxyERC20", {}, {}),
  deployContract("TokenStateSynthetix", {}, {}),
  deployContract("Synthetix", {"ProxyERC20", "TokenStateSynthetix", "AddressResolver"},
                 {<<"proxy", "ProxyERC20">>, <<"tokenState", "TokenStateSynthetix">>}),
  runStep("ProxyERC20", "target", "Synthetix"), runStep("Synthetix", "proxy", "ProxyERC20") >>

ExchangerPlan == <<
  deployContract("Exchanger", {"AddressResolver"}, {}),
  deployContract("ExchangeState", {"Exchanger"}, {<<"associatedContract", "Exchanger">>}),
  runStep("ExchangeState", "associatedContract", "Exchanger"),
  runStep("SystemStatus", "accessControl", "Exchanger") >>

TokenStatePlan == <<
  special("issue", "TokenStateSynthetix"),
  runStep("TokenStateSynthetix", "associatedContract", "Synthetix"),
  runStep("Synthetix", "tokenState", "TokenStateSynthetix") >>

IssuerPlan == <<
  deployContract("Issuer", {"AddressResolver"}, {}),
  deployContract("TradingRewards", {"AddressResolver", "Exchanger"}, {}),
  runStep("SynthetixState", "associatedContract", "Issuer"),
  deployContract("EscrowChecker", {"SynthetixEscrow"}, {<<"synthetix_escrow", "SynthetixEscrow">>}) >>

EscrowPlan == <<
  runStep("RewardEscrow", "synthetix", "Synthetix"), runStep("RewardEscrow", "feePool", "FeePool"),
  runStep("SupplySchedule", "synthetixProxy", "ProxyERC20"),
  runStep("RewardsDistribution", "authority", "Synthetix"),
  runStep("RewardsDistribution", "synthetixProxy", "ProxyERC20"),
  runStep("SynthetixEscrow", "synthetix", "ProxyERC20") >>

SynthPlan(key) == <<
  deployContract(TokenState(key), {}, {}), deployContract(Proxy(key), {}, {}),
  deployContract(Synth(key), {TokenState(key), Proxy(key), "Synthetix", "FeePool"},
                 {<<"proxy", Proxy(key)>>, <<"tokenState", TokenState(key)>>}),
  runStep(TokenState(key), "associatedContract", Synth(key)),
  runStep(Proxy(key), "target", Synth(key)), runStep(Synth(key), "proxy", Proxy(key)),
  runStep("Issuer", key, Synth(key)), runStep("ExchangeRates", "aggregator" \o key, Feed) >>

AncillaryPlan == <<
  deployContract("SynthUtil", {"ReadProxyAddressResolver"},
                 {<<"addressResolverProxy", "ReadProxyAddressResolver">>}),
  deployContract("DappMaintenance", {}, {}) >>

FeedPlan == <<
  deployContract("SwapOracle", {}, {<<"token", "ProxyERC20">>, <<"exchangeRates", "ExchangeRates">>}),
  runStep("ExchangeRates", "oracle", "SwapOracle") >>

\* The addresses a contract caches from the resolver (getResolverAddressesRequired):
\* those its constructor lists, FlexibleStorage for users of the settings and, for
\* a PurgeableSynth, which the inverse synths are, ExchangeRates.
Needs(n) ==
  CASE n = "ExchangeRates" -> {"Exchanger", "FlexibleStorage"}
    [] n = "Exchanger" -> {"SystemStatus", "ExchangeState", "ExchangeRates", "Synthetix", "FeePool",
                           "TradingRewards", "DelegateApprovals", "Issuer", "FlexibleStorage"}
    [] n = "FeePool" -> {"SystemStatus", "Synthetix", "FeePoolState", "FeePoolEternalStorage",
                         "Exchanger", "Issuer", "SynthetixState", "RewardEscrow",
                         "DelegateApprovals", "RewardsDistribution", "FlexibleStorage"}
    [] n = "Issuer" -> {"Synthetix", "Exchanger", "ExchangeRates", "SynthetixState", "FeePool",
                        "DelegateApprovals", "RewardEscrow", "SynthetixEscrow", "Liquidations",
                        "FlexibleStorage"}
    [] n = "Liquidations" -> {"SystemStatus", "Synthetix", "EternalStorageLiquidations", "Issuer",
                              "ExchangeRates", "FlexibleStorage"}
    [] n = "Synthetix" -> {"SynthetixState", "SystemStatus", "Exchanger", "Issuer",
                           "SupplySchedule", "RewardsDistribution"}
    [] n = "TradingRewards" -> {"Exchanger", "Synthetix"}
    [] n = "SystemSettings" -> {"FlexibleStorage"}
    [] n \in SynthNames ->
         {"SystemStatus", "Exchanger", "Issuer", "FeePool"}
           \cup IF n = Synth(Inverted) THEN {"ExchangeRates"} ELSE {}
    [] OTHER -> {}
UserSeq ==
  <<"ExchangeRates", "Exchanger", "FeePool", "Issuer", "Liquidations", "Synthetix",
    "TradingRewards", "SystemSettings">> \o [i \in DOMAIN Synths |-> Synth(Synths[i])]
ResolverUsers == Range(UserSeq)

ResolverPlan ==
  <<special("import", "AddressResolver")>>
    \o [i \in DOMAIN UserSeq |-> special("sync", UserSeq[i])]

Plan ==
  CorePlan \o StoragePlan \o FeePoolPlan \o SynthetixPlan \o ExchangerPlan
    \o TokenStatePlan \o IssuerPlan \o EscrowPlan
    \o FlattenSeq([i \in DOMAIN Synths |-> SynthPlan(Synths[i])])
    \o AncillaryPlan \o FeedPlan \o ResolverPlan
    \o <<special("inverse", "ExchangeRates"), special("settings", "SystemSettings")>>

(* ------------------------------- the state -------------------------------- *)

Creations == {s \in Range(Plan) : s.do = "deploy"}
Contracts == {s.on : s \in Creations}
Names == Contracts \cup {Feed}
Wires == {s \in Range(Plan) : s.do = "wire"}
Required == UNION {Needs(n) : n \in ResolverUsers}
              \cup {"SynthsUSD", "SynthsETH", "SystemSettings"}
\* A link: the contract that has it, its name, and what it should point to.
linkOf(s) == <<s.on, s.fn, s.to>>
inResolver(n) == <<"AddressResolver", n, n>>
\* The first balance of the token state, and the settings kept in FlexibleStorage.
InitialIssuance == <<"TokenStateSynthetix", "balanceOf", "TokenStateSynthetix">>
Settings == <<"SystemSettings", "defaults", "FlexibleStorage">>
ConstructorLinks == UNION {{<<s.on, a[1], a[2]>> : a \in s.args} : s \in Creations}
Links ==
  {linkOf(s) : s \in Wires} \cup ConstructorLinks \cup {inResolver(n) : n \in Required}
    \cup {InitialIssuance, Settings}
LinksOn(n) == {l \in Links : l[1] = n}
Holders == {l[1] : l \in Links}

\* The keys give contracts and links names of their own: a link has one target,
\* the same for the constructor as for the call that sets it.
ASSUME PlanAssumption ==
  /\ Feed \notin Unlisted /\ MaxStops \in Nat /\ MaxEvents \in Nat
  /\ DOMAIN Plan = 1 .. Len(Plan) /\ Len(Plan) \in Nat
  /\ \A l \in Links : {l[1], l[3]} \subseteq Names
  /\ \A l, m \in Links : l[1] = m[1] /\ l[2] = m[2] => l = m
  /\ "ExchangeRates" \in ResolverUsers /\ ResolverUsers \subseteq Contracts
  /\ \A s \in Range(Plan) :
       /\ s.do \in {"deploy", "wire", "issue", "import", "sync", "inverse", "settings"}
       /\ s.do = "deploy" => \A a \in s.args, l \in LinksOn(s.on) : l[2] = a[1] => l[3] = a[2]
       /\ s.do = "issue" => s.on = InitialIssuance[1]
       /\ s.do = "import" => s.on = "AddressResolver"
       /\ s.do = "sync" => s.on \in ResolverUsers
       /\ s.do = "inverse" => s.on = "ExchangeRates"
       /\ s.do = "settings" => s.on = Settings[1]

\* What is done only once is done after the contract it is done to is deployed;
\* these contracts are none of a synth's, and every network has ExchangeRates.
ASSUME OneTimeAssumption ==
  /\ InitialIssuance[1] \notin SynthContracts /\ "ExchangeRates" \notin Unlisted
  /\ \E issue, inverse \in DOMAIN Plan :
       /\ Plan[issue].do = "issue" /\ Plan[inverse].do = "inverse"
       /\ \A i \in DOMAIN Plan :
            /\ Plan[i].do = "deploy" /\ Plan[i].on = InitialIssuance[1] => i < issue
            /\ Plan[i].do = "deploy" /\ Plan[i].on = "ExchangeRates" => i < inverse

\* The links of every contract, each with its version.
LinkTable(version) ==
  [n \in Holders |-> [f \in {l[2] : l \in LinksOn(n)} |->
                       version[CHOOSE l \in LinksOn(n) : l[2] = f]]]

VARIABLES minted,    \* chain: the number of instances created of each contract
          wired,     \* chain: the links of the recorded instances
          foreign,   \* chain: contracts whose recorded instance has another owner
          synced,    \* chain: contracts whose cache agrees with the resolver
          pricing,   \* chain: inverse pricing in each version of ExchangeRates
          config, recorded, ownerActions, \* the three files
          pc, at, tokenFlag, oldExrates,  \* the run: its step in the plan and
                                          \* the place in it, and what it kept
          stops, upgrades

chain == <<minted, wired, foreign, synced, pricing>>
run == <<pc, at, tokenFlag, oldExrates>>
deployVars == <<chain, config, recorded, ownerActions, run, stops, upgrades>>

loaded(n) == config[n] # "absent"
isForced(n) == AddNewSynths /\ n \in SynthContracts
pointsTo(l) == wired[l[1]][l[2]]
inPlace(l) == pointsTo(l) = recorded[l[3]]
Versions == 1 .. (1 + MaxEvents)

\* A network without contracts, all of them flagged.
FreshNetwork ==
  /\ config = [n \in Names |-> IF n \in Unlisted THEN "absent"
                               ELSE IF n = Feed THEN "keep" ELSE "deploy"]
  /\ recorded = [n \in Names |-> IF n = Feed THEN 1 ELSE 0]
  /\ wired = LinkTable([l \in Links |-> 0]) /\ synced = {} /\ foreign = {}
  /\ pricing = [v \in Versions |-> "none"]

\* A network in use that belongs to the protocol DAO; the inverse synth is frozen.
RunningNetwork ==
  /\ config = [n \in Names |-> IF n \in Unlisted THEN "absent" ELSE "keep"]
  /\ recorded = [n \in Names |-> IF n \in Unlisted THEN 0 ELSE 1]
  /\ wired = LinkTable([l \in Links |-> IF {l[1], l[3]} \cap Unlisted = {} THEN 1 ELSE 0])
  /\ synced = {n \in ResolverUsers : (Needs(n) \cup {n}) \cap Unlisted = {}}
  /\ foreign = Contracts \ Unlisted
  /\ pricing = [v \in Versions |-> IF v = 1 THEN "frozen" ELSE "none"]

DeployInit ==
  /\ FreshNetwork \/ RunningNetwork
  /\ minted = recorded
  /\ ownerActions = <<>>
  /\ pc = 0 /\ at = "step" /\ tokenFlag = FALSE /\ oldExrates = 0
  /\ stops = 0 /\ upgrades = 0

(* ----------------------- calls to deployed contracts ---------------------- *)

\* A call of the instance in use: the links it sets and, for calls that set
\* something else, what (fn).
call(on, fn, links) ==
  [on |-> on, at |-> recorded[on], fn |-> fn,
   sets |-> [f \in {l[2] : l \in links} |-> recorded[(CHOOSE l \in links : l[2] = f)[3]]]]

\* Only the contracts that the resolver does not know at all.
unknownInResolver == {n \in Required : pointsTo(inResolver(n)) = 0}
notInResolver == {n \in Required : ~inPlace(inResolver(n))}

\* The frozen status is not looked at.
inverseUnfrozen == {"free"}
\* What the inverse synth's step would set. With parameters as the old rates
\* have them a new ExchangeRates keeps the frozen status and the same one is
\* left alone; new parameters need a synth without a rate or without supply,
\* or the option of the test networks.
inversePricing ==
  IF oldExrates = 0 THEN {"free"}
  ELSE IF pricing[oldExrates] # "none" /\ ~ParamsChanged
       THEN IF oldExrates = recorded["ExchangeRates"] THEN {} ELSE {pricing[oldExrates]}
  ELSE IF pricing[oldExrates] = "none" \/ NoSupply \/ ForceInverse THEN {"free"} ELSE {}

\* The calls of a step that are still to be made: none when the step finds
\* nothing to do. Settings are read through the cache of their contract. It can
\* be stale at that step, when refreshing it was left to the owner, and then the
\* settings are read where they were; it is not empty, since the cache of a new
\* instance is filled before, or the run has thrown.
needed(s) ==
  CASE s.do = "wire" ->
         IF loaded(s.on) /\ loaded(s.to) /\ ~inPlace(linkOf(s))
         THEN {call(s.on, "set", {linkOf(s)})} ELSE {}
    [] s.do = "issue" ->
         IF tokenFlag /\ ~inPlace(InitialIssuance)
         THEN {call(s.on, "set", {InitialIssuance})} ELSE {}
    [] s.do = "import" ->
         IF notInResolver # {}
         THEN {call(s.on, "set", {inResolver(n) : n \in notInResolver})} ELSE {}
    [] s.do = "sync" ->
         IF loaded(s.on) /\ s.on \notin synced
         THEN {call(s.on, "setResolverAndSyncCache", {})} ELSE {}
    [] s.do = "inverse" -> {call(s.on, p, {}) : p \in inversePricing}
    [] s.do = "settings" ->
         IF s.on \in synced /\ ~inPlace(Settings)
         THEN {call(s.on, "set", {Settings})} ELSE {}

\* Calls that the contracts refuse: a second synth of a key, and a cache of an
\* address that the resolver does not have.
reverts(c) ==
  \/ c.on = "Issuer" /\ \E f \in DOMAIN c.sets : wired["Issuer"][f] # 0
  \/ c.fn = "setResolverAndSyncCache" /\ \E n \in Needs(c.on) : pointsTo(inResolver(n)) = 0

\* The effect of a call; one to an instance that is no longer in use has none here.
invoke(c) ==
  LET live == c.at = recorded[c.on]
      changed == IF live /\ c.on = "AddressResolver"
                 THEN {n \in DOMAIN c.sets : c.sets[n] # wired[c.on][n]} ELSE {}
      agree == {n \in synced : Needs(n) \cap changed = {}}
  IN /\ UNCHANGED <<minted, foreign>>
     /\ wired' = IF live /\ c.on \in Holders
                 THEN [wired EXCEPT ![c.on] =
                         [f \in DOMAIN @ |-> IF f \in DOMAIN c.sets THEN c.sets[f] ELSE @[f]]]
                 ELSE wired
     /\ synced' = IF live /\ c.fn = "setResolverAndSyncCache" THEN agree \cup {c.on} ELSE agree
     /\ pricing' = IF c.fn \in {"free", "frozen"} THEN [pricing EXCEPT ![c.at] = c.fn]
                   ELSE pricing

(* --------------------------------- a run ---------------------------------- *)

\* The option to force wins over config.json.
mustDeployForced(n) == config[n] = "deploy" \/ isForced(n)
\* Deployer._deploy: a contract without an entry in config.json is skipped,
\* unless forced, and one that is not flagged is used as it is.
mustDeploy(n) == config[n] = "deploy" \/ (config[n] = "absent" /\ isForced(n))
missingDeps(s) == {d \in s.deps : ~loaded(d) /\ recorded[d] = 0}
isReuse(s) == s.do = "deploy" /\ ~mustDeploy(s.on) /\ (loaded(s.on) => missingDeps(s) = {})

\* The next step of the plan, past the contracts that are used as they are:
\* those change nothing. After the last step the run is over.
stepFrom(k) ==
  LET rest == {i \in k .. Len(Plan) : ~isReuse(Plan[i])}
  IN IF rest = {} THEN 0 ELSE Min(rest)
advance ==
  /\ pc' = stepFrom(pc + 1)
  /\ at' = "step"
  /\ UNCHANGED <<tokenFlag, oldExrates>>

missingDeployments == {n \in Names : config[n] = "keep" /\ recorded[n] = 0}

\* A run reads the files; it refuses to start when a contract that is not to
\* be deployed has no address.
start ==
  /\ pc = 0 /\ missingDeployments = {}
  /\ pc' = stepFrom(1) /\ at' = "step"
  /\ tokenFlag' = (config["TokenStateSynthetix"] = "deploy")
  /\ oldExrates' = recorded["ExchangeRates"]
  /\ UNCHANGED <<chain, config, recorded, ownerActions, stops, upgrades>>

\* The flag is cleared when the transaction is sent.
deployAndClearFlag(s) ==
  /\ s.do = "deploy" /\ at = "step"
  /\ mustDeploy(s.on) /\ missingDeps(s) = {}
  /\ minted' = [minted EXCEPT ![s.on] = @ + 1]
  /\ config' = [config EXCEPT ![s.on] = "keep"]
  /\ at' = "mined"
  /\ UNCHANGED <<wired, foreign, synced, pricing, recorded, ownerActions,
                 pc, tokenFlag, oldExrates, stops, upgrades>>
\* A flagged contract is created by a transaction of its own.
deploy(s) ==
  /\ s.do = "deploy" /\ at = "step"
  /\ mustDeploy(s.on) /\ missingDeps(s) = {}
  /\ minted' = [minted EXCEPT ![s.on] = @ + 1]
  /\ at' = "mined"
  /\ UNCHANGED <<wired, foreign, synced, pricing, config, recorded, ownerActions,
                 pc, tokenFlag, oldExrates, stops, upgrades>>

\* The links of a new instance are those of its constructor. The settings stay
\* where they are when their contract is replaced.
linksOfNew(s) ==
  IF s.on \notin Holders \/ s.on = Settings[1] THEN wired
  ELSE [wired EXCEPT ![s.on] =
          [f \in DOMAIN @ |-> IF \E a \in s.args : a[1] = f
                             THEN recorded[(CHOOSE a \in s.args : a[1] = f)[2]] ELSE 0]]

\* Deployer._updateResults: deployment.json is written first, config.json second.
writeDeployment(s) ==
  /\ s.do = "deploy" /\ at = "mined"
  /\ recorded' = [recorded EXCEPT ![s.on] = minted[s.on]]
  /\ wired' = linksOfNew(s)
  /\ synced' = IF s.on = "AddressResolver" THEN {} ELSE synced \ {s.on}
  /\ foreign' = foreign \ {s.on}
  /\ at' = "written"
  /\ UNCHANGED <<minted, pricing, config, ownerActions, pc, tokenFlag, oldExrates,
                 stops, upgrades>>

writeConfig(s) ==
  /\ s.do = "deploy" /\ at = "written"
  /\ config' = [config EXCEPT ![s.on] = "keep"]
  /\ advance
  /\ UNCHANGED <<chain, recorded, ownerActions, stops, upgrades>>

\* performTransactionalStep: nothing to do, or a call to send.
nothingRequired(s) ==
  /\ s.do # "deploy" /\ needed(s) = {}
  /\ advance
  /\ UNCHANGED <<chain, config, recorded, ownerActions, stops, upgrades>>

send(s) ==
  /\ s.do # "deploy" /\ s.on \notin foreign
  /\ \E c \in needed(s) : ~reverts(c) /\ invoke(c)
  /\ advance
  /\ UNCHANGED <<config, recorded, ownerActions, stops, upgrades>>

\* What is written to owner-actions.json of a call.
entry(c) == [call |-> c, complete |-> FALSE]
\* The newest call comes first.
withFirst(actions, c) ==
  IF \E i \in DOMAIN actions : actions[i].call = c
  THEN [i \in DOMAIN actions |-> IF actions[i].call = c THEN entry(c) ELSE actions[i]]
  ELSE <<entry(c)>> \o actions
\* An entry of the same name is written anew, in its place; others come last.
\* The name has no address, but of two instances of a contract only the first
\* is another's.
withAction(actions, c) ==
  IF \E i \in DOMAIN actions : actions[i].call = c
  THEN [i \in DOMAIN actions |-> IF actions[i].call = c THEN entry(c) ELSE actions[i]]
  ELSE Append(actions, entry(c))

\* Not the owner: the call is written to owner-actions.json.
appendOwnerAction(s) ==
  /\ s.do # "deploy" /\ s.on \in foreign
  /\ \E c \in needed(s) :
       ownerActions' = withAction(ownerActions, c)
  /\ advance
  /\ UNCHANGED <<chain, config, recorded, stops, upgrades>>

\* An exception ends the run: a dependency is missing, a call is refused, the
\* resolver needs a contract that was skipped or the inverse synth was.
throws(s) ==
  \/ s.do = "deploy" /\ at = "step" /\ (loaded(s.on) \/ isForced(s.on)) /\ missingDeps(s) # {}
  \/ s.do # "deploy" /\ s.on \notin foreign /\ \E c \in needed(s) : reverts(c)
  \/ s.do = "import" /\ \E n \in Required : ~loaded(n)
  \/ s.do = "inverse" /\ oldExrates # 0 /\ ~loaded(Synth(Inverted))

throw ==
  /\ throws(Plan[pc])
  /\ pc' = 0 /\ at' = "step"
  /\ UNCHANGED <<chain, config, recorded, ownerActions, tokenFlag, oldExrates, stops, upgrades>>

step ==
  /\ pc # 0
  /\ \/ throw
     \/ /\ ~throws(Plan[pc])
        /\ \/ deploy(Plan[pc]) \/ writeDeployment(Plan[pc]) \/ writeConfig(Plan[pc])
           \/ nothingRequired(Plan[pc]) \/ send(Plan[pc]) \/ appendOwnerAction(Plan[pc])

(* ------------------------- the world around a run ------------------------- *)

\* A cancelled prompt, a lost connection or a crash ends a run where it is.
stop ==
  /\ pc # 0 /\ stops < MaxStops /\ stops + upgrades < MaxEvents
  /\ stops' = stops + 1
  /\ pc' = 0 /\ at' = "step"
  /\ UNCHANGED <<chain, config, recorded, ownerActions, tokenFlag, oldExrates, upgrades>>

\* prepare-deploy: the contracts of a release are flagged, between runs.
prepareDeploy ==
  /\ pc = 0 /\ stops + upgrades < MaxEvents
  /\ \E r \in Releases : config' = [n \in Names |-> IF n \in r THEN "deploy" ELSE config[n]]
  /\ upgrades' = upgrades + 1
  /\ UNCHANGED <<chain, recorded, ownerActions, run, stops>>

\* What the owner is still to do.
pending == {i \in DOMAIN ownerActions : ~ownerActions[i].complete}
\* The owner performs what was deferred, in the order of the file (SafeOwner
\* says how). The entry stays there, marked as complete: the Safe's transaction
\* is done with even when its call is refused.
performOwnerAction ==
  /\ \E i \in pending :
       /\ \A j \in pending : i <= j
       /\ ownerActions' = [ownerActions EXCEPT ![i].complete = TRUE]
       /\ IF reverts(ownerActions[i].call) THEN UNCHANGED chain
          ELSE invoke(ownerActions[i].call)
  /\ UNCHANGED <<config, recorded, run, stops, upgrades>>

DeployNext == start \/ step \/ stop \/ prepareDeploy \/ performOwnerAction

\* A started run goes on and the operator starts it again; the owner acts.
DeploySpec ==
  /\ DeployInit /\ [][DeployNext]_deployVars
  /\ WF_run(start \/ step) /\ WF_ownerActions(performOwnerAction)

(* ------------------------------- properties ------------------------------- *)

\* Every variable has its type; an instance in use was created, and no link
\* points to an instance that does not exist.
DeployTypeOK ==
  /\ \A n \in Names : recorded[n] <= minted[n] /\ minted[n] \in {0} \cup Versions
  /\ \A l \in Links : pointsTo(l) \in 0 .. minted[l[3]]
  /\ foreign \subseteq Contracts /\ synced \subseteq ResolverUsers
  /\ pricing \in [Versions -> {"none", "free", "frozen"}]
  /\ config \in [Names -> {"absent", "keep", "deploy"}]
  /\ pc \in 0 .. Len(Plan) /\ at \in {"step", "mined", "written"}
  /\ tokenFlag \in BOOLEAN /\ oldExrates \in Nat
  /\ stops \in 0 .. MaxStops /\ upgrades \in 0 .. MaxEvents

\* Whatever point a run stops at, the files it leaves let the next one start:
\* no contract is marked as deployed before its address is on record
\* (Deployer.js:205 before :212; deploy.js:107 refuses such files).
FilesAllowRestart == missingDeployments = {}

\* A link that points to the contract in use is not turned back to an older
\* one: not by a run, nor by a call that was deferred before the last release
\* and performed after it (util.js:148).
LinksDoNotRegress ==
  [][wired' # wired /\ recorded' = recorded =>
       \A l \in Links : inPlace(l) => wired'[l[1]][l[2]] = pointsTo(l)]_deployVars

\* A synth released without the Issuer: the Issuer keeps the old one and refuses
\* the new, so that the run throws; only the replace command removes it.
RefusedSynth ==
  \E key \in Range(Synths) : wired["Issuer"][key] \notin {0, recorded[Synth(key)]}
AtRest == pc = 0 /\ pending = {} /\ \A n \in Names : config[n] # "deploy"

\* When the work is done and no run was interrupted or refused, what is done only once has
\* been: the first balance is issued, and an inverse synth that was frozen in
\* the first ExchangeRates still is (deploy.js:661, :1265). An interrupted run
\* breaks both, because the next finds the flags gone.
OneTimeStepsAreDone ==
  AtRest /\ stops = 0 /\ ~RefusedSynth /\ ~ParamsChanged =>
    /\ inPlace(InitialIssuance)
    /\ pricing[1] = "frozen" => pricing[recorded["ExchangeRates"]] = "frozen"

\* A contract that no call turns to the new instance of another keeps the old one
\* when a release replaces the other without it: SwapOracle, which reports to the
\* ExchangeRates of its constructor (deploy.js:1092), and the like.
LeftBehind(l) == upgrades > 0 /\ \E r \in Releases : l[3] \in r /\ l[1] \notin r

\* Runs that are interrupted, refused and repeated end with every contract wired
\* to the ones in use by each of its links, those of a constructor included. Two
\* exceptions are the code's: a synth the Issuer refuses (Issuer.sol:385), and a
\* link without a call whose target was released alone.
AllWired ==
  /\ \A s \in Wires : loaded(s.on) /\ loaded(s.to) => inPlace(linkOf(s))
  /\ \A l \in ConstructorLinks :
       loaded(l[1]) /\ loaded(l[3]) => inPlace(l) \/ LeftBehind(l)
  /\ \A n \in Required : inPlace(inResolver(n))
  /\ \A n \in ResolverUsers : loaded(n) => n \in synced
  /\ inPlace(Settings)
EventuallyWired == <>[](AllWired \/ RefusedSynth)
================================================================================
