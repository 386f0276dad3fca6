# Verification of the Baldi contracts and their tools

TLA+ models of the contracts in `src/contracts` and of the tools in
`src/publish` that deploy and maintain them, the TLC configurations that check
them on small instances, and proofs checked by TLAPS. The contracts are a debt
pool: stakers lock the BADI token (SNX in names and comments of the source, and
so here), issue synths such as sUSD against it, owe together a pool worth all
synths in existence, and receive the fees of every exchange. The tools are
commands of a node program: each run reads some json files and the chain, sends
transactions one after the other and writes the files back.

## 1. Inventory

### The contracts

Transactions are atomic and serialised by the chain. What makes the system hard
is therefore not threads but *the order of transactions of different accounts*:
each reads balances, prices and shares that transactions of others, oracle
updates, suspensions and the clock have moved since the account's last one.

| Component | State | Operations | Talks to | Correct when |
|---|---|---|---|---|
| `SafeDecimalMath` | - | multiply, divide, convert, with and without rounding, at two precisions | everyone | natural results, rounding to the nearest, shares at most one |
| `SynthetixState` | share and ledger index per account, issuer count, debt ledger | set share, count up and down, append | `Issuer` only | shares times pool add up to the pool; entries in the ledger; count covers issuers |
| `Issuer` | last issue times, list of synths | issue, issue max, burn, burn to target, liquidate; add and remove synths | all of the below | operations change only the caller's debt |
| `Liquidations` | deadline per account | flag, check and remove, remove | `Issuer`, rates, status | a flag does not outlive its debt; a repaired account is unflagged |
| `ExternStateToken`, `TokenState`, `Synthetix`, `Synth` | balances, allowances, supplies | transfer, issue, burn | `Exchanger`, `Issuer`, `FeePool` | supply equals balances; staked SNX stays |
| `FeePool`, `FeePoolState` | ring of fee periods, issuance history, last claims | record fee, set rewards, close period, append record, claim | `Issuer`, `Exchanger`, `RewardEscrow` | each fee is paid at most once, to those who owned the debt when the period closed |
| `Exchanger`, `ExchangeState` | queue of unsettled exchanges, last rates | exchange, settle, suspend at the circuit breaker | rates, synths, `FeePool`, status | reclaims and rebates are due once, at the rates of the end of the waiting period |
| `ExchangeRates` | rounds of rates, inverse prices, aggregators | update, delete, freeze, set inverse | oracle, `Exchanger` | no older update wins; frozen stays frozen |
| `SystemStatus` | suspensions, access control | suspend and resume system, issuance, exchange, synths | every entry point | while suspended, nothing moves |
| `RewardEscrow`, `SynthetixEscrow` | vesting schedules, totals | append, vest | token, `FeePool` | the balance covers all entries |
| `SupplySchedule`, `Synthetix.mint`, `RewardsDistribution` | week counter, last mint, distributions | mint, distribute | token, escrow, `FeePool` | each week is minted once, all that is minted arrives |
| `StakingRewards`, `TradingRewards` | reward per token; periods, fees recorded | stake, withdraw, notify, claim; record, close, claim, recover | token, `Exchanger` | promised rewards fit the balance |
| `Depot` | FIFO of deposits, totals | deposit, withdraw, buy | token, rates | totals equal the queue; a gap or a refusing receiver does not block it |
| `EtherCollateral` | loans, totals | open, close, liquidate | `Depot`, sETH, status | locked ether covers open loans |
| Binary options (`BinaryOptionMarket`, `BinaryOption`, manager, factory) | bids, options, deposits, phase | bid, refund, resolve, claim, exercise, expire | sUSD, rates | payouts fit the deposits |
| `SystemSettings`, `FlexibleStorage` | settings | one setter each | everyone | bounds hold and keep holding |
| `AddressResolver`, `MixinResolver` | addresses, caches | import, sync | everyone | caches agree once refreshed |
| `Proxy`, `Proxyable`, `Owned`, `State`, `DelegateApprovals`, `SelfDestructible`, `LimitedSetup` | owners, targets, approvals | nominate, accept, approve | everyone | only the permitted act |

Views (`BinaryOptionMarketData`, `SynthUtil`), key-value storage, `SwapOracle`
(a price view on an external exchange), `DappMaintenance` and test helpers are
left aside; of `SwapOracle` the deployment models only that it keeps the addresses
of its constructor. `EtherCollateral` is deployed by no script (its lines are commented
out in `publish/src/commands/deploy.js` and in `Issuer._totalIssuedSynths`).

### The tools

A command is a sequence of awaited steps, so within it there is one order. What
is hard is *what happens around it*: it stops anywhere (a prompt answered with
"n", a failed call, a crash) and is started again on the files it left; the
chain moves between the moment it reads and the moment it writes; calls it may
not make are left to the owner and performed much later; the services it asks
lag behind.

| Component | State | Operations | Talks to | Correct when |
|---|---|---|---|---|
| `deploy` (`commands/deploy.js`, `Deployer.js`) | `config.json`, `deployment.json`, the instances on chain and the links between them | deploy or reuse a contract, wire it, import addresses, refresh caches, inverse pricing, default settings | every contract, the owner | a run can always be started again; in the end everything points to the instances in use |
| `performTransactionalStep` (`util.js`) | `owner-actions.json` | read, send, defer to the owner, ask the operator | every command | no call is forgotten, none undoes a later one |
| `prepare-deploy` | `config.json` | flag the contracts of a release | `deploy` | - |
| `owner`, `nominate` (`safe-utils.js`) | `owner-actions.json`, nonces and staged transactions of the Gnosis Safe | nominate, stage a deferred call or an acceptance, mark it complete | the Safe and its transaction service | each deferred call is staged once, on a nonce of its own, and performed |
| `replace-synths`, `purge-synths`, `remove-synths` | the synths in the Issuer and in four files | new instance behind the old proxy and token state; burn all balances; take a synth out | `Issuer`, `Synth`, an explorer | supply equals balances; no synth is forgotten that the Issuer still has |
| `settle` | nonces, a file of exchanges | list the exchanges, settle each without waiting | `Exchanger`, a node | whatever is due is settled in the end |
| `migrate-binary-option-markets` | two lists of markets in two managers | count, fetch by pages, hand over by chunks | both managers | nothing is left behind although the lists change |
| `import-fee-periods`, `deploy-staking-rewards`, `escrow` | - | one-time copies | contracts | not modelled |
| `release`, `versions-*`, `build`, `verify`, `persist-tokens`, ..., the client library `index.js` | json files | - | git, compiler, explorer | not modelled |

The behaviours that are hard to test are listed, each at its line, as "hazards"
in `PROJECT.json`, with the properties that cover them.

## 2. Modules

```
 SafeDecimalMath   TokenState
        |    \         |
 SynthetixState  Liquidations
     |     \        |
     |      \----- Issuer ----- MCIssuer        (IssuerProofs)
  FeePool           |
     \------------ Staking ---- MCStaking       (StakingProofs)
                    : implements FeeDistribution

 SafeDecimalMath
        |
  ExchangeRates --- Exchanger --- MCExchanger   (ExchangerProofs)

  Deploy ----------------------- MCDeploy       (DeployProofs)
  SafeOwner -------------------- MCSafeOwner    (SafeOwnerProofs)
     : implements DeferredActions

  SynthCommands ---------------- MCSynths       (CommandsProofs)
  Settle ----------------------- MCCommands
  MarketMigration --------------                (CommandsProofs)

  SumProofs : lemmas that the other proofs use
```

| Module | Models | Correspondence |
|---|---|---|
| `SafeDecimalMath` | `SafeDecimalMath.sol` | One operator per function. `UNIT` and `CONVERSION` are constants: the code's are 10^18 and 10^9. Round-half-up is `RoundedTenth`. |
| `TokenState` | `ExternStateToken._internalTransfer` | `Moved` keeps the order of the two writes, which matters for a transfer to oneself. |
| `SynthetixState` | `SynthetixState.sol` with the debt arithmetic of `Issuer.sol` | `issuanceData`, `totalIssuerCount`, `debtLedger`; `addToDebtRegister`, `removeFromDebtRegister`. A division by a ledger entry of zero reverts: `DebtIsDefined` is the guard. |
| `Liquidations` | `Liquidations.sol` | `deadline[a]` is the stored entry, 0 when there is none. |
| `Issuer` | `Issuer.sol` entered through `Synthetix.sol`, and the steps around it | One action per external call; a guard per `require` and modifier. |
| `FeePool` | `FeePool.sol`, `FeePoolState.sol` | The ring is `recentFeePeriods` with `currentFeePeriod`; `period(i)` is `_recentFeePeriodsStorage(i)`. Operators only: `Staking` turns them into actions. |
| `Staking` | the two together | Every operation on a debt appends the issuance record of the same transaction; claims pay into the balances and the escrow. |
| `FeeDistribution` | what the fee pool promises of fees and of rewards | An open amount and a claimable one: what comes in is open, a close makes it claimable, a claim takes part of it. `Staking` implements it twice (`Distribution`). |
| `ExchangeRates` | `ExchangeRates.sol` | `rounds[key]` is `_rates` up to `currentRoundForRate`; a deletion drops the last round, the next update reuses its id. `getLastRoundIdBeforeElapsedSecs` is the walk over the rounds of a waiting period. |
| `Exchanger` | `Exchanger.sol`, `ExchangeState.sol`, transfers of `Synth.sol` | `exchange` is `_exchange` with its four outcomes: nothing left, the breaker trips on the source or on the destination, done. The settlement it begins with stays in all of them. `TransferToFeeAddress` exchanges for the fee address without asking `SystemStatus` whether exchanges are suspended, as `Synth.sol:138` does. |
| `Deploy` | `commands/deploy.js`, `Deployer.js`, `util.js`, `commands/prepare-deploy.js` | `Plan` lists the calls of `deployer.deployContract` and `runStep` in the order of the source; `pc` is the place in it and `at` the place within `_deploy` and `_updateResults`. An instance is a version, a link of a contract the version it points to, so "wired" is an equation (`inPlace`). `send`, `appendOwnerAction` and `nothingRequired` are the outcomes of `performTransactionalStep`. `ownerActions` is the file in the order of its keys: an entry that is deferred again keeps its place, one that was performed stays, marked complete. The arguments of a constructor are links too, with or without a setter (`ConstructorLinks`). |
| `SafeOwner` | `commands/owner.js`, `commands/nominate.js`, `safe-utils.js` | One action per awaited call of the loop over owner actions and contracts. `staged` is what was posted to the service, `visible` what it lists. The two errors that `safe-utils.js` logs and goes on from are actions: `getLastTxFails` (the nonce is the Safe's own then) and `postIsRefused` (the entry is marked complete all the same). `giveUp` is the operator who ends the loop of `createAndSaveApprovalTransaction` that a refused post leaves without end. |
| `DeferredActions` | what the tools promise about deferred work | Asked for, then performed. `SafeOwner` implements it (`Promise`). |
| `SynthCommands` | `commands/replace-synths.js`, `purge-synths.js`, `remove-synths.js` | `cmd` is the command in progress, `todo` its synths, `place` the numbered step of the source. `deny` is an operator who answers "n", or "y" too early, when asked whether the owner has made the call. |
| `Settle` | `commands/settle.js` | Nonces are relative to the mined ones; `pool` is what the node holds, `blocked` the pairs whose settlement reverts for another reason than the waiting period: a suspended synth, a balance below the reclaim. |
| `MarketMigration` | `commands/migrate-binary-option-markets.js`, the lists of `BinaryOptionMarketManager.sol` and `AddressListLib.sol` | `remove` moves the last element into the gap, as the library does. |
| `MCCommands` | `Settle` and `MarketMigration` | An operator uses one at a time; they share no state. |

A transaction that reverts is an action whose guard is false, so a subtraction
that would underflow (SafeMath), a `require` and a modifier all become
conjuncts. Definitions marked "Mutant" are plausible slips of the code; no
specification uses them, and each breaks the property it is listed with in
`PROJECT.json`.

Abstractions, and why the properties do not depend on what they leave out:

- *Amounts* are tenths (`UNIT = 10`) with two more digits at high precision
  (`CONVERSION = 100`). Rounding is relatively far coarser than in the code, so
  what holds up to `RoundingSlack` here is met with a smaller error there.
  Overflow of 256 bits is left out.
- *Other synths* are one value in sUSD, moved by prices and by exchanges.
- *Exchanges into sUSD*, in `Issuer` and `Staking`, owe any of `Adjustments` once their waiting period is
  over, one entry per account: more than the settlements `Exchanger` computes.
  Fees are separate steps in `Staking`; the circuit breaker is a suspension. `transferAndSettle` is a settlement followed
  by a transfer. A transfer of a synth to address zero, which burns it, is not
  modelled.
- *Callers on behalf* of others perform the same operations behind an approval.
- *Escrow* is a balance; vesting may release any of it at any time.
- *Settings* are constants. `LiquidationAssumption` is what
  `SystemSettings.setLiquidationRatio` enforces at the time of its call; the
  setters of the issuance ratio and the penalty do not check it again.
- *Fees* reach the fee address as exchange fees and as direct transfers of
  sUSD. Another synth sent there is exchanged and leaves a settlement on the
  fee address: that path is in `Exchanger`, not in `Staking`. sUSD that
  arrives by `transferFrom` is recorded by no period and only adds to the
  balance.
- *`Exchanger`* starts from accounts that hold sUSD; issuing and burning by
  stakers belong to `Issuer`, claims of what the fee address holds to
  `Staking`. Its waiting period, threshold and fee rates are constants, so the
  fee rate stored with an entry is that of its synth. Trading rewards, inverse
  pricing and its reset of the breaker's rate, flags and aggregators are left
  out. An update of several rates is several updates in one block. A time of
  zero (no rate) is stale because the clock starts after `RateStalePeriod`, as
  it does on the chain.
- `importFeePeriod` and `importIssuerData`, the migration during the setup
  weeks, are not modelled.

Of the tools:

- *Contents of calls* are reduced to what they link or change. A deferred call
  keeps the versions it was made for, since that is what makes it stale later.
- *Instances*: a link refers to the version in `deployment.json` of its target.
  A call to an instance that is no longer in use has no effect in `Deploy`.
- *Ownership* in `Deploy` is per contract: a new instance belongs to the
  deployer, those of a running network to the protocol DAO.
- *The network* keeps its files. The `local` network, the dry run and forks,
  gas, prompts and the supply that a redeployed synth takes over are left out.
- *The transaction service* lists a post some time after it, and may fail to
  answer or refuse a post (`MaxFaults` times). Three things are assumed of it that
  the command does not check: it has caught up when a run of `owner` is started
  (the guard of `start`); its first hundred transactions include all that are not
  executed; and two signers do not stage at the same moment, since the command
  reads the last nonce and posts several calls later, and nothing in it would
  notice. Signers execute what the service lists.
- *Caches* of addresses are compared as a whole (`synced`). A setting is read
  through one at `deploy.js:1340`; the read reverts when the cache is empty, and
  at that step it is not: it may be stale, or the run has thrown before
  (`needed`).
- *Purging* burns balances; in the code it exchanges them for sUSD, under a limit
  on the supply.
- *The settlement that blocks* in `Settle` is a choice of the environment; what
  makes a reclaim exceed a balance is in `Issuer` and `Exchanger`.
- *Migration*: creation of markets is disabled while a run is in progress.

## 3. What is checked

Twelve runs, three of them with liveness; three find a documented claim violated.

| Run | Instance | Shows |
|---|---|---|
| `issuer_debt` | two stakers, an amount of 0.9 sUSD and the most that may be issued, prices 1 and 5, other synths at 2, a ledger of 4, three time steps and a delay of one; at the lower price the collateral of one account is worth its debt and the penalty, that of the other less | the debts of all accounts add up to the pool; a debt moves by the sUSD issued or burned; other debts stay, also in a liquidation; a flag goes with its debt, unless the collateral is worth just the debt and the penalty; a liquidation stops at the target ratio |
| `issuer_settlement` | one staker and one trader, escrow, adjustments up and down, stale synth rates, system suspension | supply equals balances; a burn that settles first moves the debt as it is after the settlement; pending reclaims stay covered except by burning to target; suspension freezes everything |
| `staking` | two interchangeable stakers, three fee periods, history of two | fees and rewards are exactly backed across rollovers; shares fit the period and do not change with later issues and burns; claims are paid in full; the ring implements the plain distribution of fees and of rewards (refinement) |
| `exchanger_settlement` | one trader and the fee address, sUSD and one other synth at 0.5 or 1, three rounds, rates up to one second late or ahead, two pending exchanges per queue | received funds stay while any period of the queue runs; a settlement pays the price of the period's end whenever it happens; what is owed is final and stays covered unless a rate dated within the period comes late; exchanges add no value but the rounding of their conversions; recorded fees are held except for settlements of the fee address |
| `exchanger_breaker` | the same trader, rates 0.5, 1 and 2 with a threshold of 3, four rounds, deletions, system suspension | the rate used from one exchange to the next stays within the threshold |
| `owner` | two deferred calls, one contract to accept, another signer, one run that stops, two failures of the service | nonces are distinct although the service lags, unless a run took one without being able to read the last; nothing waits for the Safe twice; what is marked complete is performed, waits, or is lost to a refused post or a shared nonce; everything else that was deferred is performed (refinement, liveness) |
| `deploy` | three synths, one new and one with inverse pricing; a fresh network or a running one, releases of two contracts or of a synth, one stop, two events in all | a run can always be started; no link goes back to an older instance; one-time steps are done; in the end everything is wired to the instances in use, but for links that only a constructor sets and whose target was released alone (liveness) |
| `synths` | two synths and two holders that are interchangeable, an explorer that returns one, an owner or an operator, a main or a test network, two commands that may stop or be denied anywhere, trading during all of them | a synth is whole between commands unless its own replacement was disturbed; no synth is forgotten that the Issuer has |
| `commands` | two pairs to settle, one lost transaction, one of another tool, one block; three markets | a finished migration leaves no old market; what is due is settled and the source manager becomes empty (liveness) |
| `replace_disturbed` (violation) | one synth, one user, two commands | what is issued after the supply was read is not in the supply of the new synth; with `TradedDuring = {}` a replacement that stops and is repeated gives the new synth a supply of zero |
| `owner_refused` (violation) | as `owner`, with one refused post and nothing else that fails | an entry whose post was refused is complete and never staged |
| `issuer_last_exit` (violation) | two stakers, prices 0.5 and 1, ledger of 4 | `Issuer.sol` says a first issuer pushes one; after everybody left it pushes zero |

**Bounds.** `MaxLedger` bounds the issues, burns and liquidations of a
behaviour to three or four, enough for issue - issue - burn - reissue and for
every pair of accounts and operations with price moves in between; the share
arithmetic has no memory beyond the two ledger entries it divides. `MaxTime`
lets a waiting period, a delay or several fee periods pass. `MaxPeriod = 3`
with a ring of two makes the rollover and a claim of rolled-over fees happen;
`HISTORY_LENGTH = 2` (6 in the code) makes records fall off the history.
`MaxFees` bounds what a period gathers. `FEE_PERIOD_LENGTH` is that of the
code. `RoundingSlack = 1` is one tenth, the smallest unit;
`ClaimsArePaidInFull` allows it once per period so far, since shares that round
up make each period borrow of the next one.

In the exchanger's runs `MaxRounds` is the number of reports of a synth: three
put one inside the waiting period, one at its end and one after it; four give
the breaker the three earlier rounds it looks at. `MaxEntriesInQueue = 2` (12 in
the code) lets the second exchange extend the wait of the first and the limit be
reached. The settlement run deletes no rate, since a deletion takes away rates
that exchanges were done at; the breaker run does.

For the tools: with two entries and one contract the `owner` run has a second
and third post while the first is unlisted, a refused post after a blind read and
the other way round, each with a stop at any step; what it shows about nonces and
marks is proved for any number of them. In `deploy` two
events are enough for a release while calls of the run before wait for the
owner, and for a stop at any step of a fresh deployment or of a release; the
plan itself is the whole one for the synths chosen, among them the first, a new
and an inverse one, with options that are fixed in `MCDeploy.cfg`. In `synths`
`HolderLimit = 1` of two holders makes the explorer cut the list, and two
commands in a row meet each other's files; every command may be interrupted and
users trade during each of them. Which replacements that disturbs is recorded
(`disturbed`), and what becomes of them is in `replace_disturbed`. The one restriction left is that users do not trade a synth
while its removal waits for the owner (`"deferred"` is not in `TradedDuring`; see
the findings). Synths and users are interchangeable there, and are permuted
(`Alike`). In `commands` `FetchSize = 2` and `ChunkSize = 1` of three markets give
two pages and several chunks; no market is created during a run (`CreatedDuring`).

**Deadlock** is checked except in `staking` and the exchanger's runs, where the
bounds on time, periods, ledger and rounds stop the model, and in `commands`,
`synths` and the two runs about replacements, where the bound on commands does.

**Fairness.** None is assumed of the contracts, and no liveness is claimed: no
account is obliged to call anything. Of the tools it is:

- `owner`: the operator runs the command until nothing is left and confirms
  (`runStep`), ends a run that asks for a nonce for ever (`giveUp`, part of
  `runStep`), the service lists what was posted (`index`) and the signers
  execute what is due (`execute`); a nomination is never forced. A prompt denied
  or a crash is `stop`, which is bounded, as are failed reads and refused posts.
- `deploy`: a run that was started goes on, one that ended is started again, and
  the owner performs what was deferred. The program has no other scheduler than
  its own sequence of awaits, which is weak fairness of `step`. (The fairness is
  stated over the variables of the run and over the file of deferred calls: both
  change with every such step.)
- `settle`: a run goes on; the operator fetches the latest events again and
  again (strong fairness, because runs that use the file come in between); the
  node's next transaction is mined; waiting periods end, and so does what else
  blocks a settlement (`blockEnds`: a suspension is lifted, the account gets
  enough to give back). No user settles.
- migration: a run goes on, and is started again while the source has markets.

**Where debt is undefined.** After a total exit the ledger ends in zero (run
`issuer_last_exit`). Properties about debts and shares are about states in
which these are defined (`DebtIsDefined`, `ShareIsDefined`); in the others the
code reverts with a division by zero.

## 4. What is proved

For all accounts, amounts, prices, settings, units and lengths that satisfy the
named assumptions of the modules:

- `SafeDecimalMathProofs`: every operator yields naturals, and a part of a
  whole is at most one at high precision (`ShareAtMostOne`), which is why the
  subtraction from `preciseUnit()` in `_addToDebtRegister` cannot revert.
  Dividing at ten times the precision and rounding the last digit half up, which
  looks like rounding twice, gives the integer nearest to the exact result
  (`DivisionRoundsToNearest`, `MultiplicationRoundsToNearest`). The theorems
  about what rounding costs are built on that: an amount turned into a share and
  back is off by one at most while the whole is at most the high-precision unit
  (`PartIsRegained`), and so is the debt of a share whose ledger entry was scaled
  by a rounded factor (`DebtIsKept`). The lemmas on liquidation bound in the same
  way the amount that fixes a ratio, the collateral taken and the ratio left.
- `SumProofs`: sums over finite sets. The fold of the library is a recursive
  function chosen by its equation; that it exists is shown for sets of every
  size by an induction on the size, stated about a set of numbers
  (`NatSetInduction`) since the library's theorem needs an operator as its
  parameter. From it: what a sum becomes when one entry changes
  (`SumOfChanged`), that the sum of two tables added point by point is the sum of
  their sums (`SumOfTwo`), and that a table nowhere above another has no greater
  sum (`SumMonotone`).
- `IssuerProofs`: `TypeCorrect`, `EntriesStayInLedger`, `IssuerCountNeverShort`,
  `SuspensionFreezes`, `SupplyStaysBacked` and `CoverIsKept`. The type says that
  no balance, supply, share or count goes below zero and is not inductive by
  itself: the decrement of the issuer count needs `IssuerCountCoversIssuers`,
  and a debt is a number only if its entry is in the ledger. `IInv` is the
  conjunction of the three. `RegisterUpdate` isolates what setting one share and
  appending one entry do; `AddPreservesRegister` and `RemovePreservesRegister`
  apply it to the two register operations, and one lemma per action carries it
  to `NextPreserves`. `SupplyStaysBacked` follows each balance through
  `SumOfChanged`. `CoverIsKept` adds `EntriesOweInv`: whoever has no pending
  exchange, which the code recognises by a time of zero, owes nothing, so that
  each operation either settles what is owed or looks at it.

  Four more theorems say what the ledger is worth, with the rounding of the code:
  - `DebtsFollowSupply`: after an issue, a burn or a liquidation the debt of its
    account is the old one plus or minus the sUSD, to the unit; the old one of a
    burn that settles exchanges is the one after the settlement. The property is
    about pools up to `PRECISE_UNIT`, which is 10^27 of the smallest
    units, a billion sUSD: beyond that a share has too few digits to name each.
  - `DebtsOfOthersAreKept`: the other debts move by one unit at most. It assumes
    `PrecisionSuffices` of every state: the pool is at most a tenth of
    `PRECISE_UNIT`, no share, as taken or as the ledger has it now, is above twice
    the whole, and the ledger entry a share was taken at is at least twice the
    debt. The last is a real condition: the ledger starts at 10^27 and shrinks by
    as much as issuing multiplies the pool, so a pool that grows from next to
    nothing leaves entries with few digits, and then rounding moves other debts
    by more than a unit.
  - `DebtsFollowPool`: the sum of all debts moves as the pool does, to a unit for
    each account, since the two lemmas above hold to a single unit (`SumsWithin`).
    With it `PoolStaysShared`: the sum of the debts is the pool
    (`DebtPoolShared`). The errors add up over operations (`DriftInv`), so the
    slack it needs is the number of accounts times that of operations
    (`MaxLedger`); a debt that cannot be computed never can be again, which lets
    the invariant be about the histories in which all can. Beside
    `PrecisionSuffices` it assumes that prices rest (`PoolRests`): the pool is moved by the operations of the Issuer only,
    and by exchanges whose settlement changes nothing. A price move multiplies
    the error with the pool, and no slack that is fixed beforehand bounds that.
  - `LiquidationsStop`: a liquidation ends at the target ratio and not beyond it.
    The slack it needs is four units, one and a half times the price of SNX and
    the pool over the unit: `calculateAmountToFixCollateral` divides by a
    truncated number, which costs one part in `UNIT` of what is liquidated.
  - `FlagsEndWithDebt`: the step that ends a debt removes the flag, or it is the
    liquidation of an account whose collateral is worth the debt and the penalty,
    to a few units (see the findings). A burn that leaves a debt also leaves a
    share, while the pool is at most `PRECISE_UNIT`; one that leaves none removes
    the flag.
- `StakingProofs`: `FeeTypesCorrect`, `FeesStayBacked`, `PeriodsStayOrdered`,
  `NobodyClaimsTwice`, `SharesAreKept` and `FeesAreDistributed`, the refinement of
  `FeeDistribution` for fees and for rewards: initial states to initial states,
  every step to a step or a stutter. A fee or a reward is `Receive`, a rollover
  `Close`, a claim `Claim`; it needs that ids of the ring are consecutive
  (`IdsAreConsecutive`), since the code tells who has claimed by the id of the
  period. `StakingInv` adds to `IInv` that each
  period pays at most what it has (so that rollover and claims subtract safely),
  the equality of balances and periods, the order of the ring, and that the
  closed period ends inside the ledger (so that the share of a claim is a
  number). `SharesAreKept` rests on the history: the first operation of a period
  pushes the record of the close down, every later one overwrites the record of
  its own period, and the ledger only grows. It needs a history of two records
  at least (`FeePoolAssumption`; the code keeps six): with one, that first
  operation would destroy the record.
- `ExchangerProofs`: `ExchangerTypeCorrect`, `FundsWait`, `BreakerBounds`,
  `FeesAreHeld` and `ValueIsKept` from `ExchangerInv`, which adds to the types that every pending
  exchange has a time: the code tells an empty queue from a finished period by a
  maximum of zero. Four theorems more have the hypothesis that no rate is
  deleted (`Deletable = {}`, as in the run that checks them): `RatesStayInOrder`
  (rates are positive, their times ascend, and every pending exchange refers to
  rounds that exist), `OwingFinal`, `CoverOfOwed` and `SettlesAtPeriodEnd`. The
  hypothesis is needed: a round id that is deleted and reported again gives a
  pending exchange another price, and the code has nothing against it. The argument
  is that the walk over the rounds stops where a set says it does
  (`RateAtEnd`), that this set does not change by rounds dated after the end of
  the period, and that each entry of a queue is covered on its own, by
  `SumOfChanged` and `SumMonotone`.
  `ValueIsKept` follows a conversion through both synths and the fee: the value is
  a sum over synths of a rate times a sum over holders, so that each of the three
  balances an exchange writes moves it by a rate times an amount (`SumOfChanged`
  twice), and the rounding of each conversion is half a unit of the synth it ends
  in. It needs `RateOfSUSD`, that a rate of sUSD is the unit or none at all.
- `CommandsProofs`, on the synths: `SynthsStayWhole` and `ForgottenIsRemoved`. `WholeInv`
  follows a replacement through its steps: which instance the proxy, the token
  state and the Issuer refer to, and where the supply is, of every synth whose own
  replacement was not disturbed (`disturbed` records those that were interrupted,
  denied a call or traded into, for which the property is false: the finding of
  `replace_disturbed`). `SynthsStayWhole` has no hypothesis:
  whatever else is interrupted, denied or traded, the others stay whole.
  `RemovalInv` adds that a removal left to the owner is of a synth that nobody
  holds, so that the Issuer does not refuse it, under `RemovalsRest`: nobody
  issues it while it waits (see the findings).
  On the migration: `NothingOlderRemains`, under `NothingCreated` (no market is
  created while a run is in progress; see the findings). `MarketInv` follows a
  run through its phases. Without creation the active list only gets shorter.
  The matured one can grow, but by a market that leaves the active list: when it
  leaves after it was read, the chunk with it is refused and the run cannot
  complete; when it leaves before, the counts disagree. So in a run that
  completes both lists only got shorter, and a list that is as long as what was
  read of it is what was read (`Copying`). `RemovedAll` computes the fold of `remove` over a chunk, by an induction on
  the places of the chunk that is stated about a set of numbers.
- `SafeOwnerProofs`: `NoncesStayDistinct`, `NothingStaysPendingTwice`,
  `CompletedStaysSafe`, `OwnerTypeCorrect` and `OwnerKeepsThePromise`, for any
  number of entries, contracts, stops, other signers and failures of the service.
  The key is `UnlistedIsLast`: what the service does not list yet is at most the
  last post, and it has the nonce that the service's answer leads to; as long as
  that is the nonce last used the command asks again, so whoever passes
  `getLastTx` sees everything. A run that could not read the last nonce while a
  transaction was pending is `astray` and its posts are `blind`; the theorem says
  that these are the only ones that can share a nonce. It needs that only listed
  transactions are executed: if the Safe could get ahead of the service,
  transactions listed out of order would lead to a nonce that is taken. On top of
  it `LoadedWhatWaits` (what waits was loaded when the run began, or is the item in
  hand) gives that nothing waits twice, and `KeptInv` that a marked entry has been
  performed, waits with an approved hash, was refused, or shares its nonce.
  `OwnerTypeCorrect` shows that the nonces have no gap: each
  is below the number of staged transactions (`NonceBounds`), also when two share
  one. `OwnerKeepsThePromise` is the refinement of `DeferredActions` without its
  fairness; what is lost stays lost (`LostStaysLost`).
- `DeployProofs`: `FilesAlwaysAllowRestart`, `LinksStayForward`,
  `DeployTypeCorrect` and `OneTimeStepsHappen`, for any set of synths and any
  plan with the shape of `PlanAssumption`. `FilesInv` adds to the property that an instance exists
  before its address is written and that the address is written before the flag
  is cleared. That no link goes back is a matter of the calls left to the owner,
  which are performed long after they were made: `Deferred` says that each in the
  file sets a link to no instance past the one on record, `NotBehind` that one
  that waits sets it to none before the one it has, and `DeferredInOrder` that of
  two calls in the file the later one sets the newer, complete or not: an entry
  that is deferred again keeps its place. So performing them in the order of the
  file keeps this true for the rest, and a new instance of the contract makes the
  calls left for the old one without effect. `MintsAreBounded` counts the instances: one, and one more for each
  release or interrupted run.
  `OneTimeStepsHappen` (`OneTimeStepsAreDone`) rests on `OneTimeInv`: a token
  state that a run deploys was flagged when the run started, and until the
  balance is issued, or its call waits for the owner, the step that issues it is
  still ahead (`Ahead`); an ExchangeRates that replaces the one found at the
  start belongs to the deployer, so that the call that carries over the frozen
  price is never deferred. It has the hypothesis `NoRunThrows` beside the
  property's own, that no run was interrupted. It is needed: a run that is
  refused on the way, as one of a release of ExchangeRates and a synth without
  the Issuer, leaves a new ExchangeRates that is not frozen, and the next release
  reads the status from there.

The assumptions are those the modules declare: a finite set of accounts, a unit
that is a multiple of ten (`UnitAssumption`), the bounds of the liquidation
settings (`LiquidationAssumption`, which keeps the divisor of
`calculateAmountToFixCollateral` positive), natural amounts and bounds, positive
prices (`ExchangeRatesAssumption`), a fee address that is no trader and fee rates
up to one (`ExchangerAssumption`), finitely many holders and synths (the same two), finite sets of users, entries and contracts
(`SynthAssumption`, `OwnerAssumption`), that another signer's transaction is none
of the items (`OtherIsNoItem`), that the keys of the synths give contracts
and links names of their own (`PlanAssumption`; it rules out a synth called
like a contract), and that the plan issues the balance and carries over the
prices after it deploys what they are about (`OneTimeAssumption`). TLC evaluates them in each run.

**Only model-checked**, and why:

- `SharesFitPeriod` and `ClaimsArePaidInFull` are about sums of rounded shares,
  taken at ledger entries of different times. A share is a debt, rounded to the
  unit, over the pool: its error is as large as the pool is small, and the errors
  add up over operations and periods. `DebtPoolShared`, likewise, beyond what
  `PoolStaysShared` says.
- Liveness (`DeferredActionsArePerformed` beyond its steps, `EventuallyWired`,
  `DueIsSettled`, `SourceBecomesEmpty`): fairness and ENABLED are beyond the
  prover, as are recursive operators.

## 5. Findings

- `Issuer.sol:726` decides by the length of the ledger whether an issuer is the
  first. After the last issuer has burned everything the ledger ends in 0; the
  next issuer appends 0 and its debt cannot be computed any more.
- `commands/replace-synths.js` reads the supplies at `:181`, before it asks for
  confirmation and before it replaces the other synths of its list. What users
  issue or burn from then on is missing from the supply of the new synth (run
  `replace_disturbed`), against the comment at `:268`. No step has to fail; but
  one that does has the same effect: `:236` sets the old supply to zero before
  the new synth is deployed, and a run that stops in between and is repeated
  reads zero (the same run with `TradedDuring = {}`).
- `safe-utils.js:171` logs a post that the service refuses and `owner.js:151` marks
  the entry complete all the same (run `owner_refused`), against the message at
  `:155`. The next item of that run then asks for a new nonce for ever, since the
  service goes on answering with the old one.

Met while reading, without a run of their own:

- `Issuer.sol:717` counts an issuer whenever the existing debt is zero, also when
  the amount issued is zero, so that `totalIssuerCount` can exceed the accounts
  that have issued (`SynthetixState.sol:35` calls it their total). It never falls
  below them (`IssuerCountCoversIssuers`), which is what its decrement needs.
- `migrate-binary-option-markets.js:112` passes the end of a page where the
  contract expects its size. The third page overlaps the second, and with more
  than two hundred markets of a kind the count never agrees and the command
  always gives up (assumption `PageLimit`).
- A liquidation that pays a whole debt with collateral worth that debt and the
  penalty leaves the flag: `calculateAmountToFixCollateral` then yields a little
  more than the debt, and `Issuer.sol:668` removes the flag only when the two
  amounts are equal. When the account issues again its deadline is long past
  (`FlagsGoWithDebt`).
- A market created during a migration can take the place of one that matures
  after the matured ones were counted; both counts are right and a market stays
  behind (`CreatedDuring`).
- `replace-synths.js:116` starts the Deployer with an empty configuration, so
  that `config.json` names only the replaced synths afterwards (`deployNew`).
- A removal that was deferred is refused by the Issuer if somebody issues the
  synth before the owner performs it, and the files have forgotten it by then.
- A read of the last transaction that fails (`safe-utils.js:99`) looks like a Safe
  without transactions: the nonce taken is that of the oldest one that waits, and
  only one of the two is executed. An entry whose transaction is the other one is
  complete and lost (`CompletedIsNotLost` names it).
- An operator who denies a confirmation during `replace-synths` (`util.js:268`) is
  told "Cancelled" and the next step follows: for example the new synth is behind
  the proxy while the token state still belongs to the old one (`deny`).
- `SwapOracle` has the ExchangeRates of its constructor and no setter
  (`deploy.js:1092`): after a release of ExchangeRates alone it reports to the old
  one, and the new one has it as its oracle. `EscrowChecker` and
  `DelegateApprovals` keep the contract of their constructor in the same way
  (`LeftBehind`).
- After an interrupted run that had deployed `TokenStateSynthetix`, the next one
  finds its flag cleared and does not issue the first balance
  (`OneTimeStepsAreDone` is about runs without interruption). A run that ends by
  an exception after it deployed ExchangeRates loses the status of a frozen synth
  in the same way (`NoRunThrows`).
- The Issuer refuses a synth of a release that does not release the Issuer too
  (`Issuer.sol:385`), and the deployment stops there each time (`RefusedSynth`).

## 6. Not modelled, and plan

The status of every part is in `PROJECT.json`. Of the tools, the commands that
read, check and write once (`import-fee-periods`, `deploy-staking-rewards`,
`escrow`) and those that only handle files, git, the compiler or an explorer
are left out: they keep no state over which steps could interleave. Of the
contracts, in this order:

1. `Exchanger`: an abstract exchange that settles at the rate of the end of
   the period, which the queue implements; inverse pricing in `ExchangeRates`.
2. `RewardEscrow`, `SupplySchedule`, `RewardsDistribution` and `mint`:
   conservation of the SNX supply, the boundary weeks at fixed integer width.
3. `Depot` and, on top of it, `EtherCollateral`: an abstract bag of deposits
   implemented by the queue with gaps.
4. The binary option market from bidding to expiry.
5. `StakingRewards` and `TradingRewards`: promises against balances.
6. `SystemSettings`, ownership and approvals.
7. `DeferredActions` for the calls of `Deploy`, composed with `SafeOwner`.

Worth proving next: the four theorems about rates for the synths that are never
deleted when others are; how far a sum of shares may be from its whole as a
function of the operations so far; the totals of the Depot, and that the concrete
queue and exchange implement their abstractions.
