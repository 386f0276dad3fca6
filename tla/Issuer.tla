-------------------------------- MODULE Issuer --------------------------------
(***************************************************************************)
(* Issuing, burning and liquidating synths against SNX collateral          *)
(* (contracts/Issuer.sol, entered through contracts/Synthetix.sol).  The   *)
(* Issuer keeps no debts: it turns the debt register (SynthetixState) and  *)
(* the value of all issued synths into the debt of an account, and every   *)
(* issue, burn and liquidation updates the register, the sUSD balances and *)
(* the liquidation flag together.                                          *)
(*                                                                         *)
(* Transactions are atomic, so each external call is one action; one that  *)
(* reverts is one whose guard is false.  Around them stand the steps of    *)
(* others the Issuer reacts to: price updates, exchanges into and out of   *)
(* sUSD (which owe a settlement until their waiting period has passed),    *)
(* transfers and suspensions.                                              *)
(***************************************************************************)
EXTENDS SynthetixState, Liquidations, FiniteSetsExt

CONSTANTS Amounts,          \* the sUSD amounts callers pass
          Transfers,        \* the SNX and sUSD amounts callers transfer
          Collateral,       \* account -> its initial SNX balance
          Escrowed,         \* account -> its initial SNX in the escrow contracts
          Rates,            \* the SNX prices the oracle reports
          OtherValues,      \* values the other synths' supply can move to
          InvalidRates,     \* the sets of rates that can be stale or flagged at once
          Adjustments,      \* <<reclaim, rebate>> an exchange into sUSD can owe
          WaitingPeriod,    \* waitingPeriodSecs
          MinimumStakeTime, \* minimumStakeTime
          Sections,         \* the SystemStatus sections that get suspended
          RoundingSlack,    \* what rounding may add to or take from a debt
          MaxTime,          \* bound on now
          MaxLedger         \* bound on the length of the debt ledger

ASSUME IssuerAssumption ==
  /\ Amounts \subseteq Nat /\ Transfers \subseteq Nat
  /\ Collateral \in [Accounts -> Nat] /\ Escrowed \in [Accounts -> Nat]
  /\ Rates \subseteq Nat \ {0} /\ Rates # {}
  /\ OtherValues \subseteq Nat /\ InvalidRates \subseteq SUBSET {"BADI", "synths"}
  /\ Adjustments \subseteq Nat \X Nat
  /\ WaitingPeriod \in Nat /\ MinimumStakeTime \in Nat
  /\ Sections \subseteq {"System", "Issuance", "Exchange", "Synth"}
  /\ RoundingSlack \in Nat /\ MaxTime \in Nat /\ MaxLedger \in Nat

VARIABLES snx,            \* account -> SNX balance, escrow excluded
          escrowed,       \* account -> SNX in the two escrow contracts
          sUSD,           \* account -> sUSD balance
          sUSDSupply,     \* totalSupply of sUSD
          otherSynths,    \* value in sUSD of every other synth's supply
          snxRate,        \* price of SNX in sUSD
          invalidRates,   \* the rates that are stale or flagged: BADI's, other synths'
          pending,        \* account -> its unsettled exchanges into sUSD
          lastIssueEvent, \* account -> time it last issued
          suspended       \* the suspended sections

snxVars == <<snx, escrowed>>
tokenVars == <<snxVars, sUSD, sUSDSupply>>
priceVars == <<otherSynths, snxRate, invalidRates>>
vars == <<registerVars, now, deadline, tokenVars, priceVars, pending,
          lastIssueEvent, suspended>>

\* until is the end of the waiting period, 0 when there is no entry.
NoEntries == [until |-> 0, reclaim |-> 0, rebate |-> 0]

Init ==
  /\ SynthetixStateInit
  /\ LiquidationsInit
  /\ snx = Collateral
  /\ escrowed = Escrowed
  /\ sUSD = [a \in Accounts |-> 0]
  /\ sUSDSupply = 0
  /\ otherSynths = 0
  /\ snxRate \in Rates
  /\ invalidRates = {}
  /\ pending = [a \in Accounts |-> NoEntries]
  /\ lastIssueEvent = [a \in Accounts |-> 0]
  /\ suspended = {}
------------------------------------------------------------------------------
(* Views. *)

systemActive == "System" \notin suspended
issuanceActive == suspended \cap {"System", "Issuance"} = {}

anyRateIsInvalid == invalidRates # {}

totalIssuedSynths == sUSDSupply + otherSynths

\* The pool and a debt, priced in SNX.
totalIssuedInSNX == divideDecimalRound(totalIssuedSynths, snxRate)
debtInSNX(a) == debtBalance(a, totalIssuedInSNX)
debtInSUSD(a) == debtBalance(a, totalIssuedSynths)

collateral(a) == snx[a] + escrowed[a]

collateralValue(a) == multiplyDecimalRound(collateral(a), snxRate)

maxIssuableSynths(a) == multiplyDecimal(collateralValue(a), IssuanceRatio)

\* Mutant: the existing debt is not compared first.
remainingUnchecked(a) == maxIssuableSynths(a) - debtInSUSD(a)

remainingIssuableSynths(a) ==
  IF debtInSUSD(a) >= maxIssuableSynths(a) THEN 0
  ELSE maxIssuableSynths(a) - debtInSUSD(a)

collateralisationRatio(a) ==
  IF collateral(a) = 0 THEN 0 ELSE divideDecimalRound(debtInSNX(a), collateral(a))

canBurnSynths(a) == now >= lastIssueEvent[a] + MinimumStakeTime

\* The SNX a debt locks.
lockedSynthetixValue(a) == divideDecimalRound(debtInSNX(a), IssuanceRatio)

\* Mutants: what is owed, and the suspension, are not looked at.
transferableIgnoringReclaim(a) == sUSD[a]
CanSettleWhileSuspended(a) ==
  /\ pending[a].until <= now
  /\ pending[a].reclaim <= sUSD[a] + pending[a].rebate
  /\ pending[a].reclaim <= sUSDSupply + pending[a].rebate

transferableSynths(a) ==
  IF pending[a].reclaim > sUSD[a] THEN 0 ELSE sUSD[a] - pending[a].reclaim

\* Exchanger.settle on sUSD: the waiting period is over and the net amount
\* can be burned from, or is issued to, the account.
CanSettle(a) ==
  /\ suspended \cap {"System", "Synth"} = {}
  /\ pending[a].until <= now
  /\ pending[a].reclaim <= sUSD[a] + pending[a].rebate
  /\ pending[a].reclaim <= sUSDSupply + pending[a].rebate

NetSettled(a) == pending[a].rebate - pending[a].reclaim

\* Synth.burn subtracts safely from a balance and from the total supply.
CanBurn(balance, supply, amount) == amount <= balance /\ amount <= supply

settlementOwing(a) == pending[a].until > now \/ pending[a].reclaim > 0
------------------------------------------------------------------------------
(* The operations of the Issuer. *)

\* _internalIssueSynths
internalIssueSynths(from, amount) ==
  /\ debtLedgerLength < MaxLedger
  /\ addToDebtRegister(from, amount, debtInSUSD(from), totalIssuedSynths)
  /\ lastIssueEvent' = [lastIssueEvent EXCEPT ![from] = now]
  /\ sUSD' = [sUSD EXCEPT ![from] = @ + amount]
  /\ sUSDSupply' = sUSDSupply + amount
  /\ UNCHANGED <<now, deadline, snxVars, priceVars, pending, suspended>>

IssueSynths(from, amount) ==
  /\ issuanceActive
  /\ DebtIsDefined(from)
  /\ ~anyRateIsInvalid
  /\ amount <= remainingIssuableSynths(from)
  /\ internalIssueSynths(from, amount)

IssueMaxSynths(from) ==
  /\ issuanceActive
  /\ DebtIsDefined(from)
  /\ ~anyRateIsInvalid
  /\ internalIssueSynths(from, remainingIssuableSynths(from))

unflagIfRepaired(from, existingDebt, burned) ==
  IF existingDebt - burned <= maxIssuableSynths(from)
  THEN removeAccountInLiquidation(from)
  ELSE UNCHANGED deadline

\* _internalBurnSynths; balance and supply are those after settlement.
internalBurnSynths(from, amount, existingDebt, total, balance, supply) ==
  LET amountToBurn == IF existingDebt < amount THEN existingDebt ELSE amount
  IN
  /\ debtLedgerLength < MaxLedger
  /\ removeFromDebtRegister(from, amountToBurn, existingDebt, total)
  /\ CanBurn(balance, supply, amountToBurn)
  /\ sUSD' = [sUSD EXCEPT ![from] = balance - amountToBurn]
  /\ sUSDSupply' = supply - amountToBurn
  /\ unflagIfRepaired(from, existingDebt, amountToBurn)
  /\ UNCHANGED <<now, snxVars, priceVars, lastIssueEvent, suspended>>

\* Mutant: the pool as it is before the settlement.
poolBeforeSettlement(from) == sUSDSupply + otherSynths

\* The pool once the exchanges of the account are settled.
settledPool(from) == sUSDSupply + NetSettled(from) + otherSynths

\* burnSynths settles first, since a settlement changes the size of the pool.
BurnSynths(from, amount) ==
  LET balance == sUSD[from] + NetSettled(from)
      supply == sUSDSupply + NetSettled(from)
      total == settledPool(from)
      existingDebt == debtBalance(from, total)
      refunded == IF NetSettled(from) > 0 THEN NetSettled(from) ELSE 0
      afterSettlement ==
        IF pending[from].until = 0 THEN amount
        ELSE (IF amount > balance THEN balance ELSE amount) + refunded
  IN
  /\ issuanceActive
  /\ canBurnSynths(from)
  /\ CanSettle(from)
  /\ DebtIsDefined(from)
  /\ ~anyRateIsInvalid
  /\ existingDebt > 0
  /\ internalBurnSynths(from, afterSettlement, existingDebt, total, balance, supply)
  /\ pending' = [pending EXCEPT ![from] = NoEntries]

\* burnSynthsToTarget neither settles nor waits for the minimum stake time.
BurnSynthsToTarget(from) ==
  /\ issuanceActive
  /\ DebtIsDefined(from)
  /\ ~anyRateIsInvalid
  /\ debtInSUSD(from) > 0
  /\ debtInSUSD(from) >= maxIssuableSynths(from)
  /\ internalBurnSynths(from, debtInSUSD(from) - maxIssuableSynths(from),
                        debtInSUSD(from), totalIssuedSynths,
                        sUSD[from], sUSDSupply)
  /\ UNCHANGED pending

LiquidateDelinquentAccount(account, susdAmount, liquidator) ==
  LET debt == debtInSUSD(account)
      penalised == UNIT + LiquidationPenalty
      amountToFixRatio ==
        calculateAmountToFixCollateral(debt, collateralValue(account))
      capped == IF amountToFixRatio < susdAmount THEN amountToFixRatio
                                                 ELSE susdAmount
      redeemed == multiplyDecimal(divideDecimalRound(capped, snxRate), penalised)
      short == redeemed > collateral(account)
      totalRedeemed == IF short THEN collateral(account) ELSE redeemed
      amountToLiquidate ==
        IF short
        THEN multiplyDecimalRound(divideDecimal(collateral(account), penalised),
                                  snxRate)
        ELSE capped
  IN
  /\ systemActive
  /\ debtLedgerLength < MaxLedger
  /\ ~settlementOwing(liquidator)
  /\ DebtIsDefined(account)
  /\ isOpenForLiquidation(account, collateralisationRatio(account))
  /\ sUSD[liquidator] >= susdAmount
  /\ ~anyRateIsInvalid
  /\ debt >= multiplyDecimal(collateralValue(account), IssuanceRatio)
  /\ removeFromDebtRegister(account, amountToLiquidate, debt, totalIssuedSynths)
  /\ CanBurn(sUSD[liquidator], sUSDSupply, amountToLiquidate)
  /\ sUSD' = [sUSD EXCEPT ![liquidator] = @ - amountToLiquidate]
  /\ sUSDSupply' = sUSDSupply - amountToLiquidate
  /\ IF amountToLiquidate = amountToFixRatio
     THEN removeAccountInLiquidation(account)
     ELSE UNCHANGED deadline
  \* escrowed SNX cannot be paid out: the transfer reverts
  /\ totalRedeemed <= snx[account]
  /\ snx' = Moved(snx, account, liquidator, totalRedeemed)
  /\ UNCHANGED <<now, escrowed, priceVars, pending, lastIssueEvent, suspended>>

FlagAccountForLiquidation(a) ==
  /\ "BADI" \notin invalidRates
  /\ systemActive
  /\ DebtIsDefined(a)
  /\ flagAccount(a, collateralisationRatio(a))
  /\ UNCHANGED <<registerVars, now, tokenVars, priceVars, pending,
                 lastIssueEvent, suspended>>

CheckAndRemoveAccountInLiquidation(a) ==
  /\ "BADI" \notin invalidRates
  /\ systemActive
  /\ DebtIsDefined(a)
  /\ checkAndRemoveAccount(a, collateralisationRatio(a))
  /\ UNCHANGED <<registerVars, now, tokenVars, priceVars, pending,
                 lastIssueEvent, suspended>>

\* Synthetix.transfer: only an account that has issued is restricted.
TransferSNX(from, to, value) ==
  /\ systemActive
  /\ hasIssued(from) =>
       /\ DebtIsDefined(from)
       /\ value + lockedSynthetixValue(from) <= snx[from] \/ value = 0
       /\ ~anyRateIsInvalid
  /\ value <= snx[from]
  /\ snx' = Moved(snx, from, to, value)
  /\ UNCHANGED <<registerVars, now, deadline, escrowed, sUSD, sUSDSupply,
                 priceVars, pending, lastIssueEvent, suspended>>
\* An escrow contract pays out what has vested.
Vest(a, quantity) ==
  /\ systemActive
  /\ quantity <= escrowed[a]
  /\ escrowed' = [escrowed EXCEPT ![a] = @ - quantity]
  /\ snx' = [snx EXCEPT ![a] = @ + quantity]
  /\ UNCHANGED <<registerVars, now, deadline, sUSD, sUSDSupply, priceVars,
                 pending, lastIssueEvent, suspended>>
------------------------------------------------------------------------------
(* The steps of other contracts and of the oracle. *)

\* Synth.transfer of sUSD.
TransferSUSD(from, to, value) ==
  /\ suspended \cap {"System", "Synth"} = {}
  /\ pending[from].until <= now
  /\ value <= transferableSynths(from)
  /\ sUSD' = Moved(sUSD, from, to, value)
  /\ UNCHANGED <<registerVars, now, deadline, snxVars, sUSDSupply, priceVars,
                 pending, lastIssueEvent, suspended>>

SettleSUSD(a) ==
  /\ pending[a].until > 0
  /\ CanSettle(a)
  /\ sUSD' = [sUSD EXCEPT ![a] = @ + NetSettled(a)]
  /\ sUSDSupply' = sUSDSupply + NetSettled(a)
  /\ pending' = [pending EXCEPT ![a] = NoEntries]
  /\ UNCHANGED <<registerVars, now, deadline, snxVars, priceVars, lastIssueEvent,
                 suspended>>

exchangeActive == suspended \cap {"System", "Exchange", "Synth"} = {}

\* An exchange of sUSD for another synth, at a fee rate of zero (Staking adds
\* fees) and with no synth rate beyond the circuit breaker, which would do no
\* more than suspend the synth.  What is pending is settled first: SettleSUSD.
ExchangeFromSUSD(a, amount) ==
  /\ exchangeActive
  /\ "synths" \notin invalidRates
  /\ pending[a].until = 0
  /\ amount > 0 /\ CanBurn(sUSD[a], sUSDSupply, amount)
  /\ sUSD' = [sUSD EXCEPT ![a] = @ - amount]
  /\ sUSDSupply' = sUSDSupply - amount
  /\ otherSynths' = otherSynths + amount
  /\ UNCHANGED <<registerVars, now, deadline, snxVars, snxRate, invalidRates,
                 pending, lastIssueEvent, suspended>>

\* An exchange into sUSD, likewise: what it will owe is fixed by the rates at
\* the end of its waiting period, so any adjustment may turn out to be due.  One
\* entry is pending at a time.
ExchangeToSUSD(a, amount, owed) ==
  /\ exchangeActive
  /\ "synths" \notin invalidRates
  /\ pending[a].until = 0
  /\ amount > 0 /\ amount <= otherSynths
  /\ owed[1] <= amount
  /\ sUSD' = [sUSD EXCEPT ![a] = @ + amount]
  /\ sUSDSupply' = sUSDSupply + amount
  /\ otherSynths' = otherSynths - amount
  /\ pending' = [pending EXCEPT ![a] =
       [until |-> now + WaitingPeriod, reclaim |-> owed[1], rebate |-> owed[2]]]
  /\ UNCHANGED <<registerVars, now, deadline, snxVars, snxRate, invalidRates,
                 lastIssueEvent, suspended>>

\* Prices move; the supply of the other synths keeps a positive value.
UpdateRates ==
  /\ snxRate' \in Rates
  /\ invalidRates' \in InvalidRates
  /\ otherSynths' \in IF otherSynths = 0 THEN {0} ELSE OtherValues \cup {otherSynths}
  /\ priceVars' # priceVars
  /\ UNCHANGED <<registerVars, now, deadline, tokenVars, pending,
                 lastIssueEvent, suspended>>

UpdateSuspension ==
  /\ suspended' \in SUBSET Sections
  /\ suspended' # suspended
  /\ UNCHANGED <<registerVars, now, deadline, tokenVars, priceVars, pending,
                 lastIssueEvent>>

Tick ==
  /\ now < MaxTime
  /\ now' = now + 1
  /\ UNCHANGED <<registerVars, deadline, tokenVars, priceVars, pending,
                 lastIssueEvent, suspended>>

\* The operations that change the debt of a.
IssuerStep(a) ==
  \/ \E amount \in Amounts : IssueSynths(a, amount)
  \/ IssueMaxSynths(a)
  \/ \E amount \in Amounts : BurnSynths(a, amount)
  \/ BurnSynthsToTarget(a)
  \/ \E amount \in Amounts, b \in Accounts : LiquidateDelinquentAccount(a, amount, b)

IssuerNext == \E a \in Accounts : IssuerStep(a)

LiquidationsNext ==
  \E a \in Accounts :
    \/ FlagAccountForLiquidation(a)
    \/ CheckAndRemoveAccountInLiquidation(a)

TokenNext ==
  \E a \in Accounts :
    \/ \E b \in Accounts, value \in Transfers :
         TransferSNX(a, b, value) \/ TransferSUSD(a, b, value)
    \/ \E quantity \in Transfers : Vest(a, quantity)
    \/ SettleSUSD(a)
    \/ \E amount \in Amounts : ExchangeFromSUSD(a, amount)
    \/ \E amount \in Amounts, owed \in Adjustments : ExchangeToSUSD(a, amount, owed)

EnvironmentNext == UpdateRates \/ UpdateSuspension \/ Tick

Next == IssuerNext \/ LiquidationsNext \/ TokenNext \/ EnvironmentNext

Spec == Init /\ [][Next]_vars
------------------------------------------------------------------------------
(* Properties. *)

TypeOK ==
  /\ RegisterTypeOK
  /\ now \in Nat
  /\ deadline \in [Accounts -> Nat]
  /\ snx \in [Accounts -> Nat]
  /\ escrowed \in [Accounts -> Nat]
  /\ sUSD \in [Accounts -> Nat]
  /\ sUSDSupply \in Nat
  /\ otherSynths \in Nat
  /\ snxRate \in Rates
  /\ invalidRates \in SUBSET {"BADI", "synths"}
  /\ pending \in [Accounts -> [until : Nat, reclaim : Nat, rebate : Nat]]
  /\ lastIssueEvent \in [Accounts -> Nat]
  /\ suspended \in SUBSET Sections

\* Two amounts that only rounding can tell apart, and one below another.
AtMost(x, y) == x <= y + RoundingSlack
Near(x, y) == AtMost(x, y) /\ AtMost(y, x)

AllDebtsDefined == \A a \in Accounts : DebtIsDefined(a)

\* The debts of all accounts add up to the value of all synths: what the
\* register's shares and ledger factors are for.  Every issue, burn,
\* liquidation, settlement and price move has to preserve it.
DebtPoolShared ==
  Issuers # {} /\ AllDebtsDefined =>
    Near(MapThenSumSet(debtInSUSD, Accounts), totalIssuedSynths)

\* The tokens in circulation are the ones the accounts hold.
SupplyIsBacked == sUSDSupply = MapThenSumSet(LAMBDA a : sUSD[a], Accounts)

\* Issuing and burning change nobody else's debt (settlements aside, which
\* change the pool): the reason the ledger factor is pushed at all.
OthersDebtUnaffected ==
  [][debtLedger' # debtLedger /\ pending' = pending =>
       \A b \in Accounts :
         issuanceData'[b] = issuanceData[b] /\ DebtIsDefined(b) /\ DebtIsDefined(b)'
           => Near(debtInSUSD(b)', debtInSUSD(b))]_vars

\* The operation that sets the share of an account, whoever calls it, moves its
\* debt by what it adds to or takes out of circulation: what is stored is a
\* rounded share of a pool that the same operation resizes.  A burn that settles
\* exchanges moves the debt that the account has once they are settled.
DebtMovesWithSupply ==
  [][\A a \in Accounts :
       LET pool == IF pending'[a] = pending[a] THEN totalIssuedSynths
                   ELSE totalIssuedSynths + NetSettled(a) IN
       /\ issuanceData'[a] # issuanceData[a]
       /\ DebtIsDefined(a)' /\ totalIssuedSynths' <= PRECISE_UNIT
       => Near(debtInSUSD(a)' + pool, debtBalance(a, pool) + totalIssuedSynths')]_vars

\* A liquidation takes an account back to its target ratio and not beyond, and
\* reaches the target when it removes the flag.
LiquidationStopsAtTarget ==
  [][debtLedger' # debtLedger =>
       \A a \in Accounts :
         snx'[a] < snx[a] /\ DebtIsDefined(a)' =>
           /\ AtMost(maxIssuableSynths(a)', debtInSUSD(a)')
           /\ deadline'[a] = 0 => AtMost(debtInSUSD(a)', maxIssuableSynths(a)')]_vars

\* What an exchange into sUSD may have to give back stays in the account until
\* it is settled; burning to the target ratio, which skips settlement, is the
\* one operation that can spend it.
ReclaimIsCovered(a) == sUSD[a] + pending[a].rebate >= pending[a].reclaim
ReclaimsStayCovered ==
  [][\A a \in Accounts :
       ReclaimIsCovered(a) => ReclaimIsCovered(a)' \/ BurnSynthsToTarget(a)]_vars

\* The step that ends the debt of an account removes its flag, unless it is a
\* liquidation of collateral worth the debt and the penalty to the unit: a flag
\* that outlives its debt denies the account its delay when it issues again.
FlagsGoWithDebt ==
  [][\A a \in Accounts :
       /\ deadline'[a] > 0 /\ ~hasIssued(a)'
       /\ DebtIsDefined(a) /\ debtInSUSD(a) > 0
       => Near(collateralValue(a),
               multiplyDecimal(debtInSUSD(a), UNIT + LiquidationPenalty))]_vars

\* While the system is suspended only prices and time move: every one of the
\* handlers, whichever contract it is in, refuses.
SuspensionFreezesTheSystem ==
  [][~systemActive => UNCHANGED <<registerVars, deadline, tokenVars, pending>>]_vars

\* "If we're the first, push 1 as there was no effect to any other holders"
\* (Issuer.sol, _addToDebtRegister).
FirstIssuerPushesOne ==
  [][Issuers = {} /\ Issuers' # {} => lastDebtLedgerEntry' = PRECISE_UNIT]_vars
==============================================================================
