------------------------------- MODULE Staking -------------------------------
(***************************************************************************)
(* The Issuer together with the fee pool: every operation on the debt      *)
(* register also appends to the issuance history, and a claim pays out of  *)
(* the fee pool into the balances and the escrow that the Issuer reads.    *)
(***************************************************************************)
EXTENDS Issuer, FeePool

CONSTANTS TargetThreshold, \* how far above the target ratio one may claim
          Fees,            \* the fees exchanges pay
          Rewards,         \* the rewards that get distributed
          MaxFees,         \* bound on the fees gathered in a period
          MaxPeriod        \* bound on the period ids

ASSUME StakingAssumption ==
  /\ TargetThreshold \in Nat /\ Fees \subseteq Nat /\ Rewards \subseteq Nat
  /\ MaxFees \in Nat /\ MaxPeriod \in Nat

StakingInit == Init /\ FeePoolInit(now)

stakingVars == <<vars, feeVars>>

\* Issue, burn and liquidate, with the record of the new share.
ChangeDebt(a) ==
  /\ IssuerStep(a)
  /\ appendAccountIssuanceRecord(a)
  /\ UNCHANGED <<recentFeePeriods, currentFeePeriod, lastFeeWithdrawal,
                 feeBalance, rewardBalance>>

\* An exchange between two other synths pays its fee in sUSD (Exchanger).
PayExchangeFee(fee) ==
  /\ exchangeActive
  /\ "synths" \notin invalidRates
  /\ fee < otherSynths
  /\ period(0).feesToDistribute + fee <= MaxFees
  /\ otherSynths' = otherSynths - fee
  /\ sUSDSupply' = sUSDSupply + fee
  /\ feeBalance' = feeBalance + fee
  /\ recordFeePaid(fee)
  /\ UNCHANGED <<registerVars, now, deadline, snxVars, sUSD, snxRate, invalidRates,
                 pending, lastIssueEvent, suspended, currentFeePeriod,
                 accountIssuanceLedger, lastFeeWithdrawal, rewardBalance>>

\* Synth._transferToFeeAddress for sUSD.
TransferToFeeAddress(a, value) ==
  /\ suspended \cap {"System", "Synth"} = {}
  /\ pending[a].until <= now
  /\ value <= transferableSynths(a)
  /\ period(0).feesToDistribute + value <= MaxFees
  /\ sUSD' = [sUSD EXCEPT ![a] = @ - value]
  /\ feeBalance' = feeBalance + value
  /\ recordFeePaid(value)
  /\ UNCHANGED <<registerVars, now, deadline, snxVars, sUSDSupply, priceVars,
                 pending, lastIssueEvent, suspended, currentFeePeriod,
                 accountIssuanceLedger, lastFeeWithdrawal, rewardBalance>>

DistributeRewards(amount) ==
  /\ systemActive
  /\ rewardBalance + amount <= MaxFees
  /\ setRewardsToDistribute(amount)
  /\ UNCHANGED vars

CloseCurrentFeePeriod ==
  /\ issuanceActive
  /\ period(0).feePeriodId < MaxPeriod
  /\ closeCurrentFeePeriod(now)
  /\ UNCHANGED vars

\* _isFeesClaimableAndAnyRatesInvalid
isFeesClaimable(a) ==
  collateralisationRatio(a) <= multiplyDecimal(IssuanceRatio, UNIT + TargetThreshold)

ClaimFees(a) ==
  /\ issuanceActive
  /\ DebtIsDefined(a)
  /\ isFeesClaimable(a)
  /\ ~anyRateIsInvalid
  /\ claimFees(a)
  /\ sUSD' = [sUSD EXCEPT ![a] = @ + (feeBalance - feeBalance')]
  /\ escrowed' = [escrowed EXCEPT ![a] = @ + (rewardBalance - rewardBalance')]
  /\ UNCHANGED <<registerVars, now, deadline, snx, sUSDSupply, priceVars, pending,
                 lastIssueEvent, suspended>>

FeePoolNext ==
  \/ \E fee \in Fees : PayExchangeFee(fee)
  \/ \E a \in Accounts, value \in Fees : TransferToFeeAddress(a, value)
  \/ \E amount \in Rewards : DistributeRewards(amount)
  \/ CloseCurrentFeePeriod
  \/ \E a \in Accounts : ClaimFees(a)

StakingNext ==
  \/ \E a \in Accounts : ChangeDebt(a)
  \/ (LiquidationsNext \/ TokenNext \/ EnvironmentNext) /\ UNCHANGED feeVars
  \/ FeePoolNext

StakingSpec == StakingInit /\ [][StakingNext]_stakingVars
------------------------------------------------------------------------------
SharesDefined == \A a \in Accounts : ShareIsDefined(a)

\* The shares of a closed period add up to the period at most: all accounts
\* can be paid from it, whoever issued, burned or left before or after.
SharesFitPeriod ==
  SharesDefined =>
    AtMost(MapThenSumSet(earnedFees, Accounts), period(1).feesToDistribute)

\* What an account earned in the closed period stays the same while that is
\* the period to claim: issuing and burning afterwards change nothing.
EarnedSharesAreKept ==
  [][/\ period(1).feePeriodId' = period(1).feePeriodId
      /\ <<accountIssuanceLedger, debtLedger>>' # <<accountIssuanceLedger, debtLedger>>
      => \A a \in Accounts :
         ShareIsDefined(a) /\ ShareIsDefined(a)' => EarnedRatio(a)' = EarnedRatio(a)]_stakingVars

\* Fees and rewards leave the pool only for an account that has not claimed
\* this period or a later one before.
OneClaimPerPeriod ==
  [][feeBalance' < feeBalance \/ rewardBalance' < rewardBalance =>
       \E a \in Accounts :
         lastFeeWithdrawal[a] < lastFeeWithdrawal'[a]]_stakingVars

\* Fees and rewards are distributed as FeeDistribution promises: they gather in
\* the open period, are claimed once closed, by every account once a period, and
\* roll over when they are not.
FeesPromise == INSTANCE FeeDistribution WITH
  open <- unclaimedFees(period(0)), closed <- unclaimedFees(period(1)),
  current <- period(0).feePeriodId, claimed <- lastFeeWithdrawal, fund <- feeBalance

RewardsPromise == INSTANCE FeeDistribution WITH
  open <- unclaimedRewards(period(0)), closed <- unclaimedRewards(period(1)),
  current <- period(0).feePeriodId, claimed <- lastFeeWithdrawal, fund <- rewardBalance

Distribution == FeesPromise!Spec /\ RewardsPromise!Spec

\* Whoever claims gets all the fees it earned, also when it comes last; only
\* what rounding made each period borrow of the next may be missing.
ClaimsArePaidInFull ==
  [][\A a \in Accounts :
       lastFeeWithdrawal'[a] # lastFeeWithdrawal[a] =>
         earnedFees(a) <= sUSD'[a] - sUSD[a] + RoundingSlack * period(0).feePeriodId]_stakingVars
==============================================================================
