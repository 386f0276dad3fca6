------------------------------- MODULE FeePool -------------------------------
(***************************************************************************)
(* The fee pool (contracts/FeePool.sol) and the issuance history it claims *)
(* by (contracts/FeePoolState.sol).  Fees and rewards gather in the open   *)
(* period; once it is closed, every account may claim, once, the share of  *)
(* it that it owned of the debt pool when it closed.  What is left in a    *)
(* period when it leaves the ring rolls over into a newer one.             *)
(***************************************************************************)
EXTENDS SynthetixState, FiniteSetsExt

CONSTANTS FeePeriodDuration,
          HISTORY_LENGTH \* FEE_PERIOD_LENGTH of FeePoolState

FEE_PERIOD_LENGTH == 2

\* The contract keeps six records; with a single one, the first operation of a
\* period would overwrite the share that the closed period is claimed by.
ASSUME FeePoolAssumption ==
  /\ FeePeriodDuration \in Nat \ {0}
  /\ HISTORY_LENGTH \in Nat \ {0, 1}

VARIABLES recentFeePeriods,      \* the ring of periods
          currentFeePeriod,      \* where the open period is in it
          accountIssuanceLedger, \* account -> its last issuance records
          lastFeeWithdrawal,     \* account -> id of the last period it claimed
          feeBalance,            \* sUSD held by FEE_ADDRESS
          rewardBalance          \* SNX in the RewardEscrow not yet an entry

feeVars == <<recentFeePeriods, currentFeePeriod, accountIssuanceLedger,
             lastFeeWithdrawal, feeBalance, rewardBalance>>

Periods == 0 .. FEE_PERIOD_LENGTH - 1
Records == 0 .. HISTORY_LENGTH - 1

FeePeriod == [feePeriodId : Nat, startingDebtIndex : Nat, startTime : Nat,
              feesToDistribute : Nat, feesClaimed : Nat,
              rewardsToDistribute : Nat, rewardsClaimed : Nat]

EmptyPeriod == [feePeriodId |-> 0, startingDebtIndex |-> 0, startTime |-> 0,
                feesToDistribute |-> 0, feesClaimed |-> 0,
                rewardsToDistribute |-> 0, rewardsClaimed |-> 0]

IssuanceRecord == [debtPercentage : Nat, debtEntryIndex : Nat]
NoRecord == [debtPercentage |-> 0, debtEntryIndex |-> 0]

FeePoolInit(startTime) ==
  /\ recentFeePeriods =
       [i \in Periods |->
          IF i = 0 THEN [EmptyPeriod EXCEPT !.feePeriodId = 1, !.startTime = startTime]
          ELSE EmptyPeriod]
  /\ currentFeePeriod = 0
  /\ accountIssuanceLedger = [a \in Accounts |-> [i \in Records |-> NoRecord]]
  /\ lastFeeWithdrawal = [a \in Accounts |-> 0]
  /\ feeBalance = 0
  /\ rewardBalance = 0
------------------------------------------------------------------------------
\* _recentFeePeriodsStorage(index): 0 is the open period.
slot(index) == (currentFeePeriod + index) % FEE_PERIOD_LENGTH
period(index) == recentFeePeriods[slot(index)]

unclaimedFees(p) == p.feesToDistribute - p.feesClaimed
unclaimedRewards(p) == p.rewardsToDistribute - p.rewardsClaimed

\* The last ledger entry of the closed period, and whether it has one.
AnyDebtByClose == period(0).startingDebtIndex > 0
closingDebtIndex == period(0).startingDebtIndex - 1

\* Mutant: the newest record is taken for every period.
newestIssuanceData(a, closing) == accountIssuanceLedger[a][0]

\* The newest record of a that is not newer than the close.
applicableIssuanceData(a, closing) ==
  LET older == {i \in Records : closing >= accountIssuanceLedger[a][i].debtEntryIndex}
  IN IF older = {} THEN NoRecord ELSE accountIssuanceLedger[a][Min(older)]

\* Mutant: the dilution since the record is left out.
recordedDebtRatio(closing, record) == record.debtPercentage

effectiveDebtRatioForPeriod(closing, record) ==
  multiplyDecimalRoundPrecise(
    divideDecimalRoundPrecise(debtLedgerAt(closing), debtLedgerAt(record.debtEntryIndex)),
    record.debtPercentage)

\* The share of the closed period that a has earned, whether claimed or not;
\* the code divides by the ledger entry of its record.
RecordAtClose(a) ==
  IF AnyDebtByClose THEN applicableIssuanceData(a, closingDebtIndex) ELSE NoRecord

ShareIsDefined(a) ==
  LET record == RecordAtClose(a)
  IN record.debtPercentage > 0 => debtLedgerAt(record.debtEntryIndex) > 0

EarnedRatio(a) ==
  LET record == RecordAtClose(a)
  IN IF record.debtPercentage > 0
     THEN effectiveDebtRatioForPeriod(closingDebtIndex, record)
     ELSE 0

earnedOf(total, a) == preciseDecimalToDecimal(multiplyDecimal(total, EarnedRatio(a)))
earnedFees(a) == earnedOf(period(1).feesToDistribute, a)
earnedRewards(a) == earnedOf(period(1).rewardsToDistribute, a)

\* Mutant: the period claimed last can be claimed again.
notYetClaimedOrSame(a) == lastFeeWithdrawal[a] <= period(1).feePeriodId

notYetClaimed(a) == lastFeeWithdrawal[a] < period(1).feePeriodId

\* feesAvailable
availableFees(a) == IF notYetClaimed(a) THEN earnedFees(a) ELSE 0
availableRewards(a) == IF notYetClaimed(a) THEN earnedRewards(a) ELSE 0
------------------------------------------------------------------------------
\* Mutant: the first record of a period does not push the older ones down.
overwriteIssuanceRecord(a) ==
  accountIssuanceLedger' = [accountIssuanceLedger EXCEPT ![a][0] =
    [debtPercentage |-> issuanceData'[a].initialDebtOwnership,
     debtEntryIndex |-> issuanceData'[a].debtEntryIndex]]

\* The Issuer records what it just put in the register, the primed data.
appendAccountIssuanceRecord(a) ==
  LET records == accountIssuanceLedger[a]
      shifts == records[0].debtEntryIndex < period(0).startingDebtIndex
      latest == [debtPercentage |-> issuanceData'[a].initialDebtOwnership,
                 debtEntryIndex |-> issuanceData'[a].debtEntryIndex]
  IN accountIssuanceLedger' = [accountIssuanceLedger EXCEPT ![a] =
       [i \in Records |-> IF i = 0 THEN latest
                          ELSE IF shifts THEN records[i - 1] ELSE records[i]]]

recordFeePaid(amount) ==
  recentFeePeriods' = [recentFeePeriods EXCEPT ![slot(0)].feesToDistribute = @ + amount]

\* The RewardsDistribution has sent the SNX to the RewardEscrow.
setRewardsToDistribute(amount) ==
  /\ recentFeePeriods' =
       [recentFeePeriods EXCEPT ![slot(0)].rewardsToDistribute = @ + amount]
  /\ rewardBalance' = rewardBalance + amount
  /\ UNCHANGED <<currentFeePeriod, accountIssuanceLedger, lastFeeWithdrawal, feeBalance>>

\* Mutant: what was claimed rolls over as well.
rollOverEverything(closing, oldest) ==
  [closing EXCEPT !.feesToDistribute = oldest.feesToDistribute + @,
                  !.rewardsToDistribute = oldest.rewardsToDistribute + @]

\* The closing period with what nobody claimed of the oldest.
rollOver(closing, oldest) ==
  [closing EXCEPT !.feesToDistribute = unclaimedFees(oldest) + @,
                  !.rewardsToDistribute = unclaimedRewards(oldest) + @]

\* Mutant: the id follows the period that leaves the ring.
openedAfterOldest(time) ==
  [EmptyPeriod EXCEPT !.feePeriodId = period(1).feePeriodId + 1,
                      !.startingDebtIndex = debtLedgerLength,
                      !.startTime = time]

openedPeriod(time) ==
  [EmptyPeriod EXCEPT !.feePeriodId = period(0).feePeriodId + 1,
                      !.startingDebtIndex = debtLedgerLength,
                      !.startTime = time]

\* The ring turns back by one: the oldest period's slot becomes the open one.
closeCurrentFeePeriod(time) ==
  LET closing == period(FEE_PERIOD_LENGTH - 2)
      oldest == period(FEE_PERIOD_LENGTH - 1)
      opened == slot(FEE_PERIOD_LENGTH - 1)
  IN
  /\ period(0).startTime + FeePeriodDuration <= time
  /\ oldest.feesClaimed <= oldest.feesToDistribute
  /\ oldest.rewardsClaimed <= oldest.rewardsToDistribute
  /\ currentFeePeriod' = opened
  /\ recentFeePeriods' = [recentFeePeriods EXCEPT
       ![slot(FEE_PERIOD_LENGTH - 2)] = rollOver(closing, oldest),
       ![opened] = openedPeriod(time)]
  /\ UNCHANGED <<accountIssuanceLedger, lastFeeWithdrawal, feeBalance, rewardBalance>>

Lesser(x, y) == IF x < y THEN x ELSE y

\* Mutant: what the oldest period has is taken for what it paid.
fromOpenUncapped(amount, oldest, open) == Lesser(open, amount - oldest)

\* _recordFeePayment and _recordRewardPayment take an amount from what the
\* oldest period has left, then from the open one; the rest is slashed.
fromOldest(amount, oldest) == Lesser(oldest, amount)
fromOpen(amount, oldest, open) == Lesser(open, amount - fromOldest(amount, oldest))
paid(amount, oldest, open) == fromOldest(amount, oldest) + fromOpen(amount, oldest, open)

withClaim(p, fees, rewards) ==
  [p EXCEPT !.feesClaimed = @ + fees, !.rewardsClaimed = @ + rewards]

claimFees(a) ==
  LET fees == availableFees(a)
      rewards == availableRewards(a)
      oldFees == unclaimedFees(period(1))
      openFees == unclaimedFees(period(0))
      oldRewards == unclaimedRewards(period(1))
      openRewards == unclaimedRewards(period(0))
  IN
  /\ ShareIsDefined(a)
  /\ fees > 0 \/ rewards > 0
  /\ paid(fees, oldFees, openFees) <= feeBalance
  \* appendVestingEntry refuses nothing, and more than the escrow holds
  /\ rewards > 0 => /\ paid(rewards, oldRewards, openRewards) > 0
                    /\ paid(rewards, oldRewards, openRewards) <= rewardBalance
  /\ lastFeeWithdrawal' = [lastFeeWithdrawal EXCEPT ![a] = period(1).feePeriodId]
  /\ recentFeePeriods' = [recentFeePeriods EXCEPT
       ![slot(1)] = withClaim(@, fromOldest(fees, oldFees),
                                 fromOldest(rewards, oldRewards)),
       ![slot(0)] = withClaim(@, fromOpen(fees, oldFees, openFees),
                                 fromOpen(rewards, oldRewards, openRewards))]
  /\ feeBalance' = feeBalance - paid(fees, oldFees, openFees)
  /\ rewardBalance' = rewardBalance - paid(rewards, oldRewards, openRewards)
  /\ UNCHANGED <<currentFeePeriod, accountIssuanceLedger>>
------------------------------------------------------------------------------
FeeTypeOK ==
  /\ recentFeePeriods \in [Periods -> FeePeriod]
  /\ currentFeePeriod \in Periods
  /\ accountIssuanceLedger \in [Accounts -> [Records -> IssuanceRecord]]
  /\ lastFeeWithdrawal \in [Accounts -> Nat]
  /\ feeBalance \in Nat
  /\ rewardBalance \in Nat

\* The sUSD of FEE_ADDRESS and the SNX waiting in the escrow are exactly what
\* the periods have left to pay: the rollover neither loses a fee nor counts
\* one twice.  It is about the two ways in which sUSD reaches FEE_ADDRESS here;
\* a synth other than sUSD sent there is exchanged, and leaves a settlement.
FeesAreBacked ==
  /\ feeBalance = unclaimedFees(period(0)) + unclaimedFees(period(1))
  /\ rewardBalance = unclaimedRewards(period(0)) + unclaimedRewards(period(1))

\* No period pays more than it has: the subtractions of the rollover and of
\* every claim are safe.
PeriodsPayWhatTheyHave ==
  \A i \in Periods :
    /\ recentFeePeriods[i].feesClaimed <= recentFeePeriods[i].feesToDistribute
    /\ recentFeePeriods[i].rewardsClaimed <= recentFeePeriods[i].rewardsToDistribute

\* Ids grow along the ring and nobody has claimed the open period.
PeriodsAreOrdered ==
  /\ period(1).feePeriodId < period(0).feePeriodId
  /\ period(1).startingDebtIndex <= period(0).startingDebtIndex
  /\ \A a \in Accounts : lastFeeWithdrawal[a] < period(0).feePeriodId
==============================================================================
