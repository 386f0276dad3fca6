---------------------------- MODULE StakingProofs ----------------------------
(***************************************************************************)
(* The fee pool never owes what it does not hold, for any accounts,        *)
(* amounts, prices, period length and history length: every period pays at *)
(* most what it has, the fee address and the escrow hold exactly what the  *)
(* periods have left, and nobody claims a period twice.                    *)
(***************************************************************************)
EXTENDS Staking, IssuerProofs

\* The closed period ends at an entry of the ledger.
ClosingInLedger == period(0).startingDebtIndex <= debtLedgerLength

FeeInv == /\ FeeTypeOK
          /\ PeriodsPayWhatTheyHave
          /\ FeesAreBacked
          /\ PeriodsAreOrdered
          /\ ClosingInLedger

\* The inductive invariant of the Issuer with the fee pool.
StakingInv == IInv /\ FeeInv
------------------------------------------------------------------------------
(* Helpers. *)

\* The ring has two slots: the open period's and the closed one's.
LEMMA TwoSlots ==
  ASSUME NEW c \in Periods
  PROVE  /\ (c + 0) % FEE_PERIOD_LENGTH = c
         /\ (c + 1) % FEE_PERIOD_LENGTH = 1 - c
         /\ 1 - c \in Periods
         /\ c # 1 - c
         /\ \A i \in Periods : i = c \/ i = 1 - c
<1>1. c = 0 \/ c = 1
  BY DEF Periods, FEE_PERIOD_LENGTH
<1>2. /\ (0 + 0) % 2 = 0 /\ (0 + 1) % 2 = 1
      /\ (1 + 0) % 2 = 1 /\ (1 + 1) % 2 = 0
  OBVIOUS
<1> QED BY <1>1, <1>2 DEF Periods, FEE_PERIOD_LENGTH

\* FeePool._recentFeePeriodsStorage: the slots of the open and of the closed period.
LEMMA Slots ==
  ASSUME currentFeePeriod \in Periods
  PROVE  /\ slot(0) = currentFeePeriod
         /\ slot(1) = 1 - currentFeePeriod
         /\ slot(0) \in Periods /\ slot(1) \in Periods
         /\ slot(0) # slot(1)
BY TwoSlots DEF slot

\* What a claim can take of an amount, from a period that pays what it has.
LEMMA PaymentBounds ==
  ASSUME NEW amount \in Nat, NEW oldest \in Nat, NEW open \in Nat
  PROVE  /\ fromOldest(amount, oldest) \in Nat
         /\ fromOldest(amount, oldest) <= oldest
         /\ fromOpen(amount, oldest, open) \in Nat
         /\ fromOpen(amount, oldest, open) <= open
BY DEF fromOldest, fromOpen, Lesser

\* The record a claim goes by is a record of the account or none.
LEMMA RecordAtCloseType ==
  ASSUME FeeTypeOK, NEW a \in Accounts, AnyDebtByClose
  PROVE  /\ RecordAtClose(a) \in IssuanceRecord
         /\ RecordAtClose(a).debtPercentage > 0
              => RecordAtClose(a).debtEntryIndex <= closingDebtIndex
<1> DEFINE records == accountIssuanceLedger[a]
           older == {i \in Records : closingDebtIndex >= records[i].debtEntryIndex}
<1>1. records \in [Records -> IssuanceRecord]
  BY DEF FeeTypeOK
<1>2. RecordAtClose(a) = IF older = {} THEN NoRecord ELSE records[Min(older)]
  BY DEF RecordAtClose, applicableIssuanceData
<1>3. CASE older = {}
  BY <1>2, <1>3 DEF NoRecord, IssuanceRecord
<1>4. CASE older # {}
  <2>1. older \in SUBSET Nat
    BY DEF Records
  <2>2. \E x \in older : \A y \in older : x <= y
    BY <1>4, <2>1, LeastMember
  <2>3. Min(older) \in older
    BY <2>2 DEF Min
  <2>4. Min(older) \in Records /\ closingDebtIndex >= records[Min(older)].debtEntryIndex
    BY <2>3
  <2> HIDE DEF records, older
  <2> QED
    BY <1>1, <1>2, <1>4, <2>4
<1> QED BY <1>3, <1>4

\* What an account earned of an amount is a natural number.
LEMMA EarnedNat ==
  ASSUME StakingInv, NEW a \in Accounts, ShareIsDefined(a), NEW total \in Nat
  PROVE  earnedOf(total, a) \in Nat
<1>1. EarnedRatio(a) \in Nat
  <2> DEFINE record == RecordAtClose(a)
  <2>1. CASE record.debtPercentage > 0
    <3>1. AnyDebtByClose
      BY <2>1 DEF RecordAtClose, NoRecord
    <3>2. /\ record \in IssuanceRecord
          /\ record.debtEntryIndex <= closingDebtIndex
      BY <2>1, <3>1, RecordAtCloseType DEF StakingInv, FeeInv
    <3>3. period(0) \in FeePeriod
      BY Slots DEF StakingInv, FeeInv, FeeTypeOK, period
    <3>4. closingDebtIndex \in Nat /\ closingDebtIndex + 1 <= Len(debtLedger)
      BY <3>1, <3>3 DEF StakingInv, FeeInv, ClosingInLedger, closingDebtIndex,
                        AnyDebtByClose, FeePeriod, debtLedgerLength
    <3>5. debtLedger \in Seq(Nat)
      BY DEF StakingInv, IInv, TypeOK, RegisterTypeOK
    <3>6. /\ record.debtPercentage \in Nat /\ record.debtEntryIndex \in Nat
          /\ record.debtEntryIndex + 1 <= Len(debtLedger)
      BY <3>2, <3>4 DEF IssuanceRecord
    <3>7. debtLedgerAt(closingDebtIndex) \in Nat /\ debtLedgerAt(record.debtEntryIndex) \in Nat
      BY <3>4, <3>5, <3>6 DEF debtLedgerAt
    <3>8. debtLedgerAt(record.debtEntryIndex) > 0
      BY <2>1 DEF ShareIsDefined
    <3> HIDE DEF record
    <3> DEFINE change == divideDecimalRoundPrecise(debtLedgerAt(closingDebtIndex),
                                                   debtLedgerAt(record.debtEntryIndex))
    <3>9. change \in Nat
      BY <3>7, <3>8, DivideNat
    <3> HIDE DEF change
    <3>10. multiplyDecimalRoundPrecise(change, record.debtPercentage) \in Nat
      BY <3>6, <3>9, MultiplyNat
    <3>11. EarnedRatio(a) = multiplyDecimalRoundPrecise(change, record.debtPercentage)
      BY <2>1 DEF EarnedRatio, effectiveDebtRatioForPeriod, change, record
    <3> QED BY <3>10, <3>11
  <2>2. CASE ~(record.debtPercentage > 0)
    BY <2>2 DEF EarnedRatio
  <2> QED BY <2>1, <2>2
<1> HIDE DEF EarnedRatio
<1>2. multiplyDecimal(total, EarnedRatio(a)) \in Nat
  BY <1>1, MultiplyNat
<1> QED BY <1>2, ConversionNat DEF earnedOf
------------------------------------------------------------------------------
(* The fee pool's own operations. *)

\* A period that pays what it has keeps doing so when it pays at most the
\* rest of it.
PaysWhatItHas(p) == /\ p.feesClaimed <= p.feesToDistribute
                    /\ p.rewardsClaimed <= p.rewardsToDistribute

\* The invariant in terms of the two periods of the ring.
LEMMA FeeInvParts ==
  FeeInv => /\ period(0) \in FeePeriod /\ period(1) \in FeePeriod
            /\ PaysWhatItHas(period(0)) /\ PaysWhatItHas(period(1))
            /\ unclaimedFees(period(0)) \in Nat /\ unclaimedFees(period(1)) \in Nat
            /\ unclaimedRewards(period(0)) \in Nat /\ unclaimedRewards(period(1)) \in Nat
            /\ feeBalance \in Nat /\ rewardBalance \in Nat
<1> SUFFICES ASSUME FeeInv
             PROVE  /\ period(0) \in FeePeriod /\ period(1) \in FeePeriod
                    /\ PaysWhatItHas(period(0)) /\ PaysWhatItHas(period(1))
                    /\ unclaimedFees(period(0)) \in Nat /\ unclaimedFees(period(1)) \in Nat
                    /\ unclaimedRewards(period(0)) \in Nat
                    /\ unclaimedRewards(period(1)) \in Nat
                    /\ feeBalance \in Nat /\ rewardBalance \in Nat
  OBVIOUS
<1>1. FeeTypeOK /\ PeriodsPayWhatTheyHave
  BY DEF FeeInv
<1>2. slot(0) \in Periods /\ slot(1) \in Periods
  BY <1>1, Slots DEF FeeTypeOK
<1>3. period(0) \in FeePeriod /\ period(1) \in FeePeriod
  BY <1>1, <1>2 DEF FeeTypeOK, period
<1>4. PaysWhatItHas(period(0)) /\ PaysWhatItHas(period(1))
  BY <1>1, <1>2 DEF PeriodsPayWhatTheyHave, PaysWhatItHas, period
<1>5. ASSUME NEW p \in FeePeriod, PaysWhatItHas(p)
      PROVE  unclaimedFees(p) \in Nat /\ unclaimedRewards(p) \in Nat
  BY <1>5 DEF FeePeriod, PaysWhatItHas, unclaimedFees, unclaimedRewards
<1> HIDE DEF period
<1> QED BY <1>1, <1>3, <1>4, <1>5 DEF FeeTypeOK

\* Conversely, an update of the ring that leaves the two slots well formed.
LEMMA FeeInvFromPeriods ==
  ASSUME FeeTypeOK, currentFeePeriod' \in Periods,
         NEW p0 \in FeePeriod, NEW p1 \in FeePeriod,
         recentFeePeriods' \in [Periods -> FeePeriod],
         recentFeePeriods'[slot(0)'] = p0, recentFeePeriods'[slot(1)'] = p1,
         PaysWhatItHas(p0), PaysWhatItHas(p1),
         accountIssuanceLedger' \in [Accounts -> [Records -> IssuanceRecord]],
         lastFeeWithdrawal' \in [Accounts -> Nat],
         feeBalance' \in Nat, rewardBalance' \in Nat,
         feeBalance' = unclaimedFees(p0) + unclaimedFees(p1),
         rewardBalance' = unclaimedRewards(p0) + unclaimedRewards(p1),
         p1.feePeriodId < p0.feePeriodId,
         p1.startingDebtIndex <= p0.startingDebtIndex,
         \A a \in Accounts : lastFeeWithdrawal'[a] < p0.feePeriodId,
         p0.startingDebtIndex <= debtLedgerLength'
  PROVE  FeeInv'
<1>1. FeeTypeOK'
  BY DEF FeeTypeOK
<1>2. period(0)' = p0 /\ period(1)' = p1
  BY DEF period
<1>3. \A i \in Periods : i = slot(0)' \/ i = slot(1)'
  BY TwoSlots DEF slot
<1>4. PeriodsPayWhatTheyHave'
  BY <1>3 DEF PeriodsPayWhatTheyHave, PaysWhatItHas
<1>5. FeesAreBacked'
  BY <1>2 DEF FeesAreBacked, unclaimedFees, unclaimedRewards
<1>6. PeriodsAreOrdered'
  BY <1>2 DEF PeriodsAreOrdered
<1>7. ClosingInLedger'
  BY <1>2 DEF ClosingInLedger
<1> QED BY <1>1, <1>4, <1>5, <1>6, <1>7 DEF FeeInv

\* Nothing of the pool changes but the history, and the ledger may grow.
LEMMA FeeInvUnchanged ==
  ASSUME FeeInv,
         UNCHANGED <<recentFeePeriods, currentFeePeriod, lastFeeWithdrawal,
                     feeBalance, rewardBalance>>,
         accountIssuanceLedger' \in [Accounts -> [Records -> IssuanceRecord]],
         debtLedgerLength \in Nat, debtLedgerLength' \in Nat,
         debtLedgerLength <= debtLedgerLength'
  PROVE  FeeInv'
<1>1. FeeTypeOK /\ PeriodsPayWhatTheyHave /\ FeesAreBacked /\ PeriodsAreOrdered
      /\ ClosingInLedger
  BY DEF FeeInv
<1>2. FeeTypeOK'
  BY <1>1 DEF FeeTypeOK
<1>3. PeriodsPayWhatTheyHave'
  BY <1>1 DEF PeriodsPayWhatTheyHave
<1>4. period(0)' = period(0) /\ period(1)' = period(1)
  BY DEF period, slot
<1>5. FeesAreBacked'
  BY <1>1, <1>4 DEF FeesAreBacked, unclaimedFees, unclaimedRewards
<1>6. PeriodsAreOrdered'
  BY <1>1, <1>4 DEF PeriodsAreOrdered
<1>7. period(0).startingDebtIndex \in Nat
  BY FeeInvParts DEF FeePeriod
<1>8. ClosingInLedger'
  BY <1>1, <1>4, <1>7 DEF ClosingInLedger
<1> QED BY <1>2, <1>3, <1>5, <1>6, <1>8 DEF FeeInv

\* A claim within what a period has left, and a rollover into it.
LEMMA PeriodAfterClaim ==
  ASSUME NEW p \in FeePeriod, NEW f \in Nat, NEW r \in Nat, PaysWhatItHas(p),
         f <= unclaimedFees(p), r <= unclaimedRewards(p),
         NEW q, q = withClaim(p, f, r)
  PROVE  /\ q \in FeePeriod /\ PaysWhatItHas(q)
         /\ q.feePeriodId = p.feePeriodId
         /\ q.startingDebtIndex = p.startingDebtIndex
         /\ unclaimedFees(q) = unclaimedFees(p) - f
         /\ unclaimedRewards(q) = unclaimedRewards(p) - r
<1>1. /\ p.feesClaimed \in Nat /\ p.rewardsClaimed \in Nat
      /\ p.feesToDistribute \in Nat /\ p.rewardsToDistribute \in Nat
  BY DEF FeePeriod
<1>2. q = [feePeriodId |-> p.feePeriodId, startingDebtIndex |-> p.startingDebtIndex,
           startTime |-> p.startTime,
           feesToDistribute |-> p.feesToDistribute, feesClaimed |-> p.feesClaimed + f,
           rewardsToDistribute |-> p.rewardsToDistribute,
           rewardsClaimed |-> p.rewardsClaimed + r]
  BY DEF FeePeriod, withClaim
<1>3. /\ q.feesClaimed = p.feesClaimed + f /\ q.rewardsClaimed = p.rewardsClaimed + r
      /\ q.feesToDistribute = p.feesToDistribute
      /\ q.rewardsToDistribute = p.rewardsToDistribute
      /\ q.feePeriodId = p.feePeriodId /\ q.startingDebtIndex = p.startingDebtIndex
  BY <1>2
<1>4. q \in FeePeriod
  BY <1>1, <1>2 DEF FeePeriod
<1>5. PaysWhatItHas(q)
  BY <1>1, <1>3 DEF PaysWhatItHas, unclaimedFees, unclaimedRewards
<1> QED BY <1>1, <1>3, <1>4, <1>5 DEF unclaimedFees, unclaimedRewards

\* A closing period that takes what the oldest has left still pays at most
\* what it has, and is the same period.
LEMMA PeriodAfterRollOver ==
  ASSUME NEW p \in FeePeriod, PaysWhatItHas(p),
         NEW old, unclaimedFees(old) \in Nat, unclaimedRewards(old) \in Nat,
         NEW q, q = rollOver(p, old)
  PROVE  /\ q \in FeePeriod /\ PaysWhatItHas(q)
         /\ q.feePeriodId = p.feePeriodId
         /\ q.startingDebtIndex = p.startingDebtIndex
         /\ unclaimedFees(q) = unclaimedFees(p) + unclaimedFees(old)
         /\ unclaimedRewards(q) = unclaimedRewards(p) + unclaimedRewards(old)
<1> DEFINE u == unclaimedFees(old)
           v == unclaimedRewards(old)
<1>1. /\ p.feesClaimed \in Nat /\ p.rewardsClaimed \in Nat
      /\ p.feesToDistribute \in Nat /\ p.rewardsToDistribute \in Nat
      /\ u \in Nat /\ v \in Nat
  BY DEF FeePeriod
<1>2. q = [p EXCEPT !.feesToDistribute = u + @, !.rewardsToDistribute = v + @]
  BY DEF rollOver
<1> HIDE DEF u, v
<1>3. q = [feePeriodId |-> p.feePeriodId, startingDebtIndex |-> p.startingDebtIndex,
           startTime |-> p.startTime,
           feesToDistribute |-> u + p.feesToDistribute, feesClaimed |-> p.feesClaimed,
           rewardsToDistribute |-> v + p.rewardsToDistribute,
           rewardsClaimed |-> p.rewardsClaimed]
  BY <1>2 DEF FeePeriod
<1>4. /\ q.feesClaimed = p.feesClaimed /\ q.rewardsClaimed = p.rewardsClaimed
      /\ q.feesToDistribute = u + p.feesToDistribute
      /\ q.rewardsToDistribute = v + p.rewardsToDistribute
      /\ q.feePeriodId = p.feePeriodId /\ q.startingDebtIndex = p.startingDebtIndex
  BY <1>3
<1>5. q \in FeePeriod
  BY <1>1, <1>3 DEF FeePeriod
<1>6. PaysWhatItHas(q)
  BY <1>1, <1>4 DEF PaysWhatItHas
<1>7. /\ unclaimedFees(q) = unclaimedFees(p) + u
      /\ unclaimedRewards(q) = unclaimedRewards(p) + v
  BY <1>1, <1>4 DEF unclaimedFees, unclaimedRewards
<1> QED BY <1>4, <1>5, <1>6, <1>7 DEF u, v

\* recordFeePaid, for a fee that has arrived at the fee address.
LEMMA RecordFeePreserves ==
  ASSUME FeeInv, NEW amount \in Nat, recordFeePaid(amount),
         feeBalance' = feeBalance + amount,
         UNCHANGED <<currentFeePeriod, accountIssuanceLedger, lastFeeWithdrawal,
                     rewardBalance, debtLedger>>
  PROVE  FeeInv'
<1> DEFINE p0 == [period(0) EXCEPT !.feesToDistribute = @ + amount]
<1>1. FeeTypeOK
  BY DEF FeeInv
<1>2. /\ slot(0)' = slot(0) /\ slot(1)' = slot(1) /\ slot(0) # slot(1)
      /\ slot(0) \in Periods /\ slot(1) \in Periods
  BY <1>1, Slots DEF slot, FeeTypeOK
<1>3. /\ period(0) \in FeePeriod /\ period(1) \in FeePeriod
      /\ PaysWhatItHas(period(0)) /\ PaysWhatItHas(period(1))
      /\ feeBalance \in Nat /\ rewardBalance \in Nat
  BY FeeInvParts
<1>4. recentFeePeriods'[slot(0)'] = p0 /\ recentFeePeriods'[slot(1)'] = period(1)
  BY <1>1, <1>2 DEF recordFeePaid, FeeTypeOK, period
<1>5. recentFeePeriods' = [recentFeePeriods EXCEPT ![slot(0)] = p0]
  BY <1>1, <1>2 DEF recordFeePaid, FeeTypeOK, period
<1> HIDE DEF slot, period
<1>6. p0 \in FeePeriod /\ PaysWhatItHas(p0)
  BY <1>3 DEF FeePeriod, PaysWhatItHas
<1>7. /\ unclaimedFees(p0) = unclaimedFees(period(0)) + amount
      /\ unclaimedRewards(p0) = unclaimedRewards(period(0))
      /\ p0.feePeriodId = period(0).feePeriodId
      /\ p0.startingDebtIndex = period(0).startingDebtIndex
  BY <1>3 DEF FeePeriod, unclaimedFees, unclaimedRewards
<1> HIDE DEF p0
<1>8. recentFeePeriods' \in [Periods -> FeePeriod]
  BY <1>1, <1>2, <1>5, <1>6 DEF FeeTypeOK
<1>9. /\ feeBalance = unclaimedFees(period(0)) + unclaimedFees(period(1))
      /\ rewardBalance = unclaimedRewards(period(0)) + unclaimedRewards(period(1))
      /\ unclaimedFees(period(0)) \in Nat /\ unclaimedFees(period(1)) \in Nat
  BY FeeInvParts DEF FeeInv, FeesAreBacked
<1>10. /\ feeBalance' = unclaimedFees(p0) + unclaimedFees(period(1))
       /\ rewardBalance' = unclaimedRewards(p0) + unclaimedRewards(period(1))
       /\ feeBalance' \in Nat
  BY <1>3, <1>7, <1>9
<1>11. PeriodsAreOrdered /\ ClosingInLedger /\ debtLedgerLength' = debtLedgerLength
  BY DEF FeeInv, debtLedgerLength
<1> QED BY <1>1, <1>3, <1>4, <1>6, <1>7, <1>8, <1>10, <1>11, FeeInvFromPeriods
        DEF FeeTypeOK, PeriodsAreOrdered, ClosingInLedger

\* setRewardsToDistribute, for SNX that has arrived in the escrow.
LEMMA RecordRewardPreserves ==
  ASSUME FeeInv, NEW amount \in Nat, setRewardsToDistribute(amount), UNCHANGED debtLedger
  PROVE  FeeInv'
<1> DEFINE p0 == [period(0) EXCEPT !.rewardsToDistribute = @ + amount]
<1>1. FeeTypeOK
  BY DEF FeeInv
<1>2. /\ slot(0)' = slot(0) /\ slot(1)' = slot(1) /\ slot(0) # slot(1)
      /\ slot(0) \in Periods /\ slot(1) \in Periods
  BY <1>1, Slots DEF slot, FeeTypeOK, setRewardsToDistribute
<1>3. /\ period(0) \in FeePeriod /\ period(1) \in FeePeriod
      /\ PaysWhatItHas(period(0)) /\ PaysWhatItHas(period(1))
      /\ feeBalance \in Nat /\ rewardBalance \in Nat
  BY FeeInvParts
<1>4. recentFeePeriods'[slot(0)] = p0 /\ recentFeePeriods'[slot(1)] = period(1)
  BY <1>1, <1>2 DEF setRewardsToDistribute, FeeTypeOK, period
<1>5. recentFeePeriods' = [recentFeePeriods EXCEPT ![slot(0)] = p0]
  BY <1>1, <1>2 DEF setRewardsToDistribute, FeeTypeOK, period
<1> HIDE DEF slot, period
<1>6. p0 \in FeePeriod /\ PaysWhatItHas(p0)
  BY <1>3 DEF FeePeriod, PaysWhatItHas
<1>7. /\ unclaimedRewards(p0) = unclaimedRewards(period(0)) + amount
      /\ unclaimedFees(p0) = unclaimedFees(period(0))
      /\ p0.feePeriodId = period(0).feePeriodId
      /\ p0.startingDebtIndex = period(0).startingDebtIndex
  BY <1>3 DEF FeePeriod, unclaimedFees, unclaimedRewards
<1> HIDE DEF p0
<1>8. recentFeePeriods' \in [Periods -> FeePeriod]
  BY <1>1, <1>2, <1>5, <1>6 DEF FeeTypeOK
<1>9. /\ feeBalance = unclaimedFees(period(0)) + unclaimedFees(period(1))
      /\ rewardBalance = unclaimedRewards(period(0)) + unclaimedRewards(period(1))
      /\ unclaimedRewards(period(0)) \in Nat /\ unclaimedRewards(period(1)) \in Nat
  BY FeeInvParts DEF FeeInv, FeesAreBacked
<1>10. UNCHANGED <<currentFeePeriod, accountIssuanceLedger, lastFeeWithdrawal, feeBalance>>
       /\ rewardBalance' = rewardBalance + amount
  BY DEF setRewardsToDistribute
<1>11. /\ feeBalance' = unclaimedFees(p0) + unclaimedFees(period(1))
       /\ rewardBalance' = unclaimedRewards(p0) + unclaimedRewards(period(1))
       /\ rewardBalance' \in Nat
  BY <1>3, <1>7, <1>9, <1>10
<1>12. PeriodsAreOrdered /\ ClosingInLedger /\ debtLedgerLength' = debtLedgerLength
  BY DEF FeeInv, debtLedgerLength
<1> QED BY <1>1, <1>3, <1>4, <1>2, <1>6, <1>7, <1>8, <1>10, <1>11, <1>12, FeeInvFromPeriods
        DEF FeeTypeOK, PeriodsAreOrdered, ClosingInLedger

\* closeCurrentFeePeriod
LEMMA ClosePreserves ==
  ASSUME FeeInv, NEW time \in Nat, closeCurrentFeePeriod(time),
         debtLedgerLength \in Nat, UNCHANGED debtLedger
  PROVE  FeeInv'
<1> DEFINE p0 == openedPeriod(time)
           p1 == rollOver(period(0), period(1))
<1>1. FeeTypeOK /\ FeesAreBacked /\ PeriodsAreOrdered /\ ClosingInLedger
  BY DEF FeeInv
<1>2. /\ slot(0) # slot(1) /\ slot(0) \in Periods /\ slot(1) \in Periods
      /\ slot(0) = currentFeePeriod /\ slot(1) = 1 - currentFeePeriod
  BY <1>1, Slots DEF FeeTypeOK
<1>3. /\ period(0) \in FeePeriod /\ period(1) \in FeePeriod
      /\ PaysWhatItHas(period(0)) /\ PaysWhatItHas(period(1))
      /\ unclaimedFees(period(0)) \in Nat /\ unclaimedFees(period(1)) \in Nat
      /\ unclaimedRewards(period(0)) \in Nat /\ unclaimedRewards(period(1)) \in Nat
  BY FeeInvParts
<1>4. /\ currentFeePeriod' = slot(1)
      /\ recentFeePeriods' = [recentFeePeriods EXCEPT ![slot(0)] = p1, ![slot(1)] = p0]
      /\ UNCHANGED <<accountIssuanceLedger, lastFeeWithdrawal, feeBalance, rewardBalance>>
  BY DEF closeCurrentFeePeriod, FEE_PERIOD_LENGTH
<1>5. slot(0)' = slot(1) /\ slot(1)' = slot(0)
  <2>1. currentFeePeriod \in Periods /\ 1 - currentFeePeriod \in Periods
        /\ 1 - (1 - currentFeePeriod) = currentFeePeriod
    BY <1>1, <1>2 DEF FeeTypeOK, Periods, FEE_PERIOD_LENGTH
  <2>2. slot(0)' = 1 - currentFeePeriod /\ slot(1)' = 1 - (1 - currentFeePeriod)
    BY <1>2, <1>4, <2>1, TwoSlots DEF slot
  <2> QED BY <1>2, <2>1, <2>2
<1> HIDE DEF p0, p1
<1>6. recentFeePeriods'[slot(0)'] = p0 /\ recentFeePeriods'[slot(1)'] = p1
  BY <1>1, <1>2, <1>4, <1>5 DEF FeeTypeOK
<1>7. /\ p0 \in FeePeriod /\ PaysWhatItHas(p0)
      /\ p0.feePeriodId = period(0).feePeriodId + 1
      /\ p0.startingDebtIndex = debtLedgerLength
      /\ unclaimedFees(p0) = 0 /\ unclaimedRewards(p0) = 0
  <2> DEFINE id == period(0).feePeriodId + 1
  <2>1. id \in Nat
    BY <1>3 DEF FeePeriod
  <2>2. p0 = [EmptyPeriod EXCEPT !.feePeriodId = id,
                                 !.startingDebtIndex = debtLedgerLength,
                                 !.startTime = time]
    BY DEF p0, openedPeriod
  <2> HIDE DEF id
  <2>3. p0 = [feePeriodId |-> id, startingDebtIndex |-> debtLedgerLength,
              startTime |-> time, feesToDistribute |-> 0, feesClaimed |-> 0,
              rewardsToDistribute |-> 0, rewardsClaimed |-> 0]
    BY <2>2 DEF EmptyPeriod
  <2>4. p0 \in FeePeriod
    BY <2>1, <2>3 DEF FeePeriod
  <2>5. /\ PaysWhatItHas(p0) /\ p0.feePeriodId = id
        /\ p0.startingDebtIndex = debtLedgerLength
        /\ unclaimedFees(p0) = 0 /\ unclaimedRewards(p0) = 0
    BY <2>3 DEF PaysWhatItHas, unclaimedFees, unclaimedRewards
  <2> QED BY <2>4, <2>5 DEF id
<1>8. /\ p1 \in FeePeriod /\ PaysWhatItHas(p1)
      /\ p1.feePeriodId = period(0).feePeriodId
      /\ p1.startingDebtIndex = period(0).startingDebtIndex
      /\ unclaimedFees(p1) = unclaimedFees(period(0)) + unclaimedFees(period(1))
      /\ unclaimedRewards(p1) = unclaimedRewards(period(0)) + unclaimedRewards(period(1))
  BY <1>3, PeriodAfterRollOver DEF p1
<1>9. recentFeePeriods' \in [Periods -> FeePeriod]
  BY <1>1, <1>4, <1>7, <1>8 DEF FeeTypeOK
<1>10. /\ feeBalance' = unclaimedFees(p0) + unclaimedFees(p1)
       /\ rewardBalance' = unclaimedRewards(p0) + unclaimedRewards(p1)
  BY <1>1, <1>3, <1>4, <1>7, <1>8 DEF FeesAreBacked
<1>11. /\ period(0).feePeriodId \in Nat
       /\ period(0).startingDebtIndex <= debtLedgerLength
       /\ debtLedgerLength' = debtLedgerLength
  BY <1>1, <1>3 DEF FeePeriod, ClosingInLedger, debtLedgerLength
<1>12. /\ p1.feePeriodId < p0.feePeriodId
       /\ p1.startingDebtIndex <= p0.startingDebtIndex
       /\ p0.startingDebtIndex <= debtLedgerLength'
  BY <1>7, <1>8, <1>11
<1>13. \A a \in Accounts : lastFeeWithdrawal'[a] < p0.feePeriodId
  BY <1>1, <1>4, <1>7, <1>11 DEF FeeTypeOK, PeriodsAreOrdered
<1>14. currentFeePeriod' \in Periods
  BY <1>2, <1>4
<1>15. /\ accountIssuanceLedger' \in [Accounts -> [Records -> IssuanceRecord]]
       /\ lastFeeWithdrawal' \in [Accounts -> Nat]
       /\ feeBalance' \in Nat /\ rewardBalance' \in Nat
  BY <1>1, <1>4 DEF FeeTypeOK
<1> QED BY <1>1, <1>6, <1>7, <1>8, <1>9, <1>10, <1>12, <1>13, <1>14, <1>15,
           FeeInvFromPeriods

\* claimFees: what it takes of fees and of rewards stays within both periods.
LEMMA ClaimPreserves ==
  ASSUME StakingInv, NEW a \in Accounts, claimFees(a), UNCHANGED debtLedger
  PROVE  /\ FeeInv'
         /\ feeBalance - feeBalance' \in Nat
         /\ rewardBalance - rewardBalance' \in Nat
<1> DEFINE fees == availableFees(a)
           rewards == availableRewards(a)
           f1 == fromOldest(fees, unclaimedFees(period(1)))
           f0 == fromOpen(fees, unclaimedFees(period(1)), unclaimedFees(period(0)))
           r1 == fromOldest(rewards, unclaimedRewards(period(1)))
           r0 == fromOpen(rewards, unclaimedRewards(period(1)), unclaimedRewards(period(0)))
           p0 == withClaim(period(0), f0, r0)
           p1 == withClaim(period(1), f1, r1)
<1>1. FeeInv /\ FeeTypeOK /\ FeesAreBacked /\ PeriodsAreOrdered /\ ClosingInLedger
  BY DEF StakingInv, FeeInv
<1>2. /\ slot(0) # slot(1) /\ slot(0) \in Periods /\ slot(1) \in Periods
  BY <1>1, Slots DEF FeeTypeOK
<1>3. /\ period(0) \in FeePeriod /\ period(1) \in FeePeriod
      /\ PaysWhatItHas(period(0)) /\ PaysWhatItHas(period(1))
      /\ unclaimedFees(period(0)) \in Nat /\ unclaimedFees(period(1)) \in Nat
      /\ unclaimedRewards(period(0)) \in Nat /\ unclaimedRewards(period(1)) \in Nat
      /\ feeBalance \in Nat /\ rewardBalance \in Nat
  BY <1>1, FeeInvParts
<1>4. fees \in Nat /\ rewards \in Nat
  <2>1. /\ period(1).feesToDistribute \in Nat /\ period(1).rewardsToDistribute \in Nat
        /\ ShareIsDefined(a)
    BY <1>3 DEF FeePeriod, claimFees
  <2>2. earnedFees(a) \in Nat /\ earnedRewards(a) \in Nat
    BY <2>1, EarnedNat DEF earnedFees, earnedRewards
  <2> QED BY <2>2 DEF availableFees, availableRewards
<1>5. /\ recentFeePeriods' = [recentFeePeriods EXCEPT
            ![slot(1)] = withClaim(@, f1, r1), ![slot(0)] = withClaim(@, f0, r0)]
      /\ feeBalance' = feeBalance - (f1 + f0)
      /\ rewardBalance' = rewardBalance - (r1 + r0)
      /\ lastFeeWithdrawal' = [lastFeeWithdrawal EXCEPT ![a] = period(1).feePeriodId]
      /\ UNCHANGED <<currentFeePeriod, accountIssuanceLedger>>
  BY DEF claimFees, paid
<1> HIDE DEF fees, rewards
<1>6. /\ f0 \in Nat /\ f1 \in Nat /\ r0 \in Nat /\ r1 \in Nat
      /\ f0 <= unclaimedFees(period(0)) /\ f1 <= unclaimedFees(period(1))
      /\ r0 <= unclaimedRewards(period(0)) /\ r1 <= unclaimedRewards(period(1))
  BY <1>3, <1>4, PaymentBounds
<1> HIDE DEF f0, f1, r0, r1
<1>7. recentFeePeriods' = [recentFeePeriods EXCEPT ![slot(1)] = p1, ![slot(0)] = p0]
  BY <1>1, <1>2, <1>5 DEF FeeTypeOK, period
<1> HIDE DEF p0, p1
<1>8. recentFeePeriods'[slot(0)] = p0 /\ recentFeePeriods'[slot(1)] = p1
  BY <1>1, <1>2, <1>7 DEF FeeTypeOK
<1>9. slot(0)' = slot(0) /\ slot(1)' = slot(1)
  BY <1>5 DEF slot
<1>10. /\ p0 \in FeePeriod /\ PaysWhatItHas(p0)
       /\ p0.feePeriodId = period(0).feePeriodId
       /\ p0.startingDebtIndex = period(0).startingDebtIndex
       /\ unclaimedFees(p0) = unclaimedFees(period(0)) - f0
       /\ unclaimedRewards(p0) = unclaimedRewards(period(0)) - r0
  BY <1>3, <1>6, PeriodAfterClaim DEF p0
<1>11. /\ p1 \in FeePeriod /\ PaysWhatItHas(p1)
       /\ p1.feePeriodId = period(1).feePeriodId
       /\ p1.startingDebtIndex = period(1).startingDebtIndex
       /\ unclaimedFees(p1) = unclaimedFees(period(1)) - f1
       /\ unclaimedRewards(p1) = unclaimedRewards(period(1)) - r1
  BY <1>3, <1>6, PeriodAfterClaim DEF p1
<1>12. recentFeePeriods' \in [Periods -> FeePeriod]
  BY <1>1, <1>7, <1>10, <1>11 DEF FeeTypeOK
<1>13. /\ feeBalance = unclaimedFees(period(0)) + unclaimedFees(period(1))
       /\ rewardBalance = unclaimedRewards(period(0)) + unclaimedRewards(period(1))
  BY <1>1 DEF FeesAreBacked
<1>14. /\ feeBalance' = unclaimedFees(p0) + unclaimedFees(p1) /\ feeBalance' \in Nat
       /\ rewardBalance' = unclaimedRewards(p0) + unclaimedRewards(p1)
       /\ rewardBalance' \in Nat
       /\ feeBalance - feeBalance' \in Nat /\ rewardBalance - rewardBalance' \in Nat
  BY <1>3, <1>5, <1>6, <1>10, <1>11, <1>13
<1>15. /\ period(1).feePeriodId \in Nat /\ period(0).feePeriodId \in Nat
       /\ period(1).feePeriodId < period(0).feePeriodId
  BY <1>1, <1>3 DEF FeePeriod, PeriodsAreOrdered
<1>16. /\ lastFeeWithdrawal' \in [Accounts -> Nat]
       /\ \A b \in Accounts : lastFeeWithdrawal'[b] < p0.feePeriodId
  BY <1>1, <1>5, <1>10, <1>15 DEF FeeTypeOK, PeriodsAreOrdered
<1>17. /\ currentFeePeriod' \in Periods
       /\ accountIssuanceLedger' \in [Accounts -> [Records -> IssuanceRecord]]
  BY <1>1, <1>5 DEF FeeTypeOK
<1>18. /\ p1.feePeriodId < p0.feePeriodId
       /\ p1.startingDebtIndex <= p0.startingDebtIndex
       /\ p0.startingDebtIndex <= debtLedgerLength'
  BY <1>1, <1>10, <1>11, <1>15 DEF PeriodsAreOrdered, ClosingInLedger, debtLedgerLength
<1>19. FeeInv'
  BY <1>1, <1>8, <1>9, <1>10, <1>11, <1>12, <1>14, <1>16, <1>17, <1>18, FeeInvFromPeriods
<1> QED BY <1>14, <1>19
------------------------------------------------------------------------------
(* The Issuer and the fee pool together. *)

\* The length of the ledger is a natural number.
LEMMA LedgerLengthNat == IInv => debtLedgerLength \in Nat
BY DEF IInv, TypeOK, RegisterTypeOK, debtLedgerLength

\* No operation of the Issuer takes an entry out of the debt ledger.
LEMMA LedgerGrows ==
  ASSUME IInv, NEW a \in Accounts, IssuerStep(a)
  PROVE  debtLedgerLength <= debtLedgerLength'
<1>1. debtLedger \in Seq(Nat)
  BY DEF IInv, TypeOK, RegisterTypeOK
<1>2. \E entry : debtLedger' = Append(debtLedger, entry)
  BY DEF IssuerStep, IssueSynths, IssueMaxSynths, BurnSynths, BurnSynthsToTarget,
         LiquidateDelinquentAccount, internalIssueSynths, internalBurnSynths,
         addToDebtRegister, removeFromDebtRegister
<1> QED BY <1>1, <1>2 DEF debtLedgerLength

\* An operation on the debt with its issuance record keeps the invariant.
LEMMA ChangeDebtPreserves ==
  ASSUME StakingInv, NEW a \in Accounts, ChangeDebt(a)
  PROVE  StakingInv'
<1>1. IInv'
  BY NextPreserves DEF StakingInv, ChangeDebt, Next, IssuerNext
<1>2. debtLedgerLength <= debtLedgerLength'
      /\ debtLedgerLength \in Nat /\ debtLedgerLength' \in Nat
  <2>1. (IInv => debtLedgerLength \in Nat)'
    BY LedgerLengthNat, PTL
  <2> QED BY <1>1, <2>1, LedgerGrows, LedgerLengthNat DEF StakingInv, ChangeDebt
<1>3. accountIssuanceLedger' \in [Accounts -> [Records -> IssuanceRecord]]
  <2>1. accountIssuanceLedger \in [Accounts -> [Records -> IssuanceRecord]]
    BY DEF StakingInv, FeeInv, FeeTypeOK
  <2>2. issuanceData'[a] \in IssuanceData
    BY <1>1 DEF IInv, TypeOK, RegisterTypeOK
  <2> DEFINE latest == [debtPercentage |-> issuanceData'[a].initialDebtOwnership,
                        debtEntryIndex |-> issuanceData'[a].debtEntryIndex]
             records == accountIssuanceLedger[a]
             shifts == records[0].debtEntryIndex < period(0).startingDebtIndex
             after == [i \in Records |-> IF i = 0 THEN latest
                                         ELSE IF shifts THEN records[i - 1] ELSE records[i]]
  <2>3. latest \in IssuanceRecord
    BY <2>2 DEF IssuanceData, IssuanceRecord
  <2>4. records \in [Records -> IssuanceRecord]
    BY <2>1
  <2>5. accountIssuanceLedger' = [accountIssuanceLedger EXCEPT ![a] = after]
    BY DEF ChangeDebt, appendAccountIssuanceRecord
  <2>6. \A i \in Records : i # 0 => i - 1 \in Records
    BY FeePoolAssumption DEF Records
  <2> HIDE DEF latest, records, shifts
  <2>7. after \in [Records -> IssuanceRecord]
    BY <2>3, <2>4, <2>6
  <2> QED BY <2>1, <2>5, <2>7
<1>4. FeeInv'
  BY <1>2, <1>3, FeeInvUnchanged DEF StakingInv, ChangeDebt
<1> QED BY <1>1, <1>4 DEF StakingInv

\* Everything the Issuer's invariant is about but the balances that the fee
\* pool's operations move.
LEMMA BalancesPreserve ==
  ASSUME IInv,
         UNCHANGED <<registerVars, now, deadline, snx, snxRate, invalidRates, pending,
                     lastIssueEvent, suspended>>,
         sUSD' \in [Accounts -> Nat], escrowed' \in [Accounts -> Nat],
         sUSDSupply' \in Nat, otherSynths' \in Nat
  PROVE  IInv'
<1>1. RegisterInv /\ LedgersTypeOK
  BY IInvParts
<1>2. RegisterInv'
  BY <1>1, RegisterUnchanged
<1>3. LedgersTypeOK'
  BY <1>1 DEF LedgersTypeOK
<1> QED BY <1>2, <1>3 DEF IInv, TypeOK, LedgersTypeOK, RegisterInv

\* An exchange that pays a fee keeps the invariant.
LEMMA PayFeePreserves ==
  ASSUME StakingInv, NEW fee \in Fees, PayExchangeFee(fee)
  PROVE  StakingInv'
<1>1. fee \in Nat
  BY StakingAssumption
<1>2. /\ sUSDSupply \in Nat /\ otherSynths \in Nat
      /\ sUSD \in [Accounts -> Nat] /\ escrowed \in [Accounts -> Nat]
  BY DEF StakingInv, IInv, TypeOK
<1>3. sUSDSupply' \in Nat /\ otherSynths' \in Nat
  BY <1>1, <1>2 DEF PayExchangeFee
<1>4. IInv'
  BY <1>2, <1>3, BalancesPreserve DEF StakingInv, PayExchangeFee, snxVars
<1>5. FeeInv'
  BY <1>1, RecordFeePreserves DEF StakingInv, PayExchangeFee, registerVars
<1> QED BY <1>4, <1>5 DEF StakingInv

\* sUSD sent to the fee address keeps the invariant.
LEMMA TransferFeePreserves ==
  ASSUME StakingInv, NEW a \in Accounts, NEW value \in Fees, TransferToFeeAddress(a, value)
  PROVE  StakingInv'
<1>1. value \in Nat
  BY StakingAssumption
<1>2. /\ sUSDSupply \in Nat /\ otherSynths \in Nat
      /\ sUSD \in [Accounts -> Nat] /\ escrowed \in [Accounts -> Nat]
      /\ pending[a].reclaim \in Nat
  BY DEF StakingInv, IInv, TypeOK
<1>3. sUSD[a] - value \in Nat
  BY <1>1, <1>2 DEF TransferToFeeAddress, transferableSynths
<1>4. sUSD' \in [Accounts -> Nat]
  BY <1>2, <1>3 DEF TransferToFeeAddress
<1>5. IInv'
  BY <1>2, <1>4, BalancesPreserve DEF StakingInv, TransferToFeeAddress, snxVars, priceVars
<1>6. FeeInv'
  BY <1>1, RecordFeePreserves DEF StakingInv, TransferToFeeAddress, registerVars
<1> QED BY <1>5, <1>6 DEF StakingInv

\* FeePool._claimFees keeps the invariant.
LEMMA ClaimFeesPreserves ==
  ASSUME StakingInv, NEW a \in Accounts, ClaimFees(a)
  PROVE  StakingInv'
<1>1. claimFees(a) /\ UNCHANGED debtLedger
  BY DEF ClaimFees, registerVars
<1>2. /\ FeeInv'
      /\ feeBalance - feeBalance' \in Nat /\ rewardBalance - rewardBalance' \in Nat
  BY <1>1, ClaimPreserves
<1>3. /\ sUSDSupply \in Nat /\ otherSynths \in Nat
      /\ sUSD \in [Accounts -> Nat] /\ escrowed \in [Accounts -> Nat]
  BY DEF StakingInv, IInv, TypeOK
<1> DEFINE f == feeBalance - feeBalance'
           r == rewardBalance - rewardBalance'
<1>4. sUSD' = [sUSD EXCEPT ![a] = @ + f] /\ escrowed' = [escrowed EXCEPT ![a] = @ + r]
  BY DEF ClaimFees
<1>5. f \in Nat /\ r \in Nat
  BY <1>2
<1> HIDE DEF f, r
<1>6. sUSD' \in [Accounts -> Nat] /\ escrowed' \in [Accounts -> Nat]
  BY <1>3, <1>4, <1>5
<1>7. IInv'
  BY <1>3, <1>6, BalancesPreserve DEF StakingInv, ClaimFees, priceVars
<1> QED BY <1>2, <1>7 DEF StakingInv

\* Steps of the Issuer's side that leave the fee pool and the ledger alone.
LEMMA FeePoolUntouched ==
  ASSUME StakingInv, IInv', UNCHANGED <<feeVars, debtLedger>>
  PROVE  StakingInv'
<1>1. accountIssuanceLedger' \in [Accounts -> [Records -> IssuanceRecord]]
  BY DEF StakingInv, FeeInv, FeeTypeOK, feeVars
<1>2. debtLedgerLength \in Nat /\ debtLedgerLength' = debtLedgerLength
  BY LedgerLengthNat DEF StakingInv, debtLedgerLength
<1>3. FeeInv'
  BY <1>1, <1>2, FeeInvUnchanged DEF StakingInv, feeVars
<1> QED BY <1>3 DEF StakingInv
------------------------------------------------------------------------------
\* The deployed contracts satisfy the invariant.
LEMMA StakingInitEstablishes == StakingInit => StakingInv
<1> SUFFICES ASSUME StakingInit PROVE StakingInv
  OBVIOUS
<1>1. IInv
  BY InitEstablishes DEF StakingInit
<1>2. now \in Nat /\ debtLedgerLength \in Nat
  BY <1>1, LedgerLengthNat DEF IInv, TypeOK
<1> DEFINE p0 == [EmptyPeriod EXCEPT !.feePeriodId = 1, !.startTime = now]
<1>3. /\ recentFeePeriods = [i \in Periods |-> IF i = 0 THEN p0 ELSE EmptyPeriod]
      /\ currentFeePeriod = 0
      /\ accountIssuanceLedger = [a \in Accounts |-> [i \in Records |-> NoRecord]]
      /\ lastFeeWithdrawal = [a \in Accounts |-> 0]
      /\ feeBalance = 0 /\ rewardBalance = 0
  BY DEF StakingInit, FeePoolInit
<1>4. p0 = [feePeriodId |-> 1, startingDebtIndex |-> 0, startTime |-> now,
            feesToDistribute |-> 0, feesClaimed |-> 0,
            rewardsToDistribute |-> 0, rewardsClaimed |-> 0]
  <2> DEFINE time == now
  <2>1. p0 = [EmptyPeriod EXCEPT !.feePeriodId = 1, !.startTime = time]
    OBVIOUS
  <2> HIDE DEF p0, time
  <2>2. p0 = [feePeriodId |-> 1, startingDebtIndex |-> 0, startTime |-> time,
              feesToDistribute |-> 0, feesClaimed |-> 0,
              rewardsToDistribute |-> 0, rewardsClaimed |-> 0]
    BY <2>1 DEF EmptyPeriod
  <2> QED BY <2>2 DEF time
<1> HIDE DEF p0
<1>5. p0 \in FeePeriod /\ EmptyPeriod \in FeePeriod /\ NoRecord \in IssuanceRecord
  BY <1>2, <1>4 DEF EmptyPeriod, FeePeriod, NoRecord, IssuanceRecord
<1>6. 0 \in Periods /\ 1 \in Periods
  BY DEF Periods, FEE_PERIOD_LENGTH
<1>7. FeeTypeOK
  BY <1>3, <1>5, <1>6 DEF FeeTypeOK
<1>8. slot(0) = 0 /\ slot(1) = 1
  BY <1>3, <1>6, Slots
<1>9. period(0) = p0 /\ period(1) = EmptyPeriod
  BY <1>3, <1>6, <1>8 DEF period
<1>10. PeriodsPayWhatTheyHave
  BY <1>3, <1>4 DEF PeriodsPayWhatTheyHave, EmptyPeriod
<1>11. FeesAreBacked
  BY <1>3, <1>4, <1>9 DEF FeesAreBacked, unclaimedFees, unclaimedRewards, EmptyPeriod
<1>12. PeriodsAreOrdered
  BY <1>3, <1>4, <1>9 DEF PeriodsAreOrdered, EmptyPeriod
<1>13. ClosingInLedger
  BY <1>2, <1>4, <1>9 DEF ClosingInLedger
<1> QED BY <1>1, <1>7, <1>10, <1>11, <1>12, <1>13 DEF StakingInv, FeeInv

\* Every step of the Issuer or the fee pool keeps the invariant.
LEMMA StakingNextPreserves == StakingInv /\ [StakingNext]_stakingVars => StakingInv'
<1> SUFFICES ASSUME StakingInv, [StakingNext]_stakingVars PROVE StakingInv'
  OBVIOUS
<1>1. ASSUME NEW a \in Accounts, ChangeDebt(a) PROVE StakingInv'
  BY <1>1, ChangeDebtPreserves
<1>2. CASE (LiquidationsNext \/ TokenNext \/ EnvironmentNext) /\ UNCHANGED feeVars
  <2>1. IInv'
    BY <1>2, NextPreserves DEF StakingInv, Next
  <2>2. LiquidationsNext => UNCHANGED debtLedger
    BY DEF LiquidationsNext, FlagAccountForLiquidation, CheckAndRemoveAccountInLiquidation,
           registerVars
  <2>3. TokenNext => UNCHANGED debtLedger
    BY DEF TokenNext, TransferSNX, Vest, TransferSUSD, SettleSUSD, ExchangeFromSUSD,
           ExchangeToSUSD, registerVars
  <2>4. EnvironmentNext => UNCHANGED debtLedger
    BY DEF EnvironmentNext, UpdateRates, UpdateSuspension, Tick, registerVars
  <2> QED BY <1>2, <2>1, <2>2, <2>3, <2>4, FeePoolUntouched
<1>3. CASE FeePoolNext
  <2>1. ASSUME NEW amount \in Rewards, DistributeRewards(amount) PROVE StakingInv'
    <3>1. amount \in Nat /\ setRewardsToDistribute(amount) /\ UNCHANGED vars
      BY <2>1, StakingAssumption DEF DistributeRewards
    <3>2. IInv'
      BY <3>1, NextPreserves DEF StakingInv
    <3>3. FeeInv'
      BY <3>1, RecordRewardPreserves DEF StakingInv, vars, registerVars
    <3> QED BY <3>2, <3>3 DEF StakingInv
  <2>2. ASSUME CloseCurrentFeePeriod PROVE StakingInv'
    <3>1. closeCurrentFeePeriod(now) /\ UNCHANGED vars /\ now \in Nat
      BY <2>2 DEF CloseCurrentFeePeriod, StakingInv, IInv, TypeOK
    <3>2. IInv'
      BY <3>1, NextPreserves DEF StakingInv
    <3>3. FeeInv'
      BY <3>1, ClosePreserves, LedgerLengthNat DEF StakingInv, vars, registerVars
    <3> QED BY <3>2, <3>3 DEF StakingInv
  <2> QED BY <1>3, <2>1, <2>2, PayFeePreserves, TransferFeePreserves, ClaimFeesPreserves
          DEF FeePoolNext
<1>4. CASE UNCHANGED stakingVars
  <2>1. UNCHANGED vars /\ UNCHANGED feeVars
    BY <1>4 DEF stakingVars
  <2>2. IInv'
    BY <2>1, NextPreserves DEF StakingInv
  <2> QED BY <2>1, <2>2, FeePoolUntouched DEF vars, registerVars
<1> QED BY <1>1, <1>2, <1>3, <1>4 DEF StakingNext

\* The invariant holds of every behaviour of the Issuer with its fee pool.
THEOREM StakingInvariance == StakingSpec => []StakingInv
BY StakingInitEstablishes, StakingNextPreserves, PTL DEF StakingSpec

\* No fee, reward, period or record ever goes below zero.
THEOREM FeeTypesCorrect == StakingSpec => []FeeTypeOK
<1>1. StakingInv => FeeTypeOK
  BY DEF StakingInv, FeeInv
<1> QED BY <1>1, StakingInvariance, PTL

\* The fee address and the escrow always hold exactly what the periods have
\* left, as long as fees arrive as exchange fees or as transfers of sUSD: then
\* no claim reverts for want of tokens.
THEOREM FeesStayBacked == StakingSpec => []FeesAreBacked
<1>1. StakingInv => FeesAreBacked
  BY DEF StakingInv, FeeInv
<1> QED BY <1>1, StakingInvariance, PTL

\* The ring never holds two periods of one id, and nobody is ahead of it.
THEOREM PeriodsStayOrdered == StakingSpec => []PeriodsAreOrdered
<1>1. StakingInv => PeriodsAreOrdered
  BY DEF StakingInv, FeeInv
<1> QED BY <1>1, StakingInvariance, PTL

\* Nobody is paid a period twice: every payment moves the payee's mark forward.
THEOREM NobodyClaimsTwice == StakingSpec => OneClaimPerPeriod
<1>1. ASSUME StakingInv, [StakingNext]_stakingVars,
             feeBalance' < feeBalance \/ rewardBalance' < rewardBalance
      PROVE  \E a \in Accounts : lastFeeWithdrawal[a] < lastFeeWithdrawal'[a]
  <2>1. feeBalance \in Nat /\ rewardBalance \in Nat /\ lastFeeWithdrawal \in [Accounts -> Nat]
    BY <1>1 DEF StakingInv, FeeInv, FeeTypeOK
  <2>2. PICK a \in Accounts : ClaimFees(a)
    <3>1. ~UNCHANGED <<feeBalance, rewardBalance>>
      BY <1>1, <2>1
    <3>2. ASSUME NEW b \in Accounts PROVE ~ChangeDebt(b)
      BY <3>1 DEF ChangeDebt
    <3>3. ~UNCHANGED stakingVars /\ ~UNCHANGED feeVars
      BY <3>1 DEF stakingVars, feeVars
    <3>4. ASSUME NEW fee \in Fees PROVE ~PayExchangeFee(fee)
      <4>1. fee \in Nat
        BY StakingAssumption
      <4> QED BY <1>1, <2>1, <4>1 DEF PayExchangeFee
    <3>5. ASSUME NEW b \in Accounts, NEW value \in Fees
          PROVE  ~TransferToFeeAddress(b, value)
      <4>1. value \in Nat
        BY StakingAssumption
      <4> QED BY <1>1, <2>1, <4>1 DEF TransferToFeeAddress
    <3>6. ASSUME NEW amount \in Rewards PROVE ~DistributeRewards(amount)
      <4>1. amount \in Nat
        BY StakingAssumption
      <4> QED BY <1>1, <2>1, <4>1 DEF DistributeRewards, setRewardsToDistribute
    <3>7. ~CloseCurrentFeePeriod
      BY <3>1 DEF CloseCurrentFeePeriod, closeCurrentFeePeriod
    <3> QED BY <1>1, <3>2, <3>3, <3>4, <3>5, <3>6, <3>7 DEF StakingNext, FeePoolNext
  <2>3. /\ availableFees(a) > 0 \/ availableRewards(a) > 0
        /\ lastFeeWithdrawal' = [lastFeeWithdrawal EXCEPT ![a] = period(1).feePeriodId]
    BY <2>2 DEF ClaimFees, claimFees
  <2>4. notYetClaimed(a)
    BY <2>3 DEF availableFees, availableRewards
  <2> QED BY <2>1, <2>3, <2>4 DEF notYetClaimed
<1> QED BY <1>1, StakingInvariance, PTL DEF StakingSpec, OneClaimPerPeriod
------------------------------------------------------------------------------
(* The share of a closed period. *)

\* The records of an account after appendAccountIssuanceRecord, in a period that
\* starts at an index, and the record that the close before that index applies.
Appended(records, latest, start) ==
  [i \in Records |-> IF i = 0 THEN latest
                     ELSE IF records[0].debtEntryIndex < start THEN records[i - 1]
                          ELSE records[i]]
OlderThan(records, start) == {i \in Records : start - 1 >= records[i].debtEntryIndex}
Applicable(records, start) ==
  IF OlderThan(records, start) = {} THEN NoRecord
  ELSE records[Min(OlderThan(records, start))]

\* What appendAccountIssuanceRecord writes comes after the close, and pushes
\* the record of the close, if that is the newest, one place down.
LEMMA AppendKeepsApplicable ==
  ASSUME NEW records \in [Records -> IssuanceRecord],
         NEW latest \in IssuanceRecord, NEW start \in Nat, start > 0,
         latest.debtEntryIndex >= start
  PROVE  Applicable(Appended(records, latest, start), start) = Applicable(records, start)
<1> DEFINE after == Appended(records, latest, start)
           older == OlderThan(records, start)
           newer == OlderThan(after, start)
<1> USE DEF OlderThan, Appended
<1>1. 0 \in Records /\ 1 \in Records /\ Records \subseteq Nat
  BY FeePoolAssumption DEF Records
<1>2. \A i \in Records : records[i].debtEntryIndex \in Nat
  BY DEF IssuanceRecord
<1>3. latest.debtEntryIndex \in Nat /\ after[0] = latest
  BY <1>1 DEF IssuanceRecord
<1>4. 0 \notin newer
  BY <1>3
<1>5. CASE records[0].debtEntryIndex < start
  <2>1. 0 \in older
    BY <1>1, <1>2, <1>5
  <2>2. after[1] = records[0]
    BY <1>1, <1>5
  <2>3. 1 \in newer
    BY <1>1, <2>1, <2>2
  <2>4. older \in SUBSET Nat /\ newer \in SUBSET Nat
    BY <1>1
  <2>5. Min(older) = 0
    <3>1. older \in SUBSET Int
      BY <2>4
    <3> QED BY <2>1, <2>4, <3>1, LeastIsMin
  <2>6. ASSUME NEW y \in newer PROVE 1 <= y
    <3>1. y \in Nat /\ y # 0
      BY <1>4, <2>4
    <3> QED BY <3>1
  <2>7. Min(newer) = 1
    <3>1. newer \in SUBSET Int
      BY <2>4
    <3> QED BY <2>3, <2>4, <2>6, <3>1, LeastIsMin
  <2> QED BY <2>1, <2>2, <2>3, <2>5, <2>7 DEF Applicable
<1>6. CASE ~(records[0].debtEntryIndex < start)
  <2>1. 0 \notin older
    BY <1>1, <1>2, <1>6
  <2>2. \A i \in Records : i # 0 => after[i] = records[i]
    BY <1>6
  <2>3. newer = older
    BY <1>4, <2>1, <2>2
  <2>4. CASE older # {}
    <3>1. older \in SUBSET Nat
      BY <1>1
    <3>2. PICK m \in older : \A y \in older : m <= y
      BY <2>4, <3>1, LeastMember
    <3>3. Min(older) = m
      BY <3>1, <3>2, LeastIsMin
    <3>4. after[m] = records[m]
      BY <2>1, <2>2, <3>2
    <3> QED BY <2>3, <2>4, <3>3, <3>4 DEF Applicable
  <2> QED BY <2>3, <2>4 DEF Applicable
<1> QED BY <1>5, <1>6

\* An operation on the debt sets the share of one account, at the end of the
\* ledger, and appends an entry to the ledger.
LEMMA DebtOperation ==
  ASSUME NEW a \in Accounts, IssuerStep(a)
  PROVE  /\ \E ownership : setCurrentIssuanceData(a, ownership)
         /\ \E entry : debtLedger' = Append(debtLedger, entry)
BY DEF IssuerStep, IssueSynths, IssueMaxSynths, BurnSynths, BurnSynthsToTarget,
       LiquidateDelinquentAccount, internalIssueSynths, internalBurnSynths,
       addToDebtRegister, removeFromDebtRegister

\* Issuing and burning change no account's record of the closed period.
LEMMA RecordAtCloseIsKept ==
  ASSUME StakingInv, StakingInv', NEW a \in Accounts, ChangeDebt(a), NEW b \in Accounts
  PROVE  RecordAtClose(b)' = RecordAtClose(b)
<1> DEFINE start == period(0).startingDebtIndex
           records == accountIssuanceLedger[a]
           latest == [debtPercentage |-> issuanceData'[a].initialDebtOwnership,
                      debtEntryIndex |-> issuanceData'[a].debtEntryIndex]
           after == Appended(records, latest, start)
<1>1. /\ IssuerStep(a)
      /\ accountIssuanceLedger' = [accountIssuanceLedger EXCEPT ![a] = after]
      /\ UNCHANGED <<recentFeePeriods, currentFeePeriod>>
  BY DEF ChangeDebt, appendAccountIssuanceRecord, Appended
<1>2. accountIssuanceLedger \in [Accounts -> [Records -> IssuanceRecord]]
  BY DEF StakingInv, FeeInv, FeeTypeOK
<1>3. period(0)' = period(0)
  BY <1>1 DEF period, slot
<1>4. /\ AnyDebtByClose' = AnyDebtByClose /\ closingDebtIndex' = closingDebtIndex
      /\ closingDebtIndex = start - 1 /\ (AnyDebtByClose <=> start > 0)
  BY <1>3 DEF AnyDebtByClose, closingDebtIndex
<1>5. start \in Nat /\ start <= debtLedgerLength /\ debtLedgerLength \in Nat
  BY Slots, LedgerLengthNat
  DEF StakingInv, FeeInv, FeeTypeOK, ClosingInLedger, period, FeePeriod
<1>6. latest.debtEntryIndex = debtLedgerLength
  <2>1. PICK ownership : setCurrentIssuanceData(a, ownership)
    BY <1>1, DebtOperation
  <2>2. issuanceData \in [Accounts -> IssuanceData]
    BY DEF StakingInv, IInv, TypeOK, RegisterTypeOK
  <2> QED BY <2>1, <2>2 DEF setCurrentIssuanceData
<1>7. latest \in IssuanceRecord
  <2>1. issuanceData'[a] \in IssuanceData
    BY DEF StakingInv, IInv, TypeOK, RegisterTypeOK
  <2> QED BY <2>1 DEF IssuanceData, IssuanceRecord
<1>8. /\ accountIssuanceLedger'[a] = after
      /\ b # a => accountIssuanceLedger'[b] = accountIssuanceLedger[b]
  BY <1>1, <1>2
<1>9. CASE ~AnyDebtByClose
  BY <1>4, <1>9 DEF RecordAtClose
<1>10. CASE b # a
  BY <1>4, <1>8, <1>10 DEF RecordAtClose, applicableIssuanceData
<1>11. CASE AnyDebtByClose /\ b = a
  <2>1. RecordAtClose(b) = Applicable(records, start)
    BY <1>4, <1>11 DEF RecordAtClose, applicableIssuanceData, Applicable, OlderThan
  <2>2. RecordAtClose(b)' = Applicable(after, start)
    <3>1. RecordAtClose(b)' = applicableIssuanceData(b, closingDebtIndex)'
      BY <1>4, <1>11 DEF RecordAtClose
    <3> HIDE DEF after, start
    <3> QED BY <1>4, <1>8, <1>11, <3>1 DEF applicableIssuanceData, Applicable, OlderThan
  <2>3. /\ records \in [Records -> IssuanceRecord] /\ start > 0
        /\ latest.debtEntryIndex >= start
    BY <1>2, <1>4, <1>5, <1>6, <1>11
  <2> HIDE DEF start, records, latest
  <2> QED BY <1>5, <1>7, <2>1, <2>2, <2>3, AppendKeepsApplicable
<1> QED BY <1>9, <1>10, <1>11

\* Nor do they change the ledger entries that the share is computed from.
LEMMA EarnedRatioIsKept ==
  ASSUME StakingInv, StakingInv', NEW a \in Accounts, ChangeDebt(a), NEW b \in Accounts
  PROVE  EarnedRatio(b)' = EarnedRatio(b)
<1> DEFINE record == RecordAtClose(b)
<1>1. RecordAtClose(b)' = record
  BY RecordAtCloseIsKept
<1>2. CASE ~(record.debtPercentage > 0)
  BY <1>1, <1>2 DEF EarnedRatio
<1>3. CASE record.debtPercentage > 0
  <2>1. AnyDebtByClose
    BY <1>3 DEF RecordAtClose, NoRecord
  <2>2. record \in IssuanceRecord /\ record.debtEntryIndex <= closingDebtIndex
    BY <1>3, <2>1, RecordAtCloseType DEF StakingInv, FeeInv
  <2>3. period(0)' = period(0) /\ period(0) \in FeePeriod
    BY Slots DEF ChangeDebt, period, slot, StakingInv, FeeInv, FeeTypeOK
  <2>4. closingDebtIndex' = closingDebtIndex
    BY <2>3 DEF closingDebtIndex
  <2>5. closingDebtIndex \in Nat /\ closingDebtIndex + 1 <= Len(debtLedger)
    BY <2>1, <2>3 DEF StakingInv, FeeInv, ClosingInLedger, closingDebtIndex,
                      AnyDebtByClose, FeePeriod, debtLedgerLength
  <2>6. PICK entry : debtLedger' = Append(debtLedger, entry)
    BY DebtOperation DEF ChangeDebt
  <2>7. debtLedger \in Seq(Nat)
    BY DEF StakingInv, IInv, TypeOK, RegisterTypeOK
  <2>8. \A i \in Nat : i + 1 <= Len(debtLedger) => debtLedgerAt(i)' = debtLedgerAt(i)
    BY <2>6, <2>7 DEF debtLedgerAt
  <2>9. record.debtEntryIndex \in Nat /\ record.debtEntryIndex + 1 <= Len(debtLedger)
    BY <2>2, <2>5 DEF IssuanceRecord
  <2>10. /\ debtLedger'[closingDebtIndex + 1] = debtLedger[closingDebtIndex + 1]
         /\ debtLedger'[record.debtEntryIndex + 1] = debtLedger[record.debtEntryIndex + 1]
    BY <2>5, <2>8, <2>9 DEF debtLedgerAt
  <2> QED BY <1>1, <1>3, <2>4, <2>10
          DEF EarnedRatio, effectiveDebtRatioForPeriod, debtLedgerAt
<1> QED BY <1>2, <1>3

\* What an account earned in the closed period is settled when it closes: no
\* issue, burn or liquidation afterwards changes anybody's share, in any order
\* and however often, because the record of the close is only pushed down by
\* the first operation of the new period and the ledger only grows.
THEOREM SharesAreKept == StakingSpec => EarnedSharesAreKept
<1>1. ASSUME StakingInv, [StakingNext]_stakingVars,
             <<accountIssuanceLedger, debtLedger>>' # <<accountIssuanceLedger, debtLedger>>,
             NEW b \in Accounts
      PROVE  EarnedRatio(b)' = EarnedRatio(b)
  <2>1. ~UNCHANGED <<accountIssuanceLedger, debtLedger>>
    BY <1>1
  <2>2. ~UNCHANGED stakingVars
    BY <2>1 DEF stakingVars, vars, registerVars, feeVars
  <2>3. ~((LiquidationsNext \/ TokenNext \/ EnvironmentNext) /\ UNCHANGED feeVars)
    BY <2>1 DEF LiquidationsNext, FlagAccountForLiquidation,
           CheckAndRemoveAccountInLiquidation, TokenNext, TransferSNX, Vest, TransferSUSD,
           SettleSUSD, ExchangeFromSUSD, ExchangeToSUSD, EnvironmentNext, UpdateRates,
           UpdateSuspension, Tick, registerVars, feeVars
  <2>4. ~FeePoolNext
    BY <2>1 DEF FeePoolNext, PayExchangeFee, TransferToFeeAddress, DistributeRewards,
           setRewardsToDistribute, CloseCurrentFeePeriod, closeCurrentFeePeriod,
           ClaimFees, claimFees, vars, registerVars
  <2>5. PICK a \in Accounts : ChangeDebt(a)
    BY <1>1, <2>2, <2>3, <2>4 DEF StakingNext
  <2>6. StakingInv'
    BY <1>1, StakingNextPreserves
  <2> QED BY <1>1, <2>5, <2>6, EarnedRatioIsKept
<1>2. StakingInv /\ [StakingNext]_stakingVars =>
        [/\ period(1).feePeriodId' = period(1).feePeriodId
         /\ <<accountIssuanceLedger, debtLedger>>' # <<accountIssuanceLedger, debtLedger>>
         => \A a \in Accounts :
            ShareIsDefined(a) /\ ShareIsDefined(a)' => EarnedRatio(a)' = EarnedRatio(a)]_stakingVars
  BY <1>1
<1> QED BY <1>2, StakingInvariance, PTL DEF StakingSpec, EarnedSharesAreKept
------------------------------------------------------------------------------
(* What is distributed, as FeeDistribution promises it. *)

\* The closed period is the one before the open one.
IdsAreConsecutive == period(1).feePeriodId + 1 = period(0).feePeriodId

\* An update of the two slots of a ring that does not turn.
LEMMA PeriodsAfterUpdate ==
  ASSUME FeeTypeOK, UNCHANGED currentFeePeriod, NEW p0, NEW p1,
         recentFeePeriods' = [recentFeePeriods EXCEPT ![slot(1)] = p1, ![slot(0)] = p0]
  PROVE  period(0)' = p0 /\ period(1)' = p1
<1>1. slot(0) # slot(1) /\ slot(0) \in Periods /\ slot(1) \in Periods
  BY Slots DEF FeeTypeOK
<1>2. recentFeePeriods'[slot(0)] = p0 /\ recentFeePeriods'[slot(1)] = p1
  BY <1>1 DEF FeeTypeOK
<1>3. slot(0)' = slot(0) /\ slot(1)' = slot(1)
  BY DEF slot
<1> QED BY <1>2, <1>3 DEF period

\* recordFeePaid adds to what the open period has to pay, and to nothing else.
LEMMA FeeGathers ==
  ASSUME FeeInv, NEW amount \in Nat, recordFeePaid(amount), UNCHANGED currentFeePeriod
  PROVE  /\ unclaimedFees(period(0))' = unclaimedFees(period(0)) + amount
         /\ unclaimedFees(period(1))' = unclaimedFees(period(1))
         /\ unclaimedRewards(period(0))' = unclaimedRewards(period(0))
         /\ unclaimedRewards(period(1))' = unclaimedRewards(period(1))
         /\ period(0).feePeriodId' = period(0).feePeriodId
         /\ period(1).feePeriodId' = period(1).feePeriodId
<1> DEFINE p0 == [period(0) EXCEPT !.feesToDistribute = @ + amount]
           p1 == period(1)
<1>1. FeeTypeOK /\ period(0) \in FeePeriod
  BY FeeInvParts DEF FeeInv
<1>2. recentFeePeriods' = [recentFeePeriods EXCEPT ![slot(1)] = p1, ![slot(0)] = p0]
  <2>1. slot(0) # slot(1) /\ slot(0) \in Periods /\ slot(1) \in Periods
    BY <1>1, Slots DEF FeeTypeOK
  <2> QED BY <1>1, <2>1 DEF recordFeePaid, FeeTypeOK, period
<1>3. /\ unclaimedFees(p0) = unclaimedFees(period(0)) + amount
      /\ unclaimedRewards(p0) = unclaimedRewards(period(0))
      /\ p0.feePeriodId = period(0).feePeriodId
  BY <1>1 DEF FeePeriod, unclaimedFees, unclaimedRewards
<1> HIDE DEF p0, p1
<1>4. period(0)' = p0 /\ period(1)' = p1
  BY <1>1, <1>2, PeriodsAfterUpdate
<1>5. unclaimedFees(period(0))' = unclaimedFees(p0)
      /\ unclaimedRewards(period(0))' = unclaimedRewards(p0)
      /\ unclaimedFees(period(1))' = unclaimedFees(p1)
      /\ unclaimedRewards(period(1))' = unclaimedRewards(p1)
  BY <1>4 DEF unclaimedFees, unclaimedRewards
<1> QED BY <1>3, <1>4, <1>5 DEF p1

\* setRewardsToDistribute does the same for a reward.
LEMMA RewardGathers ==
  ASSUME FeeInv, NEW amount \in Nat, setRewardsToDistribute(amount)
  PROVE  /\ unclaimedRewards(period(0))' = unclaimedRewards(period(0)) + amount
         /\ unclaimedRewards(period(1))' = unclaimedRewards(period(1))
         /\ unclaimedFees(period(0))' = unclaimedFees(period(0))
         /\ unclaimedFees(period(1))' = unclaimedFees(period(1))
         /\ period(0).feePeriodId' = period(0).feePeriodId
         /\ period(1).feePeriodId' = period(1).feePeriodId
<1> DEFINE p0 == [period(0) EXCEPT !.rewardsToDistribute = @ + amount]
           p1 == period(1)
<1>1. FeeTypeOK /\ period(0) \in FeePeriod
  BY FeeInvParts DEF FeeInv
<1>2. /\ UNCHANGED currentFeePeriod
      /\ recentFeePeriods' = [recentFeePeriods EXCEPT ![slot(1)] = p1, ![slot(0)] = p0]
  <2>1. slot(0) # slot(1) /\ slot(0) \in Periods /\ slot(1) \in Periods
    BY <1>1, Slots DEF FeeTypeOK
  <2> QED BY <1>1, <2>1 DEF setRewardsToDistribute, FeeTypeOK, period
<1>3. /\ unclaimedRewards(p0) = unclaimedRewards(period(0)) + amount
      /\ unclaimedFees(p0) = unclaimedFees(period(0))
      /\ p0.feePeriodId = period(0).feePeriodId
  BY <1>1 DEF FeePeriod, unclaimedFees, unclaimedRewards
<1> HIDE DEF p0, p1
<1>4. period(0)' = p0 /\ period(1)' = p1
  BY <1>1, <1>2, PeriodsAfterUpdate
<1>5. unclaimedFees(period(0))' = unclaimedFees(p0)
      /\ unclaimedRewards(period(0))' = unclaimedRewards(p0)
      /\ unclaimedFees(period(1))' = unclaimedFees(p1)
      /\ unclaimedRewards(period(1))' = unclaimedRewards(p1)
  BY <1>4 DEF unclaimedFees, unclaimedRewards
<1> QED BY <1>3, <1>4, <1>5 DEF p1

\* closeCurrentFeePeriod: the ring turns, and the closing period takes the rest
\* of the oldest.
LEMMA CloseRollsOver ==
  ASSUME FeeInv, NEW time \in Nat, closeCurrentFeePeriod(time)
  PROVE  /\ unclaimedFees(period(0))' = 0
         /\ unclaimedFees(period(1))' = unclaimedFees(period(1)) + unclaimedFees(period(0))
         /\ unclaimedRewards(period(0))' = 0
         /\ unclaimedRewards(period(1))' =
              unclaimedRewards(period(1)) + unclaimedRewards(period(0))
         /\ period(0).feePeriodId' = period(0).feePeriodId + 1
         /\ period(1).feePeriodId' = period(0).feePeriodId
<1> DEFINE p0 == openedPeriod(time)
           p1 == rollOver(period(0), period(1))
<1>1. FeeTypeOK /\ currentFeePeriod \in Periods
  BY DEF FeeInv, FeeTypeOK
<1>2. /\ slot(0) # slot(1) /\ slot(0) \in Periods /\ slot(1) \in Periods
      /\ slot(0) = currentFeePeriod /\ slot(1) = 1 - currentFeePeriod
  BY <1>1, Slots
<1>3. /\ period(0) \in FeePeriod /\ PaysWhatItHas(period(0))
      /\ unclaimedFees(period(0)) \in Nat /\ unclaimedFees(period(1)) \in Nat
      /\ unclaimedRewards(period(0)) \in Nat /\ unclaimedRewards(period(1)) \in Nat
  BY FeeInvParts
<1>4. /\ currentFeePeriod' = slot(1)
      /\ recentFeePeriods' = [recentFeePeriods EXCEPT ![slot(0)] = p1, ![slot(1)] = p0]
  BY DEF closeCurrentFeePeriod, FEE_PERIOD_LENGTH
<1>5. slot(0)' = slot(1) /\ slot(1)' = slot(0)
  <2>1. /\ 1 - currentFeePeriod \in Periods
        /\ 1 - (1 - currentFeePeriod) = currentFeePeriod
    BY <1>1 DEF Periods, FEE_PERIOD_LENGTH
  <2>2. slot(0)' = 1 - currentFeePeriod /\ slot(1)' = 1 - (1 - currentFeePeriod)
    BY <1>2, <1>4, <2>1, TwoSlots DEF slot
  <2> QED BY <1>2, <2>1, <2>2
<1> HIDE DEF p0, p1
<1>6. period(0)' = p0 /\ period(1)' = p1
  <2>1. recentFeePeriods'[slot(1)] = p0 /\ recentFeePeriods'[slot(0)] = p1
    BY <1>1, <1>2, <1>4 DEF FeeTypeOK
  <2> QED BY <1>5, <2>1 DEF period
<1>7. /\ p0.feePeriodId = period(0).feePeriodId + 1
      /\ unclaimedFees(p0) = 0 /\ unclaimedRewards(p0) = 0
  <2> DEFINE id == period(0).feePeriodId + 1
  <2>1. p0 = [EmptyPeriod EXCEPT !.feePeriodId = id, !.startingDebtIndex = debtLedgerLength,
                                 !.startTime = time]
    BY DEF p0, openedPeriod
  <2> HIDE DEF id
  <2>2. /\ p0.feePeriodId = id
        /\ p0.feesToDistribute = 0 /\ p0.feesClaimed = 0
        /\ p0.rewardsToDistribute = 0 /\ p0.rewardsClaimed = 0
    BY <2>1 DEF EmptyPeriod
  <2> QED BY <2>2 DEF id, unclaimedFees, unclaimedRewards
<1>8. /\ p1.feePeriodId = period(0).feePeriodId
      /\ unclaimedFees(p1) = unclaimedFees(period(0)) + unclaimedFees(period(1))
      /\ unclaimedRewards(p1) = unclaimedRewards(period(0)) + unclaimedRewards(period(1))
  BY <1>3, PeriodAfterRollOver DEF p1
<1>9. unclaimedFees(period(0))' = unclaimedFees(p0)
      /\ unclaimedRewards(period(0))' = unclaimedRewards(p0)
      /\ unclaimedFees(period(1))' = unclaimedFees(p1)
      /\ unclaimedRewards(period(1))' = unclaimedRewards(p1)
  BY <1>6 DEF unclaimedFees, unclaimedRewards
<1> QED BY <1>3, <1>6, <1>7, <1>8, <1>9

\* What a claim takes of an amount: of the open period only once the oldest
\* has nothing left.
LEMMA OldestPaysFirst ==
  ASSUME NEW amount \in Nat, NEW oldest \in Nat, NEW open \in Nat,
         fromOpen(amount, oldest, open) > 0
  PROVE  fromOldest(amount, oldest) = oldest
BY DEF fromOldest, fromOpen, Lesser

\* claimFees takes from both periods what leaves the balances, the closed one
\* first, and marks the account.
LEMMA ClaimTakes ==
  ASSUME StakingInv, NEW a \in Accounts, claimFees(a)
  PROVE  /\ unclaimedFees(period(1))' <= unclaimedFees(period(1))
         /\ unclaimedFees(period(0))' <= unclaimedFees(period(0))
         /\ unclaimedFees(period(0))' < unclaimedFees(period(0)) =>
              unclaimedFees(period(1))' = 0
         /\ feeBalance' + (unclaimedFees(period(1)) - unclaimedFees(period(1))')
              + (unclaimedFees(period(0)) - unclaimedFees(period(0))') = feeBalance
         /\ unclaimedRewards(period(1))' <= unclaimedRewards(period(1))
         /\ unclaimedRewards(period(0))' <= unclaimedRewards(period(0))
         /\ unclaimedRewards(period(0))' < unclaimedRewards(period(0)) =>
              unclaimedRewards(period(1))' = 0
         /\ rewardBalance' + (unclaimedRewards(period(1)) - unclaimedRewards(period(1))')
              + (unclaimedRewards(period(0)) - unclaimedRewards(period(0))') = rewardBalance
         /\ period(0).feePeriodId' = period(0).feePeriodId
         /\ period(1).feePeriodId' = period(1).feePeriodId
         /\ lastFeeWithdrawal[a] < period(1).feePeriodId
         /\ lastFeeWithdrawal' = [lastFeeWithdrawal EXCEPT ![a] = period(1).feePeriodId]
<1> DEFINE fees == availableFees(a)
           rewards == availableRewards(a)
           f1 == fromOldest(fees, unclaimedFees(period(1)))
           f0 == fromOpen(fees, unclaimedFees(period(1)), unclaimedFees(period(0)))
           r1 == fromOldest(rewards, unclaimedRewards(period(1)))
           r0 == fromOpen(rewards, unclaimedRewards(period(1)), unclaimedRewards(period(0)))
           p0 == withClaim(period(0), f0, r0)
           p1 == withClaim(period(1), f1, r1)
<1>1. FeeInv /\ FeeTypeOK
  BY DEF StakingInv, FeeInv
<1>2. /\ period(0) \in FeePeriod /\ period(1) \in FeePeriod
      /\ PaysWhatItHas(period(0)) /\ PaysWhatItHas(period(1))
      /\ unclaimedFees(period(0)) \in Nat /\ unclaimedFees(period(1)) \in Nat
      /\ unclaimedRewards(period(0)) \in Nat /\ unclaimedRewards(period(1)) \in Nat
      /\ feeBalance \in Nat /\ rewardBalance \in Nat
  BY <1>1, FeeInvParts
<1>3. fees \in Nat /\ rewards \in Nat
  <2>1. /\ period(1).feesToDistribute \in Nat /\ period(1).rewardsToDistribute \in Nat
        /\ ShareIsDefined(a)
    BY <1>2 DEF FeePeriod, claimFees
  <2>2. earnedFees(a) \in Nat /\ earnedRewards(a) \in Nat
    BY <1>1, <2>1, EarnedNat DEF earnedFees, earnedRewards, StakingInv
  <2> QED BY <2>2 DEF availableFees, availableRewards
<1>4. /\ recentFeePeriods' = [recentFeePeriods EXCEPT
            ![slot(1)] = withClaim(@, f1, r1), ![slot(0)] = withClaim(@, f0, r0)]
      /\ feeBalance' = feeBalance - (f1 + f0)
      /\ rewardBalance' = rewardBalance - (r1 + r0)
      /\ lastFeeWithdrawal' = [lastFeeWithdrawal EXCEPT ![a] = period(1).feePeriodId]
      /\ UNCHANGED currentFeePeriod
      /\ fees > 0 \/ rewards > 0
  BY DEF claimFees, paid
<1>5. lastFeeWithdrawal[a] < period(1).feePeriodId
  BY <1>4 DEF availableFees, availableRewards, notYetClaimed
<1> HIDE DEF fees, rewards
<1>6. /\ f0 \in Nat /\ f1 \in Nat /\ r0 \in Nat /\ r1 \in Nat
      /\ f0 <= unclaimedFees(period(0)) /\ f1 <= unclaimedFees(period(1))
      /\ r0 <= unclaimedRewards(period(0)) /\ r1 <= unclaimedRewards(period(1))
      /\ f0 > 0 => f1 = unclaimedFees(period(1))
      /\ r0 > 0 => r1 = unclaimedRewards(period(1))
  BY <1>2, <1>3, PaymentBounds, OldestPaysFirst
<1> HIDE DEF f0, f1, r0, r1
<1>7. recentFeePeriods' = [recentFeePeriods EXCEPT ![slot(1)] = p1, ![slot(0)] = p0]
  <2>1. slot(0) # slot(1) /\ slot(0) \in Periods /\ slot(1) \in Periods
    BY <1>1, Slots DEF FeeTypeOK
  <2> QED BY <1>1, <1>4, <2>1 DEF FeeTypeOK, period
<1> HIDE DEF p0, p1
<1>8. period(0)' = p0 /\ period(1)' = p1
  BY <1>1, <1>4, <1>7, PeriodsAfterUpdate
<1>9. /\ p0.feePeriodId = period(0).feePeriodId
      /\ unclaimedFees(p0) = unclaimedFees(period(0)) - f0
      /\ unclaimedRewards(p0) = unclaimedRewards(period(0)) - r0
      /\ p1.feePeriodId = period(1).feePeriodId
      /\ unclaimedFees(p1) = unclaimedFees(period(1)) - f1
      /\ unclaimedRewards(p1) = unclaimedRewards(period(1)) - r1
  BY <1>2, <1>6, PeriodAfterClaim DEF p0, p1
<1>10. /\ unclaimedFees(period(0))' = unclaimedFees(period(0)) - f0
       /\ unclaimedRewards(period(0))' = unclaimedRewards(period(0)) - r0
       /\ unclaimedFees(period(1))' = unclaimedFees(period(1)) - f1
       /\ unclaimedRewards(period(1))' = unclaimedRewards(period(1)) - r1
  BY <1>8, <1>9 DEF unclaimedFees, unclaimedRewards
<1>11. /\ period(0).feePeriodId' = period(0).feePeriodId
       /\ period(1).feePeriodId' = period(1).feePeriodId
  BY <1>8, <1>9
<1> QED BY <1>2, <1>4, <1>5, <1>6, <1>10, <1>11

\* Every step of the Issuer and the fee pool is one that FeeDistribution allows
\* of the fees, and of the rewards, or a stuttering one.
LEMMA StepIsDistribution ==
  ASSUME StakingInv, IdsAreConsecutive, [StakingNext]_stakingVars
  PROVE  /\ [FeesPromise!Next]_(FeesPromise!vars)
         /\ [RewardsPromise!Next]_(RewardsPromise!vars)
         /\ IdsAreConsecutive'
<1>1. /\ FeeInv /\ FeeTypeOK
      /\ period(0).feePeriodId \in Nat /\ period(1).feePeriodId \in Nat
      /\ unclaimedFees(period(0)) \in Nat /\ unclaimedFees(period(1)) \in Nat
      /\ unclaimedRewards(period(0)) \in Nat /\ unclaimedRewards(period(1)) \in Nat
      /\ feeBalance \in Nat /\ rewardBalance \in Nat
  BY FeeInvParts DEF StakingInv, FeeInv, FeePeriod
<1> USE DEF FeesPromise!vars, RewardsPromise!vars
<1>2. ASSUME NEW amount \in Nat, recordFeePaid(amount),
             feeBalance' = feeBalance + amount,
             UNCHANGED <<currentFeePeriod, lastFeeWithdrawal, rewardBalance>>
      PROVE  /\ [FeesPromise!Next]_(FeesPromise!vars)
             /\ [RewardsPromise!Next]_(RewardsPromise!vars)
             /\ IdsAreConsecutive'
  <2>1. /\ unclaimedFees(period(0))' = unclaimedFees(period(0)) + amount
        /\ unclaimedFees(period(1))' = unclaimedFees(period(1))
        /\ unclaimedRewards(period(0))' = unclaimedRewards(period(0))
        /\ unclaimedRewards(period(1))' = unclaimedRewards(period(1))
        /\ period(0).feePeriodId' = period(0).feePeriodId
        /\ period(1).feePeriodId' = period(1).feePeriodId
    BY <1>1, <1>2, FeeGathers
  <2>2. amount > 0 => FeesPromise!Receive
    BY <1>1, <1>2, <2>1 DEF FeesPromise!Receive
  <2>3. amount = 0 => UNCHANGED FeesPromise!vars
    BY <1>1, <1>2, <2>1
  <2>4. UNCHANGED RewardsPromise!vars
    BY <1>2, <2>1
  <2> QED BY <2>1, <2>2, <2>3, <2>4 DEF FeesPromise!Next, IdsAreConsecutive
<1>3. ASSUME NEW amount \in Nat, setRewardsToDistribute(amount)
      PROVE  /\ [FeesPromise!Next]_(FeesPromise!vars)
             /\ [RewardsPromise!Next]_(RewardsPromise!vars)
             /\ IdsAreConsecutive'
  <2>1. /\ unclaimedRewards(period(0))' = unclaimedRewards(period(0)) + amount
        /\ unclaimedRewards(period(1))' = unclaimedRewards(period(1))
        /\ unclaimedFees(period(0))' = unclaimedFees(period(0))
        /\ unclaimedFees(period(1))' = unclaimedFees(period(1))
        /\ period(0).feePeriodId' = period(0).feePeriodId
        /\ period(1).feePeriodId' = period(1).feePeriodId
    BY <1>1, <1>3, RewardGathers
  <2>2. /\ rewardBalance' = rewardBalance + amount
        /\ UNCHANGED <<lastFeeWithdrawal, feeBalance>>
    BY <1>3 DEF setRewardsToDistribute
  <2>3. amount > 0 => RewardsPromise!Receive
    BY <1>1, <2>1, <2>2 DEF RewardsPromise!Receive
  <2>4. amount = 0 => UNCHANGED RewardsPromise!vars
    BY <1>1, <2>1, <2>2
  <2>5. UNCHANGED FeesPromise!vars
    BY <2>1, <2>2
  <2> QED BY <2>1, <2>3, <2>4, <2>5 DEF RewardsPromise!Next, IdsAreConsecutive
<1>4. CASE CloseCurrentFeePeriod
  <2>1. closeCurrentFeePeriod(now) /\ now \in Nat
    BY <1>4 DEF CloseCurrentFeePeriod, StakingInv, IInv, TypeOK
  <2>2. UNCHANGED <<lastFeeWithdrawal, feeBalance, rewardBalance>>
    BY <2>1 DEF closeCurrentFeePeriod
  <2>3. FeesPromise!Close /\ RewardsPromise!Close /\ IdsAreConsecutive'
    BY <1>1, <2>1, <2>2, CloseRollsOver
       DEF FeesPromise!Close, RewardsPromise!Close, IdsAreConsecutive
  <2> QED BY <2>3 DEF FeesPromise!Next, RewardsPromise!Next
<1>5. ASSUME NEW a \in Accounts, ClaimFees(a)
      PROVE  /\ [FeesPromise!Next]_(FeesPromise!vars)
             /\ [RewardsPromise!Next]_(RewardsPromise!vars)
             /\ IdsAreConsecutive'
  <2>1. claimFees(a)
    BY <1>5 DEF ClaimFees
  <2>2. period(1).feePeriodId = period(0).feePeriodId - 1
    BY <1>1 DEF IdsAreConsecutive
  <2>3. FeesPromise!Claim(a)
    BY <2>1, <2>2, ClaimTakes DEF FeesPromise!Claim
  <2>4. RewardsPromise!Claim(a)
    BY <2>1, <2>2, ClaimTakes DEF RewardsPromise!Claim
  <2>5. IdsAreConsecutive'
    BY <2>1, ClaimTakes DEF IdsAreConsecutive
  <2> QED BY <2>3, <2>4, <2>5 DEF FeesPromise!Next, RewardsPromise!Next
<1>6. ASSUME UNCHANGED <<recentFeePeriods, currentFeePeriod, lastFeeWithdrawal,
                         feeBalance, rewardBalance>>
      PROVE  /\ UNCHANGED FeesPromise!vars /\ UNCHANGED RewardsPromise!vars
             /\ IdsAreConsecutive'
  BY <1>6 DEF IdsAreConsecutive, period, slot, unclaimedFees, unclaimedRewards
<1>7. CASE UNCHANGED stakingVars
  BY <1>6, <1>7 DEF stakingVars, feeVars
<1>8. CASE (LiquidationsNext \/ TokenNext \/ EnvironmentNext) /\ UNCHANGED feeVars
  BY <1>6, <1>8 DEF feeVars
<1>9. ASSUME NEW a \in Accounts, ChangeDebt(a)
      PROVE  /\ UNCHANGED FeesPromise!vars /\ UNCHANGED RewardsPromise!vars
             /\ IdsAreConsecutive'
  BY <1>6, <1>9 DEF ChangeDebt
<1>10. CASE FeePoolNext
  <2>1. ASSUME NEW fee \in Fees, PayExchangeFee(fee)
        PROVE  /\ fee \in Nat /\ recordFeePaid(fee) /\ feeBalance' = feeBalance + fee
               /\ UNCHANGED <<currentFeePeriod, lastFeeWithdrawal, rewardBalance>>
    BY <2>1, StakingAssumption DEF PayExchangeFee
  <2>2. ASSUME NEW a \in Accounts, NEW value \in Fees, TransferToFeeAddress(a, value)
        PROVE  /\ value \in Nat /\ recordFeePaid(value)
               /\ feeBalance' = feeBalance + value
               /\ UNCHANGED <<currentFeePeriod, lastFeeWithdrawal, rewardBalance>>
    BY <2>2, StakingAssumption DEF TransferToFeeAddress
  <2>3. ASSUME NEW amount \in Rewards, DistributeRewards(amount)
        PROVE  amount \in Nat /\ setRewardsToDistribute(amount)
    BY <2>3, StakingAssumption DEF DistributeRewards
  <2> QED BY <1>2, <1>3, <1>4, <1>5, <1>10, <2>1, <2>2, <2>3 DEF FeePoolNext
<1> QED BY <1>7, <1>8, <1>9, <1>10 DEF StakingNext

\* The ring of periods implements the promise of FeeDistribution, for the fees
\* and for the rewards: the Issuer with its fee pool refines it.
THEOREM FeesAreDistributed == StakingSpec => Distribution
<1>1. StakingInit => FeesPromise!Init /\ RewardsPromise!Init /\ IdsAreConsecutive
  <2> SUFFICES ASSUME StakingInit
               PROVE  FeesPromise!Init /\ RewardsPromise!Init /\ IdsAreConsecutive
    OBVIOUS
  <2> DEFINE p0 == [EmptyPeriod EXCEPT !.feePeriodId = 1, !.startTime = now]
  <2>1. /\ recentFeePeriods = [i \in Periods |-> IF i = 0 THEN p0 ELSE EmptyPeriod]
        /\ currentFeePeriod = 0
        /\ lastFeeWithdrawal = [a \in Accounts |-> 0]
        /\ feeBalance = 0 /\ rewardBalance = 0
    BY DEF StakingInit, FeePoolInit
  <2>2. 0 \in Periods /\ 1 \in Periods
    BY DEF Periods, FEE_PERIOD_LENGTH
  <2>3. slot(0) = 0 /\ slot(1) = 1
    BY <2>1, <2>2, Slots
  <2>4. period(0) = p0 /\ period(1) = EmptyPeriod
    BY <2>1, <2>2, <2>3 DEF period
  <2>5. /\ p0.feePeriodId = 1
        /\ p0.feesToDistribute = 0 /\ p0.feesClaimed = 0
        /\ p0.rewardsToDistribute = 0 /\ p0.rewardsClaimed = 0
    BY DEF EmptyPeriod
  <2>6. /\ EmptyPeriod.feePeriodId = 0
        /\ EmptyPeriod.feesToDistribute = 0 /\ EmptyPeriod.feesClaimed = 0
        /\ EmptyPeriod.rewardsToDistribute = 0 /\ EmptyPeriod.rewardsClaimed = 0
    BY DEF EmptyPeriod
  <2> HIDE DEF p0
  <2>7. /\ period(0).feePeriodId = 1 /\ period(1).feePeriodId = 0
        /\ unclaimedFees(period(0)) = 0 /\ unclaimedFees(period(1)) = 0
        /\ unclaimedRewards(period(0)) = 0 /\ unclaimedRewards(period(1)) = 0
    BY <2>4, <2>5, <2>6 DEF unclaimedFees, unclaimedRewards
  <2> QED BY <2>1, <2>7 DEF FeesPromise!Init, RewardsPromise!Init, IdsAreConsecutive
<1>2. StakingSpec => []IdsAreConsecutive
  BY <1>1, StakingInvariance, StepIsDistribution, PTL DEF StakingSpec
<1>3. StakingSpec => /\ FeesPromise!Init /\ [][FeesPromise!Next]_(FeesPromise!vars)
                     /\ RewardsPromise!Init /\ [][RewardsPromise!Next]_(RewardsPromise!vars)
  BY <1>1, <1>2, StakingInvariance, StepIsDistribution, PTL DEF StakingSpec
<1> QED BY <1>3 DEF Distribution, FeesPromise!Spec, RewardsPromise!Spec
==============================================================================
