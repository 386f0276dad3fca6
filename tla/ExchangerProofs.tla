--------------------------- MODULE ExchangerProofs ---------------------------
(***************************************************************************)
(* Theorems of the exchanges: types, the waiting period, the circuit       *)
(* breaker, the fees, the value of all synths; and, as long as the oracle  *)
(* deletes no rate, what a settlement pays, that it is final, and that it  *)
(* stays covered.                                                          *)
(***************************************************************************)
EXTENDS Exchanger, SafeDecimalMathProofs, SumProofs
------------------------------------------------------------------------------
(* What a settlement owes. *)

\* The sums of _settlementOwing are sums over the entries of a queue.
LEMMA SumOfAllDef == \A f : sumOfAll(f) = sumOver(f, DOMAIN f)
BY DEF sumOfAll, sumOver

\* A queue has finitely many entries.
LEMMA QueueIsFinite ==
  ASSUME NEW T, NEW q \in Seq(T)
  PROVE  IsFiniteSet(DOMAIN q) /\ DOMAIN q = 1 .. Len(q) /\ Len(q) \in Nat
<1>1. DOMAIN q = 1 .. Len(q) /\ Len(q) \in Nat
  OBVIOUS
<1> QED BY <1>1, FS_Interval

\* The total of amounts is an amount.
LEMMA TotalNat ==
  ASSUME NEW f, IsFiniteSet(DOMAIN f), \A i \in DOMAIN f : f[i] \in Nat
  PROVE  sumOfAll(f) \in Nat
BY SumOfAllDef, SumNat

\* Nothing pending is nothing owed.
LEMMA TotalOfNone ==
  ASSUME NEW f, DOMAIN f = {}
  PROVE  sumOfAll(f) = 0
BY SumOfAllDef, SumEmpty

\* Rates and their times are naturals, also where no round is stored.
LEMMA RateNat ==
  ASSUME RatesTypeOK
  PROVE  \A key \in Currencies :
           /\ \A id : rateAtRound(key, id) \in Nat /\ timestampAtRound(key, id) \in Nat
           /\ currentRound(key) \in Nat
           /\ rateForCurrency(key) \in Nat
           /\ lastRateUpdateTime(key) \in Nat
<1> TAKE key \in Currencies
<1>1. rounds[key] \in Seq(RateAndUpdatedTime)
  BY DEF RatesTypeOK
<1>2. \A id \in DOMAIN rounds[key] : rounds[key][id].rate \in Nat /\ rounds[key][id].time \in Nat
  <2> TAKE id \in DOMAIN rounds[key]
  <2>1. rounds[key][id] \in RateAndUpdatedTime
    BY <1>1
  <2> QED BY <2>1 DEF RateAndUpdatedTime
<1>3. \A id : rateAtRound(key, id) \in Nat /\ timestampAtRound(key, id) \in Nat
  BY <1>2 DEF rateAtRound, timestampAtRound
<1>4. currentRound(key) \in Nat
  BY <1>1 DEF currentRound
<1> QED BY <1>3, <1>4 DEF rateForCurrency, lastRateUpdateTime

\* A conversion at a positive rate gives an amount.
LEMMA ValueNat ==
  ASSUME NEW amount \in Nat, NEW rate \in Nat, NEW toRate \in Nat, toRate > 0
  PROVE  valueAt(amount, rate, toRate) \in Nat
BY MultiplyNat, DivideNat DEF valueAt

\* The fee is a part of the amount: what is left is an amount, and no more.
LEMMA AfterFeeNat ==
  ASSUME NEW amount \in Nat, NEW dest \in Currencies
  PROVE  amountAfterFee(amount, dest) \in Nat /\ amountAfterFee(amount, dest) <= amount
<1> DEFINE part == UNIT - ExchangeFeeRate[dest]
<1>1. part \in Nat /\ part <= UNIT /\ UNIT \in Nat /\ UNIT > 0
  BY ExchangerAssumption, UnitAssumption
<1> HIDE DEF part
<1>2. amount * part \in Nat /\ part * amount = amount * part /\ amount * part <= UNIT * amount
  BY <1>1, MulNat, MulMonotone
<1>3. (amount * part) \div UNIT <= amount
  BY <1>1, <1>2, DivAtMost
<1>4. multiplyDecimal(amount, part) \in Nat
  BY <1>1, MultiplyNat
<1> QED BY <1>3, <1>4 DEF part, amountAfterFee, multiplyDecimal

\* The step of a settlement: what an exchange owes, as long as the rate of its
\* destination at the end of the period is known.
LEMMA EntryOwes ==
  ASSUME RatesTypeOK, NEW dest \in Currencies, NEW entry \in ExchangeEntry,
         destRate(entry, dest) > 0
  PROVE  /\ amountShouldHaveReceived(entry, dest) \in Nat
         /\ reclaimOf(entry, dest) \in Nat /\ reclaimOf(entry, dest) <= entry.amountReceived
         /\ rebateOf(entry, dest) \in Nat
<1>1. /\ entry.src \in Currencies /\ entry.amount \in Nat /\ entry.amountReceived \in Nat
  BY DEF ExchangeEntry
<1>2. srcRate(entry) \in Nat /\ destRate(entry, dest) \in Nat
  BY <1>1, RateNat DEF srcRate, destRate, rateAtPeriodEnd
<1>3. amountShouldHaveReceived(entry, dest) \in Nat
  BY <1>1, <1>2, ValueNat, AfterFeeNat DEF amountShouldHaveReceived
<1> QED BY <1>1, <1>3 DEF reclaimOf, rebateOf

\* What a queue owes is a number of synths whenever it can be computed.
LEMMA OwedNat ==
  ASSUME ExchangerTypeOK, NEW h \in Holders, NEW s \in Currencies, settlementIsDefined(h, s)
  PROVE  reclaimAmount(h, s) \in Nat /\ rebateAmount(h, s) \in Nat
<1> DEFINE q == exchanges[h][s]
<1>1. q \in Seq(ExchangeEntry) /\ RatesTypeOK
  BY DEF ExchangerTypeOK
<1>2. \A i \in DOMAIN q : q[i] \in ExchangeEntry /\ destRate(q[i], s) > 0
  BY <1>1 DEF settlementIsDefined
<1>3. \A i \in DOMAIN q : reclaimOf(q[i], s) \in Nat /\ rebateOf(q[i], s) \in Nat
  BY <1>1, <1>2, EntryOwes
<1>4. IsFiniteSet(DOMAIN q)
  BY <1>1, QueueIsFinite
<1>5. sumOfAll(reclaims(h, s)) \in Nat
  <2>1. /\ DOMAIN reclaims(h, s) = DOMAIN q
        /\ \A i \in DOMAIN q : reclaims(h, s)[i] \in Nat
    BY <1>3 DEF reclaims
  <2> QED BY <1>4, <2>1, TotalNat
<1>6. sumOfAll(rebates(h, s)) \in Nat
  <2>1. /\ DOMAIN rebates(h, s) = DOMAIN q
        /\ \A i \in DOMAIN q : rebates(h, s)[i] \in Nat
    BY <1>3 DEF rebates
  <2> QED BY <1>4, <2>1, TotalNat
<1> QED BY <1>5, <1>6 DEF reclaimAmount, rebateAmount

\* A settlement that does not revert leaves an amount.
LEMMA SettledNat ==
  ASSUME ExchangerTypeOK, NEW h \in Holders, NEW s \in Currencies, canSettle(h, s)
  PROVE  /\ balance[h][s] \in Nat
         /\ balanceAfterSettlement(h, s) \in Nat
<1>1. balance[h][s] \in Nat
  BY DEF ExchangerTypeOK
<1>2. reclaimAmount(h, s) \in Nat /\ rebateAmount(h, s) \in Nat
  BY OwedNat DEF canSettle
<1> QED BY <1>1, <1>2 DEF canSettle, reclaimIsCovered, balanceAfterSettlement

\* So does what an exchange goes on with after it settled its source.
LEMMA AfterSettlementNat ==
  ASSUME ExchangerTypeOK, NEW h \in Holders, NEW s \in Currencies, canSettle(h, s),
         NEW amount \in Nat
  PROVE  amountAfterSettlement(h, s, amount) \in Nat
<1> DEFINE after == balanceAfterSettlement(h, s)
<1>1. after \in Nat /\ balance[h][s] \in Nat
  BY SettledNat
<1> HIDE DEF after
<1>2. after - balance[h][s] \in Int
  BY <1>1
<1>3. Max({after - balance[h][s], 0}) \in Nat
  BY <1>2, MaxMinOfTwo
<1>4. Min({amount, after}) \in Nat
  <2>1. amount \in Int /\ after \in Int
    BY <1>1
  <2> QED BY <1>1, <2>1, MaxMinOfTwo
<1> QED BY <1>3, <1>4 DEF amountAfterSettlement, after
------------------------------------------------------------------------------
(* What the operations do, holder by holder and synth by synth. *)

\* One entry of a table of holders and synths is replaced.
LEMMA EntryReplaced ==
  ASSUME NEW T, NEW b \in [Holders -> [Currencies -> T]],
         NEW h \in Holders, NEW s \in Currencies, NEW v \in T
  PROVE  /\ [b EXCEPT ![h][s] = v] \in [Holders -> [Currencies -> T]]
         /\ \A k \in Holders, t \in Currencies :
              [b EXCEPT ![h][s] = v][k][t] = IF k = h /\ t = s THEN v ELSE b[k][t]
OBVIOUS

\* The same for a table of amounts that is the result of a replacement.
LEMMA AmountReplaced ==
  ASSUME NEW b \in [Holders -> [Currencies -> Nat]], NEW h \in Holders, NEW s \in Currencies,
         NEW v \in Nat, NEW c, c = [b EXCEPT ![h][s] = v]
  PROVE  /\ c \in [Holders -> [Currencies -> Nat]]
         /\ \A k \in Holders, t \in Currencies :
              c[k][t] = IF k = h /\ t = s THEN v ELSE b[k][t]
BY EntryReplaced

\* The accounts and the fee address hold synths; the fees are held in sUSD.
LEMMA HoldersAndSynths ==
  /\ \A a \in Accounts : a \in Holders /\ a # FEE_ADDRESS
  /\ FEE_ADDRESS \in Holders
  /\ "sUSD" \in Currencies
BY ExchangerAssumption, ExchangeRatesAssumption DEF Holders

\* The queue of one holder and synth is settled: emptied, its balance replaced.
SettlesOnly(from, src, left) ==
  /\ \A h \in Holders, s \in Currencies :
       /\ balance'[h][s] = IF h = from /\ s = src THEN left ELSE balance[h][s]
       /\ exchanges'[h][s] = IF h = from /\ s = src THEN <<>> ELSE exchanges[h][s]
  /\ feesRecorded' = feesRecorded

\* The source is settled, burned, the destination issued and the fee paid.
ExchangesInto(from, src, left, to, dest, received, fee, entry) ==
  /\ \A h \in Holders, s \in Currencies :
       /\ balance'[h][s] = (IF h = from /\ s = src THEN left ELSE balance[h][s])
                           + (IF h = to /\ s = dest THEN received ELSE 0)
                           + (IF h = FEE_ADDRESS /\ s = "sUSD" THEN fee ELSE 0)
       /\ exchanges'[h][s] = IF h = from /\ s = src THEN <<>>
                             ELSE IF h = to /\ s = dest THEN Append(exchanges[h][s], entry)
                             ELSE exchanges[h][s]
  /\ feesRecorded' = feesRecorded + fee + (IF to = FEE_ADDRESS THEN received ELSE 0)
  /\ entry \in ExchangeEntry
  /\ entry.src = src /\ entry.amountReceived = received /\ entry.timestamp = now
  /\ entry.roundIdForSrc = currentRound(src) /\ entry.roundIdForDest = currentRound(dest)
  /\ rateForCurrency(src) > 0 /\ rateForCurrency(dest) > 0

ExchangerTables ==
  /\ balance' \in [Holders -> [Currencies -> Nat]]
  /\ exchanges' \in [Holders -> [Currencies -> Seq(ExchangeEntry)]]

\* An exchange settles its source and, unless nothing is left or the breaker
\* trips, goes on with what is left.
LEMMA ExchangeMoves ==
  ASSUME ExchangerTypeOK, NEW from \in Accounts, NEW src \in Currencies, NEW amount \in Nat,
         NEW dest \in Currencies, NEW to \in Holders, exchange(from, src, amount, dest, to)
  PROVE  /\ src # dest /\ canSettle(from, src)
         /\ UNCHANGED <<now, rounds>>
         /\ ExchangerTables
         /\ \/ SettlesOnly(from, src, balanceAfterSettlement(from, src))
            \/ \E left, received, fee \in Nat, entry \in ExchangeEntry :
                 ExchangesInto(from, src, left, to, dest, received, fee, entry)
<1> DEFINE after == balanceAfterSettlement(from, src)
           settled == [balance EXCEPT ![from][src] = after]
           emptied == [exchanges EXCEPT ![from][src] = <<>>]
           left == amountAfterSettlement(from, src, amount)
           gross == valueAt(left, rateForCurrency(src), rateForCurrency(dest))
           received == amountAfterFee(gross, dest)
           fee == feeInSUSD(gross - received, dest)
           entry == [src |-> src, amount |-> left, amountReceived |-> received,
                     timestamp |-> now, roundIdForSrc |-> currentRound(src),
                     roundIdForDest |-> currentRound(dest)]
           burned == [settled EXCEPT ![from][src] = @ - left]
           issued == [burned EXCEPT ![to][dest] = @ + received]
           nothingLeft == exchanges[from][src] # <<>> /\ left = 0
           done == ~nothingLeft /\ ~isSynthRateInvalid(src) /\ ~isSynthRateInvalid(dest)
<1>1. /\ src # dest /\ canSettle(from, src) /\ rateForCurrency(dest) > 0
      /\ UNCHANGED <<now, rounds>>
      /\ \/ /\ balance' = settled
            /\ exchanges' = emptied
            /\ feesRecorded' = feesRecorded
         \/ /\ done
            /\ left <= settled[from][src]
            /\ balance' = [issued EXCEPT ![FEE_ADDRESS]["sUSD"] = @ + fee]
            /\ exchanges' = [emptied EXCEPT ![to][dest] = Append(@, entry)]
            /\ feesRecorded' = feesRecorded + fee + transferredFee(to, left, received)
  BY DEF exchange
<1>2. /\ from \in Holders /\ from # FEE_ADDRESS /\ FEE_ADDRESS \in Holders
      /\ "sUSD" \in Currencies
  BY HoldersAndSynths
<1>3. after \in Nat /\ left \in Nat
  BY <1>1, <1>2, SettledNat, AfterSettlementNat
<1>4. /\ rateForCurrency(src) \in Nat /\ rateForCurrency(dest) \in Nat
      /\ currentRound(src) \in Nat /\ currentRound(dest) \in Nat /\ now \in Nat
  BY RateNat DEF ExchangerTypeOK, RatesTypeOK
<1>5. gross \in Nat /\ received \in Nat /\ received <= gross
  BY <1>1, <1>3, <1>4, ValueNat, AfterFeeNat
<1>6. fee \in Nat
  <2>1. gross - received \in Nat /\ UNIT \in Nat /\ UNIT > 0
    BY <1>5, UnitAssumption
  <2> HIDE DEF gross, received
  <2> QED BY <1>1, <1>4, <2>1, ValueNat DEF feeInSUSD
<1>7. entry \in ExchangeEntry
  <2> HIDE DEF left, received
  <2> QED BY <1>3, <1>4, <1>5 DEF ExchangeEntry
<1>8. /\ balance \in [Holders -> [Currencies -> Nat]]
      /\ exchanges \in [Holders -> [Currencies -> Seq(ExchangeEntry)]]
  BY DEF ExchangerTypeOK
<1>9. done => rateForCurrency(src) > 0
  BY <1>4 DEF isSynthRateInvalid
<1> HIDE DEF after, left, gross, received, fee, entry, done
<1>10. /\ settled \in [Holders -> [Currencies -> Nat]]
       /\ \A h \in Holders, s \in Currencies :
            settled[h][s] = IF h = from /\ s = src THEN after ELSE balance[h][s]
  <2>1. settled \in [Holders -> [Currencies -> Nat]]
    BY <1>2, <1>3, <1>8, EntryReplaced
  <2>2. \A h \in Holders, s \in Currencies :
          settled[h][s] = IF h = from /\ s = src THEN after ELSE balance[h][s]
    BY <1>2, <1>8
  <2> QED BY <2>1, <2>2
<1>11. /\ emptied \in [Holders -> [Currencies -> Seq(ExchangeEntry)]]
       /\ \A h \in Holders, s \in Currencies :
            emptied[h][s] = IF h = from /\ s = src THEN <<>> ELSE exchanges[h][s]
  <2>1. <<>> \in Seq(ExchangeEntry)
    OBVIOUS
  <2>2. emptied \in [Holders -> [Currencies -> Seq(ExchangeEntry)]]
    BY <1>2, <1>8, <2>1, EntryReplaced
  <2>3. \A h \in Holders, s \in Currencies :
          emptied[h][s] = IF h = from /\ s = src THEN <<>> ELSE exchanges[h][s]
    BY <1>2, <1>8
  <2> QED BY <2>2, <2>3
<1> HIDE DEF settled, emptied
<1>12. CASE balance' = settled /\ exchanges' = emptied /\ feesRecorded' = feesRecorded
  BY <1>1, <1>10, <1>11, <1>12 DEF SettlesOnly, ExchangerTables, after
<1>13. CASE /\ done
            /\ left <= settled[from][src]
            /\ balance' = [issued EXCEPT ![FEE_ADDRESS]["sUSD"] = @ + fee]
            /\ exchanges' = [emptied EXCEPT ![to][dest] = Append(@, entry)]
            /\ feesRecorded' = feesRecorded + fee + transferredFee(to, left, received)
  <2>1. settled[from][src] = after /\ left <= after /\ after - left \in Nat
    BY <1>2, <1>3, <1>10, <1>13
  <2>2. burned = [settled EXCEPT ![from][src] = after - left]
    BY <1>2, <1>10, <2>1
  <2>3. /\ burned \in [Holders -> [Currencies -> Nat]]
        /\ \A h \in Holders, s \in Currencies :
             burned[h][s] = IF h = from /\ s = src THEN after - left ELSE balance[h][s]
    <3> HIDE DEF burned
    <3>1. /\ burned \in [Holders -> [Currencies -> Nat]]
          /\ \A h \in Holders, s \in Currencies :
               burned[h][s] = IF h = from /\ s = src THEN after - left ELSE settled[h][s]
      BY <1>2, <1>10, <2>1, <2>2, AmountReplaced
    <3> QED BY <1>10, <3>1
  <2> HIDE DEF burned
  <2>4. burned[to][dest] \in Nat /\ burned[to][dest] + received \in Nat
    BY <1>5, <2>3
  <2>5. issued = [burned EXCEPT ![to][dest] = burned[to][dest] + received]
    BY <2>3
  <2>6. /\ issued \in [Holders -> [Currencies -> Nat]]
        /\ \A h \in Holders, s \in Currencies :
             issued[h][s] = burned[h][s] + (IF h = to /\ s = dest THEN received ELSE 0)
    <3> HIDE DEF issued
    <3>1. /\ issued \in [Holders -> [Currencies -> Nat]]
          /\ \A h \in Holders, s \in Currencies :
               issued[h][s] = IF h = to /\ s = dest THEN burned[to][dest] + received
                              ELSE burned[h][s]
      BY <2>3, <2>4, <2>5, AmountReplaced
    <3>2. \A h \in Holders, s \in Currencies : burned[h][s] \in Nat
      BY <2>3
    <3> QED BY <3>1, <3>2
  <2> HIDE DEF issued
  <2>7. issued[FEE_ADDRESS]["sUSD"] + fee \in Nat
    BY <1>2, <1>6, <2>6
  <2>8. balance' = [issued EXCEPT ![FEE_ADDRESS]["sUSD"] = issued[FEE_ADDRESS]["sUSD"] + fee]
    BY <1>2, <1>13, <2>6
  <2>9. /\ balance' \in [Holders -> [Currencies -> Nat]]
        /\ \A h \in Holders, s \in Currencies :
             balance'[h][s] = issued[h][s] + (IF h = FEE_ADDRESS /\ s = "sUSD" THEN fee ELSE 0)
    <3>1. /\ balance' \in [Holders -> [Currencies -> Nat]]
          /\ \A h \in Holders, s \in Currencies :
               balance'[h][s] = IF h = FEE_ADDRESS /\ s = "sUSD"
                                THEN issued[FEE_ADDRESS]["sUSD"] + fee ELSE issued[h][s]
      BY <1>2, <2>6, <2>7, <2>8, AmountReplaced
    <3>2. \A h \in Holders, s \in Currencies : issued[h][s] \in Nat
      BY <2>6
    <3> QED BY <3>1, <3>2
  <2>10. Append(emptied[to][dest], entry) \in Seq(ExchangeEntry)
    BY <1>7, <1>11
  <2>11. exchanges' = [emptied EXCEPT ![to][dest] = Append(emptied[to][dest], entry)]
    BY <1>11, <1>13
  <2>12. /\ exchanges' \in [Holders -> [Currencies -> Seq(ExchangeEntry)]]
         /\ \A h \in Holders, s \in Currencies :
              exchanges'[h][s] = IF h = to /\ s = dest THEN Append(emptied[to][dest], entry)
                                 ELSE emptied[h][s]
    BY <1>11, <2>10, <2>11, EntryReplaced
  <2>13. \A h \in Holders, s \in Currencies :
           exchanges'[h][s] = IF h = from /\ s = src THEN <<>>
                              ELSE IF h = to /\ s = dest THEN Append(exchanges[h][s], entry)
                              ELSE exchanges[h][s]
    BY <1>1, <1>11, <2>12
  <2>14. \A h \in Holders, s \in Currencies :
           balance'[h][s] = (IF h = from /\ s = src THEN after - left ELSE balance[h][s])
                            + (IF h = to /\ s = dest THEN received ELSE 0)
                            + (IF h = FEE_ADDRESS /\ s = "sUSD" THEN fee ELSE 0)
    BY <2>3, <2>6, <2>9
  <2>15. /\ entry.src = src /\ entry.amountReceived = received /\ entry.timestamp = now
         /\ entry.roundIdForSrc = currentRound(src) /\ entry.roundIdForDest = currentRound(dest)
    BY DEF entry
  <2>16. feesRecorded' = feesRecorded + fee + (IF to = FEE_ADDRESS THEN received ELSE 0)
    BY <1>13 DEF transferredFee
  <2>17. ExchangesInto(from, src, after - left, to, dest, received, fee, entry)
    BY <1>1, <1>7, <1>9, <1>13, <2>13, <2>14, <2>15, <2>16 DEF ExchangesInto
  <2> QED BY <1>1, <1>5, <1>6, <1>7, <2>1, <2>9, <2>12, <2>17 DEF ExchangerTables
<1> QED BY <1>1, <1>12, <1>13 DEF settled, emptied
------------------------------------------------------------------------------
(* Settlements and transfers, holder by holder and synth by synth. *)

\* An amount moves from one holder, who keeps what is left, to another.
MovesTo(from, to, s, left, value) ==
  \A h \in Holders, t \in Currencies :
    balance'[h][t] = IF h = from /\ t = s THEN left
                     ELSE IF h = to /\ t = s THEN balance[h][t] + value
                     ELSE balance[h][t]

Moved(from, to, s, value) ==
  balance' = [balance EXCEPT ![from][s] = @ - value, ![to][s] = @ + value]

\* A settlement empties its queue and pays what it owes.
LEMMA SettleMoves ==
  ASSUME ExchangerTypeOK, NEW h \in Holders, NEW s \in Currencies, Settle(h, s)
  PROVE  /\ canSettle(h, s) /\ UNCHANGED <<now, rounds>>
         /\ ExchangerTables
         /\ SettlesOnly(h, s, balanceAfterSettlement(h, s))
<1> DEFINE after == balanceAfterSettlement(h, s)
<1>1. /\ canSettle(h, s) /\ UNCHANGED <<now, rounds, feesRecorded>>
      /\ balance' = [balance EXCEPT ![h][s] = after]
      /\ exchanges' = [exchanges EXCEPT ![h][s] = <<>>]
  BY DEF Settle
<1>2. after \in Nat
  BY <1>1, SettledNat
<1> HIDE DEF after
<1>3. /\ balance \in [Holders -> [Currencies -> Nat]]
      /\ exchanges \in [Holders -> [Currencies -> Seq(ExchangeEntry)]]
      /\ <<>> \in Seq(ExchangeEntry)
  BY DEF ExchangerTypeOK
<1>4. ExchangerTables
  BY <1>1, <1>2, <1>3, EntryReplaced DEF ExchangerTables
<1>5. SettlesOnly(h, s, after)
  BY <1>1, <1>3 DEF SettlesOnly
<1> QED BY <1>1, <1>4, <1>5 DEF after

\* A transfer moves synths that are not owed, once the waiting period is over.
LEMMA TransferMoves ==
  ASSUME ExchangerTypeOK, NEW from \in Holders, NEW to \in Holders, from # to,
         NEW s \in Currencies, NEW value \in Nat,
         canTransfer(from, s, value), Moved(from, to, s, value)
  PROVE  /\ waitingIsOver(from, s) /\ settlementIsDefined(from, s)
         /\ balance' \in [Holders -> [Currencies -> Nat]]
         /\ MovesTo(from, to, s, balance[from][s] - value, value)
         /\ value = 0 \/ balance[from][s] - value >= reclaimAmount(from, s)
<1>1. /\ waitingIsOver(from, s) /\ settlementIsDefined(from, s)
      /\ value <= transferableSynths(from, s)
  BY DEF canTransfer
<1>2. reclaimAmount(from, s) \in Nat
  BY <1>1, OwedNat
<1>3. /\ balance \in [Holders -> [Currencies -> Nat]]
      /\ balance[from][s] \in Nat /\ balance[to][s] \in Nat
  BY DEF ExchangerTypeOK
<1>4. /\ balance[from][s] - value \in Nat
      /\ value = 0 \/ balance[from][s] - value >= reclaimAmount(from, s)
  BY <1>1, <1>2, <1>3 DEF transferableSynths
<1> DEFINE taken == [balance EXCEPT ![from][s] = balance[from][s] - value]
<1>5. taken \in [Holders -> [Currencies -> Nat]]
  BY <1>3, <1>4, EntryReplaced
<1>6. \A h \in Holders, t \in Currencies :
        taken[h][t] = IF h = from /\ t = s THEN balance[from][s] - value ELSE balance[h][t]
  BY <1>3
<1>7. balance' = [taken EXCEPT ![to][s] = taken[to][s] + value]
  BY DEF Moved
<1> HIDE DEF taken
<1>8. taken[to][s] = balance[to][s] /\ taken[to][s] + value \in Nat
  BY <1>3, <1>6
<1>9. balance' \in [Holders -> [Currencies -> Nat]]
  BY <1>5, <1>7, <1>8, EntryReplaced
<1>10. \A h \in Holders, t \in Currencies :
         balance'[h][t] = IF h = to /\ t = s THEN balance[to][s] + value ELSE taken[h][t]
  BY <1>5, <1>7, <1>8
<1>11. MovesTo(from, to, s, balance[from][s] - value, value)
  BY <1>6, <1>10 DEF MovesTo
<1> QED BY <1>1, <1>4, <1>9, <1>11

\* So does a transfer that settles first.
LEMMA TransferAndSettleMoves ==
  ASSUME ExchangerTypeOK, NEW from \in Holders, NEW to \in Holders, from # to,
         NEW s \in Currencies, NEW value \in Nat, TransferAndSettle(from, to, s, value)
  PROVE  /\ canSettle(from, s) /\ UNCHANGED <<now, rounds, feesRecorded>>
         /\ ExchangerTables
         /\ \E left, moved \in Nat : MovesTo(from, to, s, left, moved)
         /\ exchanges' = [exchanges EXCEPT ![from][s] = <<>>]
<1> DEFINE after == balanceAfterSettlement(from, s)
           moved == IF exchanges[from][s] = <<>> THEN value ELSE Min({value, after})
<1>1. /\ canSettle(from, s) /\ UNCHANGED <<now, rounds, feesRecorded>>
      /\ moved <= after
      /\ balance' = [balance EXCEPT ![from][s] = after - moved, ![to][s] = @ + moved]
      /\ exchanges' = [exchanges EXCEPT ![from][s] = <<>>]
  BY DEF TransferAndSettle
<1>2. after \in Nat /\ value \in Int
  BY <1>1, SettledNat
<1>3. moved \in Nat
  <2> HIDE DEF after
  <2>1. Min({value, after}) \in Nat
    <3>1. after \in Int
      BY <1>2
    <3> QED BY <1>2, <3>1, MaxMinOfTwo
  <2> QED BY <2>1
<1> HIDE DEF after, moved
<1>4. /\ balance \in [Holders -> [Currencies -> Nat]]
      /\ exchanges \in [Holders -> [Currencies -> Seq(ExchangeEntry)]]
      /\ <<>> \in Seq(ExchangeEntry)
      /\ balance[to][s] \in Nat
  BY DEF ExchangerTypeOK
<1>5. after - moved \in Nat
  BY <1>1, <1>2, <1>3
<1> DEFINE taken == [balance EXCEPT ![from][s] = after - moved]
<1>6. taken \in [Holders -> [Currencies -> Nat]]
  BY <1>4, <1>5, EntryReplaced
<1>7. \A h \in Holders, t \in Currencies :
        taken[h][t] = IF h = from /\ t = s THEN after - moved ELSE balance[h][t]
  BY <1>4
<1>8. balance' = [taken EXCEPT ![to][s] = taken[to][s] + moved]
  BY <1>1
<1> HIDE DEF taken
<1>9. taken[to][s] = balance[to][s] /\ taken[to][s] + moved \in Nat
  BY <1>3, <1>4, <1>7
<1>10. balance' \in [Holders -> [Currencies -> Nat]]
  BY <1>6, <1>8, <1>9, EntryReplaced
<1>11. \A h \in Holders, t \in Currencies :
         balance'[h][t] = IF h = to /\ t = s THEN balance[to][s] + moved ELSE taken[h][t]
  BY <1>6, <1>8, <1>9
<1>12. MovesTo(from, to, s, after - moved, moved)
  BY <1>7, <1>11 DEF MovesTo
<1>13. exchanges' \in [Holders -> [Currencies -> Seq(ExchangeEntry)]]
  BY <1>1, <1>4, EntryReplaced
<1> QED BY <1>1, <1>3, <1>5, <1>10, <1>12, <1>13 DEF ExchangerTables
------------------------------------------------------------------------------
(* The invariant: types, and that every pending exchange has a time, which is
   how the code tells an empty queue from one whose period is over.           *)

ExchangerInv ==
  /\ ExchangerTypeOK
  /\ now > 0
  /\ \A h \in Holders, s \in Currencies : \A i \in Pending(h, s) :
       exchanges[h][s][i].timestamp > 0

\* An appended entry comes after the others.
LEMMA Appends ==
  ASSUME NEW T, NEW q \in Seq(T), NEW e \in T
  PROVE  /\ Append(q, e) \in Seq(T)
         /\ DOMAIN Append(q, e) = DOMAIN q \cup {Len(q) + 1}
         /\ Len(q) + 1 \notin DOMAIN q
         /\ Append(q, e)[Len(q) + 1] = e
         /\ \A i \in DOMAIN q : Append(q, e)[i] = q[i]
<1>1. 1 .. Len(q) + 1 = (1 .. Len(q)) \cup {Len(q) + 1}
  OBVIOUS
<1> QED BY <1>1

\* Initially every synth has one round, nothing is exchanged.
LEMMA ExchangerInitEstablishes == ExchangerInit => ExchangerInv
<1> SUFFICES ASSUME ExchangerInit PROVE ExchangerInv
  OBVIOUS
<1>1. StartTime \in Nat /\ StartTime > 0
  BY ExchangeRatesAssumption DEF StartTime
<1>2. RatesTypeOK
  <2>1. \A r \in OracleRates \cup {UNIT} :
          <<[rate |-> r, time |-> StartTime]>> \in Seq(RateAndUpdatedTime)
    BY <1>1, ExchangeRatesAssumption, UnitAssumption DEF RateAndUpdatedTime
  <2>2. rounds \in [Currencies -> Seq(RateAndUpdatedTime)]
    BY <2>1 DEF ExchangerInit, ExchangeRatesInit
  <2> QED BY <1>1, <2>2 DEF RatesTypeOK, ExchangerInit, ExchangeRatesInit
<1>3. balance \in [Holders -> [Currencies -> Nat]]
  BY ExchangerAssumption DEF ExchangerInit
<1>4. exchanges \in [Holders -> [Currencies -> Seq(ExchangeEntry)]]
  <2>1. <<>> \in Seq(ExchangeEntry)
    OBVIOUS
  <2> QED BY <2>1 DEF ExchangerInit
<1>5. lastExchangeRate \in [Currencies -> Nat] /\ suspended = {} /\ feesRecorded \in Nat
  BY DEF ExchangerInit
<1>6. \A h \in Holders, s \in Currencies : Pending(h, s) = {}
  BY DEF ExchangerInit, Pending
<1>7. now > 0
  BY <1>1 DEF ExchangerInit, ExchangeRatesInit
<1> QED BY <1>2, <1>3, <1>4, <1>5, <1>6, <1>7 DEF ExchangerInv, ExchangerTypeOK

\* The types of what an exchange changes besides its balances and queues.
LEMMA ExchangeKeepsTypes ==
  ASSUME ExchangerTypeOK, NEW from \in Accounts, NEW src \in Currencies, NEW amount \in Nat,
         NEW dest \in Currencies, NEW to \in Holders, exchange(from, src, amount, dest, to)
  PROVE  /\ lastExchangeRate' \in [Currencies -> Nat]
         /\ suspended' \subseteq {"System", "Exchange"} \cup Currencies
<1>1. /\ suspended' \subseteq suspended \cup {src, dest}
      /\ \/ lastExchangeRate' = lastExchangeRate
         \/ lastExchangeRate' = [lastExchangeRate EXCEPT ![src] = rateForCurrency(src)]
         \/ lastExchangeRate' = [lastExchangeRate EXCEPT ![src] = rateForCurrency(src),
                                                         ![dest] = rateForCurrency(dest)]
  BY Zenon DEF exchange
<1>2. /\ lastExchangeRate \in [Currencies -> Nat]
      /\ suspended \subseteq {"System", "Exchange"} \cup Currencies
      /\ rateForCurrency(src) \in Nat /\ rateForCurrency(dest) \in Nat
  BY RateNat DEF ExchangerTypeOK
<1> QED BY <1>1, <1>2

\* A step that keeps the entries of the queues, empties some of them and
\* appends to others exchanges of the present, keeps the invariant.
LEMMA QueuesKeepTimes ==
  ASSUME ExchangerInv, ExchangerTypeOK', UNCHANGED now,
         \A h \in Holders, s \in Currencies :
           \/ exchanges'[h][s] = exchanges[h][s]
           \/ exchanges'[h][s] = <<>>
           \/ \E entry \in ExchangeEntry :
                entry.timestamp = now /\ exchanges'[h][s] = Append(exchanges[h][s], entry)
  PROVE  ExchangerInv'
<1>1. ASSUME NEW h \in Holders, NEW s \in Currencies, NEW i \in DOMAIN exchanges'[h][s]
      PROVE  exchanges'[h][s][i].timestamp > 0
  <2>1. /\ exchanges[h][s] \in Seq(ExchangeEntry) /\ now > 0
        /\ \A j \in DOMAIN exchanges[h][s] : exchanges[h][s][j].timestamp > 0
    BY DEF ExchangerInv, ExchangerTypeOK, Pending
  <2>2. CASE exchanges'[h][s] = exchanges[h][s]
    BY <1>1, <2>1, <2>2
  <2>3. CASE exchanges'[h][s] = <<>>
    BY <1>1, <2>3
  <2>4. ASSUME NEW entry \in ExchangeEntry, entry.timestamp = now,
               exchanges'[h][s] = Append(exchanges[h][s], entry)
        PROVE  exchanges'[h][s][i].timestamp > 0
    BY <1>1, <2>1, <2>4, Appends
  <2> QED BY <2>2, <2>3, <2>4
<1>2. now' > 0
  BY DEF ExchangerInv
<1> QED BY <1>1, <1>2 DEF ExchangerInv, Pending
------------------------------------------------------------------------------
(* Every step keeps the invariant. *)

\* An exchange, for the account itself or for the fee address.
LEMMA ExchangeKeepsInv ==
  ASSUME ExchangerInv, NEW from \in Accounts, NEW src \in Currencies, NEW amount \in Nat,
         NEW dest \in Currencies, NEW to \in Holders, exchange(from, src, amount, dest, to)
  PROVE  ExchangerInv'
<1>1. ExchangerTypeOK
  BY DEF ExchangerInv
<1>2. UNCHANGED <<now, rounds>> /\ ExchangerTables
  BY <1>1, ExchangeMoves
<1>3. \/ SettlesOnly(from, src, balanceAfterSettlement(from, src))
      \/ \E left, received, fee \in Nat, entry \in ExchangeEntry :
           ExchangesInto(from, src, left, to, dest, received, fee, entry)
  BY <1>1, ExchangeMoves
<1>4. feesRecorded' \in Nat
  BY <1>1, <1>3 DEF SettlesOnly, ExchangesInto, ExchangerTypeOK
<1>5. ExchangerTypeOK'
  BY <1>1, <1>2, <1>4, ExchangeKeepsTypes DEF ExchangerTypeOK, ExchangerTables, RatesTypeOK
<1>6. ASSUME NEW h \in Holders, NEW s \in Currencies
      PROVE  \/ exchanges'[h][s] = exchanges[h][s]
             \/ exchanges'[h][s] = <<>>
             \/ \E entry \in ExchangeEntry :
                  entry.timestamp = now /\ exchanges'[h][s] = Append(exchanges[h][s], entry)
  <2>1. CASE SettlesOnly(from, src, balanceAfterSettlement(from, src))
    BY <2>1 DEF SettlesOnly
  <2>2. CASE \E left, received, fee \in Nat, entry \in ExchangeEntry :
               ExchangesInto(from, src, left, to, dest, received, fee, entry)
    <3>1. PICK left \in Nat, received \in Nat, fee \in Nat, entry \in ExchangeEntry :
            ExchangesInto(from, src, left, to, dest, received, fee, entry)
      BY <2>2
    <3>2. /\ entry.timestamp = now
          /\ exchanges'[h][s] = IF h = from /\ s = src THEN <<>>
                                ELSE IF h = to /\ s = dest THEN Append(exchanges[h][s], entry)
                                ELSE exchanges[h][s]
      BY <3>1, ZenonT(20) DEF ExchangesInto
    <3> QED BY <3>2
  <2> QED BY <1>3, <2>1, <2>2
<1> QED BY <1>2, <1>5, <1>6, QueuesKeepTimes

\* The amounts that are exchanged and transferred.
LEMMA AmountsNat == \A v \in ExchangeAmounts : v \in Nat
BY ExchangerAssumption

\* The operations of the holders.
LEMMA ExchangerStepKeepsInv ==
  ASSUME ExchangerInv, ExchangerStep
  PROVE  ExchangerInv'
<1> USE AmountsNat, HoldersAndSynths
<1>1. ExchangerTypeOK
  BY DEF ExchangerInv
<1>2. ASSUME NEW a \in Accounts, NEW src \in Currencies, NEW dest \in Currencies,
             NEW amount \in ExchangeAmounts, Exchange(a, src, amount, dest)
      PROVE  ExchangerInv'
  BY <1>2, ExchangeKeepsInv DEF Exchange
<1>3. ASSUME NEW h \in Holders, NEW s \in Currencies, Settle(h, s)
      PROVE  ExchangerInv'
  <2>1. /\ UNCHANGED <<now, rounds>> /\ ExchangerTables
        /\ SettlesOnly(h, s, balanceAfterSettlement(h, s))
    BY <1>1, <1>3, SettleMoves
  <2>2. UNCHANGED <<lastExchangeRate, suspended, feesRecorded>>
    BY <1>3 DEF Settle
  <2>3. ExchangerTypeOK'
    BY <1>1, <2>1, <2>2 DEF ExchangerTypeOK, ExchangerTables, RatesTypeOK
  <2> QED BY <2>1, <2>3, QueuesKeepTimes DEF SettlesOnly
<1>4. ASSUME NEW a \in Accounts, NEW b \in Holders, NEW s \in Currencies,
             NEW value \in ExchangeAmounts, a # b, TransferSynth(a, b, s, value)
      PROVE  ExchangerInv'
  <2>1. /\ canTransfer(a, s, value) /\ Moved(a, b, s, value)
        /\ UNCHANGED <<now, rounds, exchanges, lastExchangeRate, suspended, feesRecorded>>
    BY <1>4 DEF TransferSynth, Moved
  <2>2. balance' \in [Holders -> [Currencies -> Nat]]
    BY <1>1, <1>4, <2>1, TransferMoves
  <2>3. ExchangerTypeOK'
    BY <1>1, <2>1, <2>2 DEF ExchangerTypeOK, RatesTypeOK
  <2> QED BY <2>1, <2>3, QueuesKeepTimes
<1>5. ASSUME NEW a \in Accounts, NEW b \in Holders, NEW s \in Currencies,
             NEW value \in ExchangeAmounts, a # b, TransferAndSettle(a, b, s, value)
      PROVE  ExchangerInv'
  <2>1. /\ UNCHANGED <<now, rounds, feesRecorded>> /\ ExchangerTables
        /\ exchanges' = [exchanges EXCEPT ![a][s] = <<>>]
    BY <1>1, <1>5, TransferAndSettleMoves
  <2>2. UNCHANGED <<lastExchangeRate, suspended>>
    BY <1>5 DEF TransferAndSettle
  <2>3. ExchangerTypeOK'
    BY <1>1, <2>1, <2>2 DEF ExchangerTypeOK, ExchangerTables, RatesTypeOK
  <2>4. \A h \in Holders, t \in Currencies :
          exchanges'[h][t] = exchanges[h][t] \/ exchanges'[h][t] = <<>>
    BY <1>1, <2>1 DEF ExchangerTypeOK
  <2> QED BY <2>1, <2>3, <2>4, QueuesKeepTimes
<1>6. ASSUME NEW a \in Accounts, NEW s \in Currencies, NEW value \in ExchangeAmounts,
             TransferToFeeAddress(a, s, value)
      PROVE  ExchangerInv'
  <2>1. CASE exchange(a, s, value, "sUSD", FEE_ADDRESS)
    BY <2>1, ExchangeKeepsInv
  <2>2. CASE /\ s = "sUSD"
             /\ Moved(a, FEE_ADDRESS, s, value)
             /\ feesRecorded' = feesRecorded + value
             /\ UNCHANGED <<now, rounds, exchanges, lastExchangeRate, suspended>>
    <3>1. balance' \in [Holders -> [Currencies -> Nat]]
      BY <1>1, <1>6, <2>2, TransferMoves DEF TransferToFeeAddress
    <3>2. ExchangerTypeOK'
      BY <1>1, <2>2, <3>1 DEF ExchangerTypeOK, RatesTypeOK
    <3> QED BY <2>2, <3>2, QueuesKeepTimes
  <2> QED BY <1>6, <2>1, <2>2 DEF TransferToFeeAddress, Moved
<1>7. ASSUME NEW s \in Currencies, SuspendSynthWithInvalidRate(s)
      PROVE  ExchangerInv'
  <2>1. /\ UNCHANGED <<now, rounds, balance, exchanges, lastExchangeRate, feesRecorded>>
        /\ suspended' = suspended \cup {s}
    BY <1>7 DEF SuspendSynthWithInvalidRate
  <2>2. ExchangerTypeOK'
    BY <1>1, <2>1 DEF ExchangerTypeOK, RatesTypeOK
  <2> QED BY <2>1, <2>2, QueuesKeepTimes
<1> QED BY <1>2, <1>3, <1>4, <1>5, <1>6, <1>7 DEF ExchangerStep

\* New rates, deleted ones, suspensions and the passing of time.
LEMMA EnvironmentKeepsInv ==
  ASSUME ExchangerInv, UpdateRates \/ DeleteRate \/ UpdateSuspension \/ Tick
  PROVE  ExchangerInv'
<1>1. ExchangerTypeOK /\ RatesTypeOK
  BY DEF ExchangerInv, ExchangerTypeOK
<1>2. CASE UpdateRates
  <2>1. PICK key \in Currencies, newRate \in OracleRates,
             timeSent \in now - MaxDelay .. now + ORACLE_FUTURE_LIMIT :
          timeSent > 0 /\ updateRate(key, newRate, timeSent)
    BY <1>2 DEF UpdateRates
  <2>2. newRate \in Nat /\ timeSent \in Nat
    BY <1>1, <2>1, ExchangeRatesAssumption DEF RatesTypeOK
  <2>3. rounds' = [rounds EXCEPT ![key] = Append(@, [rate |-> newRate, time |-> timeSent])]
    BY <2>1 DEF updateRate
  <2>4. Append(rounds[key], [rate |-> newRate, time |-> timeSent]) \in Seq(RateAndUpdatedTime)
    BY <1>1, <2>2 DEF RatesTypeOK, RateAndUpdatedTime
  <2>5. rounds' \in [Currencies -> Seq(RateAndUpdatedTime)]
    BY <1>1, <2>3, <2>4 DEF RatesTypeOK
  <2>6. UNCHANGED <<now, balance, exchanges, lastExchangeRate, suspended, feesRecorded>>
    BY <1>2 DEF UpdateRates
  <2>7. ExchangerTypeOK'
    BY <1>1, <2>5, <2>6 DEF ExchangerTypeOK, RatesTypeOK
  <2> QED BY <2>6, <2>7, QueuesKeepTimes
<1>3. CASE DeleteRate
  <2>1. PICK key \in Currencies : deleteRate(key)
    BY <1>3, ExchangeRatesAssumption DEF DeleteRate
  <2>2. /\ rounds' = [rounds EXCEPT ![key] = SubSeq(@, 1, currentRound(key) - 1)]
        /\ rateForCurrency(key) > 0
    BY <2>1 DEF deleteRate
  <2>3. SubSeq(rounds[key], 1, Len(rounds[key]) - 1) \in Seq(RateAndUpdatedTime)
    <3>1. rounds[key] \in Seq(RateAndUpdatedTime)
      BY <1>1 DEF RatesTypeOK
    <3>2. \A i \in 1 .. Len(rounds[key]) - 1 : rounds[key][i] \in RateAndUpdatedTime
      BY <3>1
    <3> QED BY <3>1, <3>2
  <2>4. rounds' \in [Currencies -> Seq(RateAndUpdatedTime)]
    BY <1>1, <2>2, <2>3 DEF RatesTypeOK, currentRound
  <2>5. UNCHANGED <<now, balance, exchanges, lastExchangeRate, suspended, feesRecorded>>
    BY <1>3 DEF DeleteRate
  <2>6. ExchangerTypeOK'
    BY <1>1, <2>4, <2>5 DEF ExchangerTypeOK, RatesTypeOK
  <2> QED BY <2>5, <2>6, QueuesKeepTimes
<1>4. CASE UpdateSuspension
  <2>1. UNCHANGED <<now, rounds, balance, exchanges, lastExchangeRate, feesRecorded>>
    BY <1>4 DEF UpdateSuspension
  <2>2. suspended' \subseteq {"System", "Exchange"} \cup Currencies
    BY <1>1, <1>4, ExchangerAssumption DEF UpdateSuspension, ExchangerTypeOK
  <2>3. ExchangerTypeOK'
    BY <1>1, <2>1, <2>2 DEF ExchangerTypeOK, RatesTypeOK
  <2> QED BY <2>1, <2>3, QueuesKeepTimes
<1>5. CASE Tick
  <2>1. /\ now' = now + 1
        /\ UNCHANGED <<rounds, balance, exchanges, lastExchangeRate, suspended, feesRecorded>>
    BY <1>5 DEF Tick
  <2>2. now' \in Nat /\ now' > 0
    BY <1>1, <2>1 DEF RatesTypeOK
  <2>3. ExchangerTypeOK'
    BY <1>1, <2>1, <2>2 DEF ExchangerTypeOK, RatesTypeOK
  <2> QED BY <2>1, <2>2, <2>3 DEF ExchangerInv, Pending
<1> QED BY <1>2, <1>3, <1>4, <1>5

\* Every step keeps the invariant.
LEMMA ExchangerNextPreserves ==
  ExchangerInv /\ [ExchangerNext]_exchangerVars => ExchangerInv'
<1> SUFFICES ASSUME ExchangerInv, [ExchangerNext]_exchangerVars PROVE ExchangerInv'
  OBVIOUS
<1>1. CASE ExchangerStep
  BY <1>1, ExchangerStepKeepsInv
<1>2. CASE UpdateRates \/ DeleteRate \/ UpdateSuspension \/ Tick
  BY <1>2, EnvironmentKeepsInv
<1>3. CASE UNCHANGED exchangerVars
  BY <1>3 DEF exchangerVars, ExchangerInv, ExchangerTypeOK, RatesTypeOK, Pending
<1> QED BY <1>1, <1>2, <1>3 DEF ExchangerNext

(* In every reachable state amounts are naturals: no subtraction of a burn, of
   a fee or of a settlement goes below zero.                                  *)
THEOREM ExchangerInvariance == ExchangerSpec => []ExchangerInv
BY ExchangerInitEstablishes, ExchangerNextPreserves, PTL DEF ExchangerSpec

\* The type invariant of the exchanges.
THEOREM ExchangerTypeCorrect == ExchangerSpec => []ExchangerTypeOK
<1>1. ExchangerInv => ExchangerTypeOK
  BY DEF ExchangerInv
<1> QED BY <1>1, ExchangerInvariance, PTL
------------------------------------------------------------------------------
(* The waiting period. *)

\* Where no waiting period is left, those of all pending exchanges are over.
LEMMA WaitingIsOverForAll ==
  ASSUME ExchangerInv, NEW h \in Holders, NEW s \in Currencies, waitingIsOver(h, s)
  PROVE  \A i \in Pending(h, s) : IsOver(exchanges[h][s][i])
<1> DEFINE q == exchanges[h][s]
           times == [i \in DOMAIN q |-> q[i].timestamp]
           all == {times[i] : i \in 1 .. Len(q)} \cup {0}
<1>1. q \in Seq(ExchangeEntry) /\ now \in Nat /\ WaitingPeriodSecs \in Nat
  BY ExchangerAssumption DEF ExchangerInv, ExchangerTypeOK, RatesTypeOK
<1>2. DOMAIN q = 1 .. Len(q) /\ Len(q) \in Nat
  BY <1>1, QueueIsFinite
<1>3. \A i \in 1 .. Len(q) : times[i] \in Nat /\ times[i] = q[i].timestamp /\ times[i] > 0
  <2> TAKE i \in 1 .. Len(q)
  <2>1. q[i] \in ExchangeEntry
    BY <1>1
  <2>2. q[i].timestamp > 0
    BY <1>2 DEF ExchangerInv, Pending
  <2> QED BY <1>2, <2>1, <2>2 DEF ExchangeEntry
<1>4. getMaxTimestamp(h, s) = Max(all)
  <2>1. {q[i].timestamp : i \in DOMAIN q} = {times[i] : i \in 1 .. Len(q)}
    BY <1>2, <1>3
  <2> QED BY <2>1 DEF getMaxTimestamp
<1> HIDE DEF q, times
<1>5. Max(all) \in Nat /\ \A x \in all : Max(all) >= x
  BY <1>2, <1>3, GreatestOfSequence
<1>6. ASSUME NEW i \in 1 .. Len(q) PROVE now >= q[i].timestamp + WaitingPeriodSecs
  <2>1. Max(all) >= times[i] /\ times[i] > 0 /\ times[i] = q[i].timestamp /\ times[i] \in Nat
    BY <1>3, <1>5, <1>6
  <2>2. Max(all) # 0
    BY <1>5, <2>1
  <2>3. now >= Max(all) + WaitingPeriodSecs
    BY <1>4, <2>2 DEF waitingIsOver
  <2> QED BY <1>1, <1>5, <2>1, <2>3
<1> QED BY <1>2, <1>6 DEF q, Pending, IsOver, PeriodEnd

\* What no step of the holders does: take from a balance that waits.
LEMMA StepsWait ==
  ASSUME ExchangerInv, ExchangerNext, NEW h \in Holders, NEW s \in Currencies,
         balance'[h][s] < balance[h][s]
  PROVE  waitingIsOver(h, s)
<1> USE AmountsNat, HoldersAndSynths
<1>1. ExchangerTypeOK /\ \A k \in Holders, t \in Currencies : balance[k][t] \in Nat
  BY DEF ExchangerInv, ExchangerTypeOK
<1>2. ASSUME NEW a \in Accounts, NEW src \in Currencies, NEW amount \in Nat,
             NEW dest \in Currencies, NEW to \in Holders, exchange(a, src, amount, dest, to)
      PROVE  waitingIsOver(h, s)
  <2>1. canSettle(a, src)
    BY <1>1, <1>2, ExchangeMoves
  <2>2. \/ SettlesOnly(a, src, balanceAfterSettlement(a, src))
        \/ \E left, received, fee \in Nat, entry \in ExchangeEntry :
             ExchangesInto(a, src, left, to, dest, received, fee, entry)
    BY <1>1, <1>2, ExchangeMoves
  <2>3. h = a /\ s = src
    <3>1. CASE SettlesOnly(a, src, balanceAfterSettlement(a, src))
      BY <1>1, <3>1 DEF SettlesOnly
    <3>2. ASSUME NEW left \in Nat, NEW received \in Nat, NEW fee \in Nat,
                 NEW entry \in ExchangeEntry,
                 ExchangesInto(a, src, left, to, dest, received, fee, entry)
          PROVE  h = a /\ s = src
      BY <1>1, <3>2 DEF ExchangesInto
    <3> QED BY <2>2, <3>1, <3>2
  <2> QED BY <2>1, <2>3 DEF canSettle
<1>3. ASSUME NEW a \in Accounts, NEW src \in Currencies, NEW dest \in Currencies,
             NEW amount \in ExchangeAmounts, Exchange(a, src, amount, dest)
      PROVE  waitingIsOver(h, s)
  BY <1>2, <1>3 DEF Exchange
<1>4. ASSUME NEW k \in Holders, NEW t \in Currencies, Settle(k, t)
      PROVE  waitingIsOver(h, s)
  <2>1. canSettle(k, t) /\ SettlesOnly(k, t, balanceAfterSettlement(k, t))
    BY <1>1, <1>4, SettleMoves
  <2>2. h = k /\ s = t
    BY <1>1, <2>1 DEF SettlesOnly
  <2> QED BY <2>1, <2>2 DEF canSettle
<1>5. ASSUME NEW a \in Accounts, NEW b \in Holders, NEW t \in Currencies, a # b,
             NEW value \in ExchangeAmounts, canTransfer(a, t, value), Moved(a, b, t, value)
      PROVE  waitingIsOver(h, s)
  <2>1. waitingIsOver(a, t) /\ MovesTo(a, b, t, balance[a][t] - value, value)
    BY <1>1, <1>5, TransferMoves
  <2>2. h = a /\ s = t
    BY <1>1, <2>1 DEF MovesTo
  <2> QED BY <2>1, <2>2
<1>6. ASSUME NEW a \in Accounts, NEW b \in Holders, NEW t \in Currencies, a # b,
             NEW value \in ExchangeAmounts, TransferAndSettle(a, b, t, value)
      PROVE  waitingIsOver(h, s)
  <2>1. canSettle(a, t) /\ \E left, moved \in Nat : MovesTo(a, b, t, left, moved)
    BY <1>1, <1>6, TransferAndSettleMoves
  <2>2. h = a /\ s = t
    BY <1>1, <2>1 DEF MovesTo
  <2> QED BY <2>1, <2>2 DEF canSettle
<1>7. ASSUME NEW a \in Accounts, NEW t \in Currencies, NEW value \in ExchangeAmounts,
             TransferToFeeAddress(a, t, value)
      PROVE  waitingIsOver(h, s)
  <2>1. CASE exchange(a, t, value, "sUSD", FEE_ADDRESS)
    BY <1>2, <2>1
  <2>2. CASE Moved(a, FEE_ADDRESS, t, value)
    BY <1>5, <1>7, <2>2 DEF TransferToFeeAddress
  <2> QED BY <1>7, <2>1, <2>2 DEF TransferToFeeAddress, Moved
<1>8. CASE ExchangerStep
  <2>1. CASE UNCHANGED balance
    BY <1>1, <2>1
  <2>2. CASE \E a \in Accounts, b \in Holders, t \in Currencies, value \in ExchangeAmounts :
               a # b /\ (TransferSynth(a, b, t, value) \/ TransferAndSettle(a, b, t, value))
    BY <1>5, <1>6, <2>2 DEF TransferSynth, Moved
  <2>3. CASE \E t \in Currencies : SuspendSynthWithInvalidRate(t)
    BY <2>1, <2>3 DEF SuspendSynthWithInvalidRate
  <2> QED BY <1>3, <1>4, <1>7, <1>8, <2>2, <2>3 DEF ExchangerStep
<1>9. CASE UpdateRates \/ DeleteRate \/ UpdateSuspension \/ Tick
  <2>1. UNCHANGED balance
    BY <1>9 DEF UpdateRates, DeleteRate, UpdateSuspension, Tick
  <2> QED BY <1>1, <2>1
<1> QED BY <1>8, <1>9 DEF ExchangerNext

(* Exchanged synths stay where they are until the waiting period of the latest
   exchange into them is over, through every operation on them.               *)
THEOREM FundsWait == ExchangerSpec => FundsStayWhileWaiting
<1>1. ASSUME ExchangerInv, [ExchangerNext]_exchangerVars
      PROVE  [\A h \in Holders, s \in Currencies : balance'[h][s] < balance[h][s] =>
                \A i \in Pending(h, s) : IsOver(exchanges[h][s][i])]_exchangerVars
  BY <1>1, StepsWait, WaitingIsOverForAll
<1> QED BY <1>1, ExchangerInvariance, PTL DEF ExchangerSpec, FundsStayWhileWaiting
------------------------------------------------------------------------------
(* The circuit breaker. *)

\* A quotient of decimals is below a factor only if the dividend is below that
\* many times the divisor.
LEMMA QuotientBelow ==
  ASSUME NEW x \in Nat, NEW y \in Nat, y > 0, NEW k \in Nat, x \div y < k
  PROVE  x < k * y
<1> DEFINE d == x \div y
<1>1. d \in Nat /\ x < y * (d + 1)
  BY DivNat
<1>2. y * (d + 1) <= k * y
  <2> HIDE DEF d
  <2>1. d + 1 <= k /\ d + 1 \in Nat /\ d < k
    BY <1>1 DEF d
  <2>2. (d + 1) * y <= k * y /\ (d + 1) * y = y * (d + 1)
    BY <2>1, MulMonotone
  <2> QED BY <2>2
<1>3. k * y \in Nat /\ y * (d + 1) \in Nat
  BY <1>1, MulNat
<1> QED BY <1>1, <1>2, <1>3

\* Two rates that do not deviate are less than the threshold factor apart.
LEMMA NoDeviation ==
  ASSUME NEW x \in Nat, NEW y \in Nat, ~isDeviationAboveThreshold(x, y)
  PROVE  /\ x > 0 /\ y > 0
         /\ Max({x, y}) * UNIT < PriceDeviationThresholdFactor * Min({x, y})
<1> DEFINE top == Max({x, y})
           low == Min({x, y})
<1>1. x > 0 /\ y > 0 /\ ~(divideDecimal(top, low) >= PriceDeviationThresholdFactor)
  BY DEF isDeviationAboveThreshold
<1>2. top \in Nat /\ low \in Nat /\ low > 0
  <2>1. x \in Int /\ y \in Int
    OBVIOUS
  <2> QED BY <1>1, <2>1, MaxMinOfTwo
<1> HIDE DEF top, low
<1>3. /\ UNIT \in Nat /\ PriceDeviationThresholdFactor \in Nat
      /\ top * UNIT \in Nat /\ divideDecimal(top, low) \in Nat
  BY <1>2, UnitAssumption, ExchangerAssumption, MulNat, DivideNat
<1>4. (top * UNIT) \div low < PriceDeviationThresholdFactor
  BY <1>1, <1>3 DEF divideDecimal
<1>5. top * UNIT < PriceDeviationThresholdFactor * low
  BY <1>2, <1>3, <1>4, QuotientBelow
<1> QED BY <1>1, <1>5 DEF top, low
------------------------------------------------------------------------------
(* The rate an exchange is made at, and the fees. *)

\* A synth's last rate changes to its present one, and only if the breaker does
\* not trip on that.
LEMMA RateIsChecked ==
  ASSUME ExchangerTypeOK, NEW from \in Accounts, NEW src \in Currencies, NEW amount \in Nat,
         NEW dest \in Currencies, NEW to \in Holders, exchange(from, src, amount, dest, to),
         NEW s \in Currencies, lastExchangeRate'[s] # lastExchangeRate[s]
  PROVE  lastExchangeRate'[s] = rateForCurrency(s) /\ ~isSynthRateInvalid(s)
<1>1. lastExchangeRate \in [Currencies -> Nat]
  BY DEF ExchangerTypeOK
<1>2. \/ lastExchangeRate' = lastExchangeRate
      \/ /\ ~isSynthRateInvalid(src)
         /\ lastExchangeRate' = [lastExchangeRate EXCEPT ![src] = rateForCurrency(src)]
      \/ /\ ~isSynthRateInvalid(src) /\ ~isSynthRateInvalid(dest)
         /\ lastExchangeRate' = [lastExchangeRate EXCEPT ![src] = rateForCurrency(src),
                                                         ![dest] = rateForCurrency(dest)]
  BY Zenon DEF exchange
<1> QED BY <1>1, <1>2

\* No step moves the rate of a synth's exchanges by the threshold factor.
LEMMA StepsKeepPrice ==
  ASSUME ExchangerInv, ExchangerNext, NEW s \in Currencies,
         lastExchangeRate'[s] # lastExchangeRate[s]
  PROVE  LET used == {lastExchangeRate[s], lastExchangeRate'[s]}
         IN 0 \in used \/ Max(used) * UNIT < PriceDeviationThresholdFactor * Min(used)
<1> USE AmountsNat, HoldersAndSynths
<1>1. ExchangerTypeOK /\ lastExchangeRate[s] \in Nat /\ rateForCurrency(s) \in Nat
  BY RateNat DEF ExchangerInv, ExchangerTypeOK
<1>2. \E a \in Accounts, src, dest \in Currencies, amount \in Nat, to \in Holders :
        exchange(a, src, amount, dest, to)
  <2>1. CASE ExchangerStep
    <3>1. ASSUME NEW a \in Accounts, NEW src \in Currencies, NEW dest \in Currencies,
                 NEW amount \in ExchangeAmounts, Exchange(a, src, amount, dest)
          PROVE  exchange(a, src, amount, dest, a)
      BY <3>1 DEF Exchange
    <3>2. ASSUME NEW h \in Holders, NEW t \in Currencies, Settle(h, t) PROVE FALSE
      BY <3>2 DEF Settle
    <3>3. ASSUME NEW a, NEW b, NEW t, NEW value,
                 TransferSynth(a, b, t, value) \/ TransferAndSettle(a, b, t, value)
          PROVE  FALSE
      BY <3>3 DEF TransferSynth, TransferAndSettle
    <3>4. ASSUME NEW a \in Accounts, NEW t \in Currencies, NEW value \in ExchangeAmounts,
                 TransferToFeeAddress(a, t, value)
          PROVE  exchange(a, t, value, "sUSD", FEE_ADDRESS)
      BY <3>4 DEF TransferToFeeAddress
    <3>5. ASSUME NEW t \in Currencies, SuspendSynthWithInvalidRate(t) PROVE FALSE
      BY <3>5 DEF SuspendSynthWithInvalidRate
    <3> QED BY <2>1, <3>1, <3>2, <3>3, <3>4, <3>5 DEF ExchangerStep
  <2>2. CASE UpdateRates \/ DeleteRate \/ UpdateSuspension \/ Tick
    BY <2>2 DEF UpdateRates, DeleteRate, UpdateSuspension, Tick
  <2> QED BY <2>1, <2>2 DEF ExchangerNext
<1>3. lastExchangeRate'[s] = rateForCurrency(s) /\ ~isSynthRateInvalid(s)
  BY <1>1, <1>2, RateIsChecked
<1>4. CASE lastExchangeRate[s] = 0
  BY <1>4
<1>5. CASE lastExchangeRate[s] # 0
  <2>1. ~isDeviationAboveThreshold(lastExchangeRate[s], rateForCurrency(s))
    BY <1>1, <1>3, <1>5 DEF isSynthRateInvalid
  <2> QED BY <1>1, <1>3, <2>1, NoDeviation
<1> QED BY <1>4, <1>5

(* The circuit breaker bounds how far the rate of a synth moves from one
   exchange to the next, over any rates reported, and any round deleted, in
   between.                                                                   *)
THEOREM BreakerBounds == ExchangerSpec => BreakerBoundsPriceSteps
<1>1. ASSUME ExchangerInv, [ExchangerNext]_exchangerVars
      PROVE  [\A s \in Currencies :
                LET used == {lastExchangeRate[s], lastExchangeRate'[s]}
                IN 0 \in used \/ Max(used) * UNIT < PriceDeviationThresholdFactor * Min(used)
                   \/ lastExchangeRate'[s] = lastExchangeRate[s]]_exchangerVars
  BY <1>1, StepsKeepPrice
<1> QED BY <1>1, ExchangerInvariance, PTL DEF ExchangerSpec, BreakerBoundsPriceSteps

\* The fees recorded and not held grow by nothing but a settlement of the fee
\* address.
LEMMA StepsHoldFees ==
  ASSUME ExchangerInv, ExchangerNext, Shortfall' > Shortfall
  PROVE  Settled(FEE_ADDRESS, "sUSD")
<1> USE AmountsNat, HoldersAndSynths
<1> DEFINE held == balance[FEE_ADDRESS]["sUSD"]
<1>1. ExchangerTypeOK /\ held \in Nat /\ feesRecorded \in Nat
  BY DEF ExchangerInv, ExchangerTypeOK
<1>2. ASSUME held' \in Int, feesRecorded' \in Int, feesRecorded' - held' <= feesRecorded - held
      PROVE  FALSE
  BY <1>1, <1>2 DEF Shortfall
<1> DEFINE HeldAsRecorded(x) == held' = held + x /\ feesRecorded' = feesRecorded + x
<1>3. ASSUME NEW x \in Nat, HeldAsRecorded(x) PROVE FALSE
  BY <1>1, <1>2, <1>3
<1>4. ASSUME NEW a \in Accounts, NEW src \in Currencies, NEW amount \in Nat,
             NEW dest \in Currencies, NEW to \in Holders, exchange(a, src, amount, dest, to),
             to = a \/ dest = "sUSD"
      PROVE  FALSE
  <2>1. \/ SettlesOnly(a, src, balanceAfterSettlement(a, src))
        \/ \E left, received, fee \in Nat, entry \in ExchangeEntry :
             ExchangesInto(a, src, left, to, dest, received, fee, entry)
    BY <1>1, <1>4, ExchangeMoves
  <2>2. CASE SettlesOnly(a, src, balanceAfterSettlement(a, src))
    BY <1>1, <1>3, <2>2 DEF SettlesOnly
  <2>3. ASSUME NEW left \in Nat, NEW received \in Nat, NEW fee \in Nat, NEW entry \in ExchangeEntry,
               ExchangesInto(a, src, left, to, dest, received, fee, entry)
        PROVE  FALSE
    <3>1. CASE to = FEE_ADDRESS
      <4>1. dest = "sUSD"
        BY <1>4, <3>1
      <4>2. held' = held + received + fee /\ feesRecorded' = feesRecorded + fee + received
        BY <1>1, <2>3, <3>1, <4>1 DEF ExchangesInto
      <4> QED BY <1>1, <1>2, <4>2
    <3>2. CASE to # FEE_ADDRESS
      <4>1. held' = held + 0 + fee /\ feesRecorded' = feesRecorded + fee + 0
        BY <1>1, <2>3, <3>2 DEF ExchangesInto
      <4> QED BY <1>1, <1>3, <4>1
    <3> QED BY <3>1, <3>2
  <2> QED BY <2>1, <2>2, <2>3
<1>5. ASSUME NEW a \in Accounts, NEW src \in Currencies, NEW dest \in Currencies,
             NEW amount \in ExchangeAmounts, Exchange(a, src, amount, dest)
      PROVE  FALSE
  BY <1>4, <1>5 DEF Exchange
<1>6. ASSUME NEW h \in Holders, NEW s \in Currencies, Settle(h, s)
      PROVE  Settled(FEE_ADDRESS, "sUSD")
  <2>1. CASE h = FEE_ADDRESS /\ s = "sUSD"
    BY <1>6, <2>1 DEF Settle, Settled
  <2>2. CASE ~(h = FEE_ADDRESS /\ s = "sUSD")
    <3>1. SettlesOnly(h, s, balanceAfterSettlement(h, s))
      BY <1>1, <1>6, SettleMoves
    <3>2. HeldAsRecorded(0)
      BY <1>1, <2>2, <3>1 DEF SettlesOnly
    <3> QED BY <1>3, <3>2
  <2> QED BY <2>1, <2>2
<1>7. ASSUME NEW a \in Accounts, NEW b \in Holders, NEW s \in Currencies, NEW left, NEW value \in Nat,
             MovesTo(a, b, s, left, value), UNCHANGED feesRecorded
      PROVE  FALSE
  <2>1. held' = held + (IF b = FEE_ADDRESS /\ s = "sUSD" THEN value ELSE 0)
    BY <1>1, <1>7 DEF MovesTo
  <2> QED BY <1>1, <1>2, <1>7, <2>1
<1>8. ASSUME NEW a \in Accounts, NEW b \in Holders, NEW s \in Currencies, a # b,
             NEW value \in ExchangeAmounts, TransferSynth(a, b, s, value)
      PROVE  FALSE
  <2>1. canTransfer(a, s, value) /\ Moved(a, b, s, value) /\ UNCHANGED feesRecorded
    BY <1>8 DEF TransferSynth, Moved
  <2>2. MovesTo(a, b, s, balance[a][s] - value, value)
    BY <1>1, <1>8, <2>1, TransferMoves
  <2> QED BY <1>7, <2>1, <2>2
<1>9. ASSUME NEW a \in Accounts, NEW b \in Holders, NEW s \in Currencies, a # b,
             NEW value \in ExchangeAmounts, TransferAndSettle(a, b, s, value)
      PROVE  FALSE
  BY <1>1, <1>7, <1>9, TransferAndSettleMoves
<1>10. ASSUME NEW a \in Accounts, NEW s \in Currencies, NEW value \in ExchangeAmounts,
              TransferToFeeAddress(a, s, value)
       PROVE  FALSE
  <2>1. CASE exchange(a, s, value, "sUSD", FEE_ADDRESS)
    BY <1>4, <2>1
  <2>2. CASE s = "sUSD" /\ Moved(a, FEE_ADDRESS, s, value) /\ feesRecorded' = feesRecorded + value
    <3>1. MovesTo(a, FEE_ADDRESS, s, balance[a][s] - value, value)
      BY <1>1, <1>10, <2>2, TransferMoves DEF TransferToFeeAddress
    <3>2. HeldAsRecorded(value)
      BY <1>1, <2>2, <3>1 DEF MovesTo
    <3> QED BY <1>3, <3>2
  <2> QED BY <1>10, <2>1, <2>2 DEF TransferToFeeAddress, Moved
<1>11. CASE ExchangerStep
  <2>1. ASSUME NEW s \in Currencies, SuspendSynthWithInvalidRate(s) PROVE FALSE
    <3>1. HeldAsRecorded(0)
      BY <1>1, <2>1 DEF SuspendSynthWithInvalidRate
    <3> QED BY <1>3, <3>1
  <2> QED BY <1>5, <1>6, <1>8, <1>9, <1>10, <1>11, <2>1 DEF ExchangerStep
<1>12. CASE UpdateRates \/ DeleteRate \/ UpdateSuspension \/ Tick
  <2>1. HeldAsRecorded(0)
    BY <1>1, <1>12 DEF UpdateRates, DeleteRate, UpdateSuspension, Tick
  <2> QED BY <1>3, <2>1
<1> QED BY <1>11, <1>12 DEF ExchangerNext

(* Every fee that is recorded is held by the fee address, but for what a
   settlement reclaims from it.                                              *)
THEOREM FeesAreHeld == ExchangerSpec => FeesRecordedAreHeld
<1>1. ASSUME ExchangerInv, [ExchangerNext]_exchangerVars
      PROVE  [Shortfall' > Shortfall => Settled(FEE_ADDRESS, "sUSD")]_exchangerVars
  BY <1>1, StepsHoldFees
<1> QED BY <1>1, ExchangerInvariance, PTL DEF ExchangerSpec, FeesRecordedAreHeld
------------------------------------------------------------------------------
(* Rates that are never deleted. *)

\* Rates are positive, in the order of their times, and every pending exchange
\* was made at rounds that are stored.
RatesInv ==
  /\ \A key \in Currencies :
       /\ Len(rounds[key]) > 0
       /\ \A id \in DOMAIN rounds[key] : rounds[key][id].rate > 0
       /\ \A id, later \in DOMAIN rounds[key] :
            id <= later => rounds[key][id].time <= rounds[key][later].time
  /\ \A h \in Holders, s \in Currencies : \A i \in Pending(h, s) :
       /\ exchanges[h][s][i].roundIdForSrc \in DOMAIN rounds[exchanges[h][s][i].src]
       /\ exchanges[h][s][i].roundIdForDest \in DOMAIN rounds[s]

\* A round is added after the others, with a rate and a later time.
ReportAppended(key, report) ==
  /\ rounds' = [rounds EXCEPT ![key] = Append(@, report)]
  /\ report \in RateAndUpdatedTime
  /\ report.rate > 0
  /\ report.time >= lastRateUpdateTime(key)

\* That is what a report does.
LEMMA ReportAppends ==
  ASSUME ExchangerTypeOK, UpdateRates
  PROVE  /\ \E key \in Currencies, report \in RateAndUpdatedTime : ReportAppended(key, report)
         /\ UNCHANGED <<now, balance, exchanges, lastExchangeRate, suspended, feesRecorded>>
<1>1. PICK key \in Currencies, newRate \in OracleRates,
           timeSent \in now - MaxDelay .. now + ORACLE_FUTURE_LIMIT :
        timeSent > 0 /\ updateRate(key, newRate, timeSent)
  BY DEF UpdateRates
<1>2. newRate \in Nat /\ newRate > 0 /\ timeSent \in Nat
  BY <1>1, ExchangeRatesAssumption DEF RatesTypeOK, ExchangerTypeOK
<1> DEFINE report == [rate |-> newRate, time |-> timeSent]
<1>3. ReportAppended(key, report)
  BY <1>1, <1>2 DEF updateRate, isNotOutdated, RateAndUpdatedTime, ReportAppended
<1>4. report \in RateAndUpdatedTime
  BY <1>2 DEF RateAndUpdatedTime
<1> QED BY <1>3, <1>4 DEF UpdateRates

\* Initially every synth has a rate and nothing is pending.
LEMMA RatesInvInit == ExchangerInit => RatesInv
<1> SUFFICES ASSUME ExchangerInit PROVE RatesInv
  OBVIOUS
<1>1. \A key \in Currencies :
        \E r \in OracleRates \cup {UNIT} : rounds[key] = <<[rate |-> r, time |-> StartTime]>>
  BY DEF ExchangerInit, ExchangeRatesInit
<1>2. StartTime \in Nat /\ \A r \in OracleRates \cup {UNIT} : r \in Nat /\ r > 0
  BY ExchangeRatesAssumption, UnitAssumption DEF StartTime
<1>3. \A key \in Currencies :
        /\ Len(rounds[key]) = 1 /\ DOMAIN rounds[key] = {1}
        /\ rounds[key][1].rate > 0 /\ rounds[key][1].time = StartTime
  <2> TAKE key \in Currencies
  <2>1. PICK r \in OracleRates \cup {UNIT} : rounds[key] = <<[rate |-> r, time |-> StartTime]>>
    BY <1>1
  <2> QED BY <1>2, <2>1
<1>4. \A h \in Holders, s \in Currencies : Pending(h, s) = {}
  BY DEF ExchangerInit, Pending
<1> QED BY <1>2, <1>3, <1>4 DEF RatesInv

\* An appended report keeps the order of the rounds.
LEMMA ReportKeepsRates ==
  ASSUME ExchangerTypeOK, RatesInv, UNCHANGED exchanges,
         NEW key \in Currencies, NEW report \in RateAndUpdatedTime, ReportAppended(key, report)
  PROVE  RatesInv'
<1> DEFINE n == Len(rounds[key])
<1>1. /\ rounds[key] \in Seq(RateAndUpdatedTime) /\ rounds \in [Currencies -> Seq(RateAndUpdatedTime)]
      /\ report.rate \in Nat /\ report.time \in Nat
  BY DEF ExchangerTypeOK, RatesTypeOK, RateAndUpdatedTime
<1>2. /\ rounds'[key] = Append(rounds[key], report)
      /\ \A k \in Currencies : k # key => rounds'[k] = rounds[k]
  BY <1>1 DEF ReportAppended
<1>3. /\ DOMAIN rounds'[key] = DOMAIN rounds[key] \cup {n + 1} /\ n + 1 \notin DOMAIN rounds[key]
      /\ rounds'[key][n + 1] = report
      /\ \A i \in DOMAIN rounds[key] : rounds'[key][i] = rounds[key][i]
      /\ Len(rounds'[key]) = n + 1 /\ DOMAIN rounds[key] = 1 .. n /\ n \in Nat /\ n > 0
  BY <1>1, <1>2, Appends DEF RatesInv
<1>4. \A i \in 1 .. n : rounds[key][i].time \in Nat /\ rounds[key][i].time <= report.time
  <2> TAKE i \in 1 .. n
  <2>1. rounds[key][i] \in RateAndUpdatedTime /\ rounds[key][n] \in RateAndUpdatedTime
    BY <1>1, <1>3
  <2>2. rounds[key][i].time <= rounds[key][n].time
    BY <1>3 DEF RatesInv
  <2>3. rounds[key][n].time <= report.time
    BY <1>3 DEF ReportAppended, lastRateUpdateTime, timestampAtRound, currentRound
  <2> QED BY <1>1, <2>1, <2>2, <2>3 DEF RateAndUpdatedTime
<1>5. ASSUME NEW k \in Currencies
      PROVE  /\ Len(rounds'[k]) > 0
             /\ \A id \in DOMAIN rounds'[k] : rounds'[k][id].rate > 0
             /\ \A id, later \in DOMAIN rounds'[k] :
                  id <= later => rounds'[k][id].time <= rounds'[k][later].time
             /\ DOMAIN rounds[k] \subseteq DOMAIN rounds'[k]
  <2>1. CASE k # key
    BY <1>2, <2>1 DEF RatesInv
  <2>2. CASE k = key
    <3>1. \A id \in DOMAIN rounds'[key] : rounds'[key][id].rate > 0
      BY <1>3 DEF RatesInv, ReportAppended
    <3>2. \A id, later \in DOMAIN rounds'[key] :
            id <= later => rounds'[key][id].time <= rounds'[key][later].time
      <4>1. \A id, later \in 1 .. n :
              id <= later => rounds'[key][id].time <= rounds'[key][later].time
        BY <1>3 DEF RatesInv
      <4>2. \A id \in 1 .. n : rounds'[key][id].time <= rounds'[key][n + 1].time
        BY <1>3, <1>4
      <4>3. rounds'[key][n + 1].time <= rounds'[key][n + 1].time
        BY <1>1, <1>3
      <4>4. \A id \in 1 .. n : ~(n + 1 <= id)
        BY <1>3
      <4> HIDE DEF n
      <4> QED BY <1>3, <4>1, <4>2, <4>3, <4>4
    <3> QED BY <1>3, <2>2, <3>1, <3>2
  <2> QED BY <2>1, <2>2
<1>6. ASSUME NEW h \in Holders, NEW s \in Currencies, NEW i \in DOMAIN exchanges[h][s]
      PROVE  /\ exchanges[h][s][i].roundIdForSrc \in DOMAIN rounds'[exchanges[h][s][i].src]
             /\ exchanges[h][s][i].roundIdForDest \in DOMAIN rounds'[s]
  <2>1. exchanges[h][s][i] \in ExchangeEntry
    BY DEF ExchangerTypeOK
  <2>2. exchanges[h][s][i].src \in Currencies
    BY <2>1 DEF ExchangeEntry
  <2> QED BY <1>5, <2>2 DEF RatesInv, Pending
<1> QED BY <1>5, <1>6 DEF RatesInv, Pending
------------------------------------------------------------------------------
(* The pending exchanges stay with rounds that are stored. *)

\* What a step of the holders does to a queue: nothing, empty it, or append an
\* exchange made at the present rounds.
QueueStep(h, s) ==
  \/ exchanges'[h][s] = exchanges[h][s]
  \/ exchanges'[h][s] = <<>>
  \/ \E entry \in ExchangeEntry :
       /\ exchanges'[h][s] = Append(exchanges[h][s], entry)
       /\ entry.roundIdForSrc = currentRound(entry.src)
       /\ entry.roundIdForDest = currentRound(s)

\* An exchange does that to every queue.
LEMMA ExchangeQueues ==
  ASSUME ExchangerTypeOK, NEW from \in Accounts, NEW src \in Currencies, NEW amount \in Nat,
         NEW dest \in Currencies, NEW to \in Holders, exchange(from, src, amount, dest, to),
         NEW h \in Holders, NEW s \in Currencies
  PROVE  QueueStep(h, s)
<1>1. \/ SettlesOnly(from, src, balanceAfterSettlement(from, src))
      \/ \E left, received, fee \in Nat, entry \in ExchangeEntry :
           ExchangesInto(from, src, left, to, dest, received, fee, entry)
  BY ExchangeMoves
<1>2. CASE SettlesOnly(from, src, balanceAfterSettlement(from, src))
  BY <1>2 DEF SettlesOnly, QueueStep
<1>3. ASSUME NEW left \in Nat, NEW received \in Nat, NEW fee \in Nat, NEW entry \in ExchangeEntry,
             ExchangesInto(from, src, left, to, dest, received, fee, entry)
      PROVE  QueueStep(h, s)
  <2>1. /\ exchanges'[h][s] = IF h = from /\ s = src THEN <<>>
                              ELSE IF h = to /\ s = dest THEN Append(exchanges[h][s], entry)
                              ELSE exchanges[h][s]
        /\ entry.src = src /\ entry.roundIdForSrc = currentRound(src)
        /\ entry.roundIdForDest = currentRound(dest)
    BY <1>3, ZenonT(20) DEF ExchangesInto
  <2>2. CASE h = from /\ s = src
    BY <2>1, <2>2 DEF QueueStep
  <2>3. CASE ~(h = from /\ s = src) /\ h = to /\ s = dest
    BY <2>1, <2>3 DEF QueueStep
  <2>4. CASE ~(h = from /\ s = src) /\ ~(h = to /\ s = dest)
    BY <2>1, <2>4 DEF QueueStep
  <2> QED BY <2>2, <2>3, <2>4
<1> QED BY <1>1, <1>2, <1>3

\* The operations of the holders do that to every queue, at the same rounds.
LEMMA StepsQueue ==
  ASSUME ExchangerTypeOK, ExchangerStep
  PROVE  UNCHANGED <<now, rounds>> /\ \A h \in Holders, s \in Currencies : QueueStep(h, s)
<1> USE AmountsNat, HoldersAndSynths
<1> DEFINE Goal == UNCHANGED <<now, rounds>> /\ \A h \in Holders, s \in Currencies : QueueStep(h, s)
<1>1. ASSUME NEW a \in Accounts, NEW src \in Currencies, NEW amount \in Nat,
             NEW dest \in Currencies, NEW to \in Holders, exchange(a, src, amount, dest, to)
      PROVE  Goal
  BY <1>1, ExchangeQueues, ExchangeMoves
<1>2. ASSUME NEW a \in Accounts, NEW src \in Currencies, NEW dest \in Currencies,
             NEW amount \in ExchangeAmounts, Exchange(a, src, amount, dest)
      PROVE  Goal
  BY <1>1, <1>2 DEF Exchange
<1>3. ASSUME NEW h \in Holders, NEW s \in Currencies, Settle(h, s) PROVE Goal
  BY <1>3, SettleMoves DEF SettlesOnly, QueueStep
<1>4. CASE UNCHANGED <<now, rounds, exchanges>>
  BY <1>4 DEF QueueStep
<1>5. ASSUME NEW a \in Accounts, NEW b \in Holders, NEW s \in Currencies, a # b,
             NEW value \in ExchangeAmounts, TransferAndSettle(a, b, s, value)
      PROVE  Goal
  <2>1. UNCHANGED <<now, rounds>> /\ exchanges' = [exchanges EXCEPT ![a][s] = <<>>]
    BY <1>5, TransferAndSettleMoves
  <2>2. \A h \in Holders, t \in Currencies :
          exchanges'[h][t] = exchanges[h][t] \/ exchanges'[h][t] = <<>>
    BY <2>1 DEF ExchangerTypeOK
  <2> QED BY <2>1, <2>2 DEF QueueStep
<1>6. ASSUME NEW a, NEW b, NEW s, NEW value, TransferSynth(a, b, s, value) PROVE Goal
  BY <1>4, <1>6 DEF TransferSynth
<1>7. ASSUME NEW a \in Accounts, NEW s \in Currencies, NEW value \in ExchangeAmounts,
             TransferToFeeAddress(a, s, value)
      PROVE  Goal
  <2>1. CASE exchange(a, s, value, "sUSD", FEE_ADDRESS)
    BY <1>1, <2>1
  <2>2. CASE ~exchange(a, s, value, "sUSD", FEE_ADDRESS)
    BY <1>4, <1>7, <2>2 DEF TransferToFeeAddress
  <2> QED BY <2>1, <2>2
<1>8. ASSUME NEW s, SuspendSynthWithInvalidRate(s) PROVE Goal
  BY <1>4, <1>8 DEF SuspendSynthWithInvalidRate
<1> HIDE DEF Goal
<1>9. Goal
  BY <1>2, <1>3, <1>5, <1>6, <1>7, <1>8 DEF ExchangerStep
<1> QED BY <1>9 DEF Goal

\* So pending exchanges keep rounds that are stored.
LEMMA StepsKeepRates ==
  ASSUME ExchangerTypeOK, RatesInv, ExchangerStep
  PROVE  RatesInv'
<1>1. rounds' = rounds /\ \A h \in Holders, s \in Currencies : QueueStep(h, s)
  BY StepsQueue
<1>2. \A key \in Currencies : currentRound(key) \in DOMAIN rounds[key]
  <2> TAKE key \in Currencies
  <2>1. rounds[key] \in Seq(RateAndUpdatedTime) /\ Len(rounds[key]) > 0
    BY DEF ExchangerTypeOK, RatesTypeOK, RatesInv
  <2> QED BY <2>1 DEF currentRound
<1>3. ASSUME NEW h \in Holders, NEW s \in Currencies, NEW i \in DOMAIN exchanges'[h][s]
      PROVE  /\ exchanges'[h][s][i].roundIdForSrc \in DOMAIN rounds[exchanges'[h][s][i].src]
             /\ exchanges'[h][s][i].roundIdForDest \in DOMAIN rounds[s]
  <2>1. /\ exchanges[h][s] \in Seq(ExchangeEntry)
        /\ \A j \in DOMAIN exchanges[h][s] :
             /\ exchanges[h][s][j].roundIdForSrc \in DOMAIN rounds[exchanges[h][s][j].src]
             /\ exchanges[h][s][j].roundIdForDest \in DOMAIN rounds[s]
    BY DEF ExchangerTypeOK, RatesInv, Pending
  <2>2. CASE exchanges'[h][s] = exchanges[h][s]
    BY <1>3, <2>1, <2>2
  <2>3. CASE exchanges'[h][s] = <<>>
    BY <1>3, <2>3
  <2>4. ASSUME NEW entry \in ExchangeEntry,
               exchanges'[h][s] = Append(exchanges[h][s], entry),
               entry.roundIdForSrc = currentRound(entry.src),
               entry.roundIdForDest = currentRound(s)
        PROVE  /\ exchanges'[h][s][i].roundIdForSrc \in DOMAIN rounds[exchanges'[h][s][i].src]
               /\ exchanges'[h][s][i].roundIdForDest \in DOMAIN rounds[s]
    <3>1. entry.src \in Currencies
      BY DEF ExchangeEntry
    <3>2. CASE i \in DOMAIN exchanges[h][s]
      BY <2>1, <2>4, <3>2, Appends
    <3>3. CASE i = Len(exchanges[h][s]) + 1
      BY <1>2, <2>1, <2>4, <3>1, <3>3, Appends
    <3> QED BY <1>3, <2>1, <2>4, <3>2, <3>3, Appends
  <2> QED BY <1>1, <2>2, <2>3, <2>4 DEF QueueStep
<1>4. \A key \in Currencies :
        /\ Len(rounds'[key]) > 0
        /\ \A id \in DOMAIN rounds'[key] : rounds'[key][id].rate > 0
        /\ \A id, later \in DOMAIN rounds'[key] :
             id <= later => rounds'[key][id].time <= rounds'[key][later].time
  BY <1>1 DEF RatesInv
<1> QED BY <1>1, <1>3, <1>4 DEF RatesInv, Pending

\* Where the oracle deletes no rate, every step keeps the rates in order.
LEMMA RatesInvNext ==
  ASSUME Deletable = {}
  PROVE  ExchangerInv /\ RatesInv /\ [ExchangerNext]_exchangerVars => RatesInv'
<1> SUFFICES ASSUME ExchangerInv, RatesInv, [ExchangerNext]_exchangerVars PROVE RatesInv'
  OBVIOUS
<1>1. ExchangerTypeOK
  BY DEF ExchangerInv
<1>2. CASE ExchangerStep
  BY <1>1, <1>2, StepsKeepRates
<1>3. CASE UpdateRates
  BY <1>1, <1>3, ReportAppends, ReportKeepsRates
<1>4. CASE DeleteRate
  BY <1>4 DEF DeleteRate
<1>5. CASE UNCHANGED <<rounds, exchanges>>
  BY <1>5 DEF RatesInv, Pending
<1>6. CASE UpdateSuspension \/ Tick \/ UNCHANGED exchangerVars
  BY <1>5, <1>6 DEF UpdateSuspension, Tick, exchangerVars
<1> QED BY <1>2, <1>3, <1>4, <1>6 DEF ExchangerNext

\* Both invariants hold where no rate is deleted.
THEOREM RatesStayInOrder ==
  ASSUME Deletable = {}
  PROVE  ExchangerSpec => [](ExchangerInv /\ RatesInv)
<1>1. ExchangerInit => ExchangerInv /\ RatesInv
  BY ExchangerInitEstablishes, RatesInvInit
<1>2. (ExchangerInv /\ RatesInv) /\ [ExchangerNext]_exchangerVars => (ExchangerInv /\ RatesInv)'
  BY ExchangerNextPreserves, RatesInvNext
<1> QED BY <1>1, <1>2, PTL DEF ExchangerSpec
------------------------------------------------------------------------------
(* The rate at the end of a waiting period. *)

\* The rounds that the walk of a settlement reaches.
Reached(key, start, end) ==
  {id \in start .. currentRound(key) :
     \A next \in start + 1 .. id : timestampAtRound(key, next) <= end} \cup {start}

\* The walk ends at a stored round, which has a rate.
LEMMA WalkEndsAtRate ==
  ASSUME ExchangerTypeOK, RatesInv, NEW key \in Currencies, NEW start \in DOMAIN rounds[key], NEW end
  PROVE  /\ Max(Reached(key, start, end)) \in Reached(key, start, end)
         /\ \A id \in Reached(key, start, end) : Max(Reached(key, start, end)) >= id
         /\ Max(Reached(key, start, end)) \in DOMAIN rounds[key]
         /\ rateAtRound(key, Max(Reached(key, start, end))) > 0
<1> DEFINE n == Len(rounds[key])
           R == Reached(key, start, end)
<1>1. /\ rounds[key] \in Seq(RateAndUpdatedTime) /\ n \in Nat /\ DOMAIN rounds[key] = 1 .. n
      /\ start \in 1 .. n
  BY DEF ExchangerTypeOK, RatesTypeOK
<1>2. R \in SUBSET (start .. n) /\ R # {}
  BY <1>1 DEF Reached, currentRound
<1> HIDE DEF R, n
<1>3. R \in SUBSET (0 .. n) /\ R \in SUBSET (1 .. n)
  BY <1>1, <1>2
<1>4. Max(R) \in R /\ \A id \in R : Max(R) >= id
  BY <1>1, <1>2, <1>3, BoundedHasMax
<1>5. Max(R) \in DOMAIN rounds[key]
  BY <1>1, <1>3, <1>4
<1> QED BY <1>4, <1>5 DEF R, RatesInv, rateAtRound

\* The settlement's rate is that of the round where the walk ends.
LEMMA RateOfWalk ==
  \A key, start, entry :
    rateAtPeriodEnd(key, start, entry)
    = rateAtRound(key, Max(Reached(key, start, PeriodEnd(entry))))
BY DEF rateAtPeriodEnd, getLastRoundIdBeforeElapsedSecs, Reached, PeriodEnd

\* The rounds up to the last but one.
LEMMA IntervalWithoutEnd ==
  ASSUME NEW n \in Nat, NEW start \in 1 .. n
  PROVE  \A id : id \in start .. n <=> id \in start .. n + 1 /\ id # n + 1
OBVIOUS

\* A report dated after the end of the period adds nothing to the walk.
LEMMA LateReportIsNotReached ==
  ASSUME ExchangerTypeOK, RatesInv, NEW key \in Currencies, NEW start \in DOMAIN rounds[key],
         NEW end \in Nat, NEW report \in RateAndUpdatedTime,
         rounds'[key] = Append(rounds[key], report), report.time > end
  PROVE  /\ Reached(key, start, end)' = Reached(key, start, end)
         /\ \A id \in DOMAIN rounds[key] : rateAtRound(key, id)' = rateAtRound(key, id)
<1>0. PICK n \in Nat : n = Len(rounds[key])
  BY DEF ExchangerTypeOK, RatesTypeOK
<1>1. /\ rounds[key] \in Seq(RateAndUpdatedTime) /\ DOMAIN rounds[key] = 1 .. n
      /\ start \in 1 .. n
  BY <1>0 DEF ExchangerTypeOK, RatesTypeOK
<1>2. /\ DOMAIN rounds'[key] = 1 .. n + 1 /\ Len(rounds'[key]) = n + 1
      /\ rounds'[key][n + 1] = report
      /\ \A i \in 1 .. n : rounds'[key][i] = rounds[key][i]
  BY <1>0, <1>1, Appends
<1>3. /\ \A i \in 1 .. n : /\ timestampAtRound(key, i)' = timestampAtRound(key, i)
                           /\ rateAtRound(key, i)' = rateAtRound(key, i)
      /\ timestampAtRound(key, n + 1)' = report.time
      /\ currentRound(key) = n /\ currentRound(key)' = n + 1
  BY <1>0, <1>1, <1>2 DEF timestampAtRound, rateAtRound, currentRound
<1>4. ~(report.time <= end)
  BY DEF RateAndUpdatedTime
<1>5. ASSUME NEW id \in start .. n + 1
      PROVE  (\A next \in start + 1 .. id : timestampAtRound(key, next)' <= end)
             <=> /\ id # n + 1
                 /\ \A next \in start + 1 .. id : timestampAtRound(key, next) <= end
  <2>1. CASE id = n + 1
    <3>1. n + 1 \in start + 1 .. id
      BY <1>1, <2>1
    <3>2. ~(timestampAtRound(key, n + 1)' <= end)
      BY <1>3, <1>4
    <3> QED BY <2>1, <3>1, <3>2
  <2>2. CASE id # n + 1
    <3>1. \A next \in start + 1 .. id : next \in 1 .. n
      BY <1>1, <1>5, <2>2
    <3> QED BY <1>3, <2>2, <3>1
  <2> QED BY <2>1, <2>2
<1>6. \A id : id \in start .. n <=> id \in start .. n + 1 /\ id # n + 1
  BY <1>1, IntervalWithoutEnd
<1>7. Reached(key, start, end)' = Reached(key, start, end)
  <2>1. Reached(key, start, end)'
        = {id \in start .. n + 1 :
             \A next \in start + 1 .. id : timestampAtRound(key, next)' <= end} \cup {start}
    BY <1>3 DEF Reached
  <2>2. Reached(key, start, end)
        = {id \in start .. n :
             \A next \in start + 1 .. id : timestampAtRound(key, next) <= end} \cup {start}
    BY <1>3 DEF Reached
  <2> QED BY <1>5, <1>6, <2>1, <2>2
<1> QED BY <1>1, <1>3, <1>7
------------------------------------------------------------------------------
(* What is owed is final. *)

\* A report that is too late for the period of an exchange changes no rate that
\* its settlement uses.
LEMMA RateIsFinal ==
  ASSUME ExchangerTypeOK, RatesInv,
         NEW key \in Currencies, NEW report \in RateAndUpdatedTime, ReportAppended(key, report),
         NEW entry \in ExchangeEntry, report.time > PeriodEnd(entry),
         NEW k \in Currencies, NEW start \in DOMAIN rounds[k]
  PROVE  rateAtPeriodEnd(k, start, entry)' = rateAtPeriodEnd(k, start, entry)
<1>1. PICK end \in Nat : end = PeriodEnd(entry)
  BY ExchangerAssumption DEF ExchangeEntry, PeriodEnd
<1>2. rounds'[key] = Append(rounds[key], report) /\ (k # key => rounds'[k] = rounds[k])
  BY DEF ReportAppended, ExchangerTypeOK, RatesTypeOK
<1>3. PICK m : m = Max(Reached(k, start, end))
  OBVIOUS
<1>4. m \in DOMAIN rounds[k]
  BY <1>3, WalkEndsAtRate
<1>5. /\ Reached(k, start, end)' = Reached(k, start, end)
      /\ rateAtRound(k, m)' = rateAtRound(k, m)
  <2>1. CASE k # key
    BY <1>2, <2>1 DEF Reached, timestampAtRound, currentRound, rateAtRound
  <2>2. CASE k = key
    BY <1>1, <1>2, <1>4, <2>2, LateReportIsNotReached
  <2> QED BY <2>1, <2>2
<1>6. Max(Reached(k, start, end))' = m
  BY <1>3, <1>5
<1>7. rateAtPeriodEnd(k, start, entry)' = rateAtRound(k, Max(Reached(k, start, end)))'
  BY <1>1 DEF rateAtPeriodEnd, getLastRoundIdBeforeElapsedSecs, Reached, PeriodEnd
<1>8. rateAtRound(k, Max(Reached(k, start, end)))' = rateAtRound(k, m)'
  BY <1>6 DEF rateAtRound
<1> QED BY <1>1, <1>3, <1>5, <1>7, <1>8, RateOfWalk
------------------------------------------------------------------------------
(* Final settlements. *)

\* What a settlement uses of a pending exchange, where no rate is deleted.
LEMMA PendingEntry ==
  ASSUME ExchangerTypeOK, RatesInv, NEW h \in Holders, NEW s \in Currencies, NEW i \in Pending(h, s)
  PROVE  /\ exchanges[h][s][i] \in ExchangeEntry
         /\ exchanges[h][s][i].src \in Currencies
         /\ exchanges[h][s][i].roundIdForSrc \in DOMAIN rounds[exchanges[h][s][i].src]
         /\ exchanges[h][s][i].roundIdForDest \in DOMAIN rounds[s]
<1>1. exchanges[h][s][i] \in ExchangeEntry
  BY DEF ExchangerTypeOK, Pending
<1> QED BY <1>1 DEF ExchangeEntry, RatesInv

\* Its rates are known: what it owes is an amount, and no more than it brought.
LEMMA PendingOwes ==
  ASSUME ExchangerTypeOK, RatesInv, NEW h \in Holders, NEW s \in Currencies, NEW i \in Pending(h, s)
  PROVE  LET entry == exchanges[h][s][i]
         IN /\ destRate(entry, s) > 0
            /\ amountShouldHaveReceived(entry, s) \in Nat
            /\ reclaimOf(entry, s) \in Nat /\ reclaimOf(entry, s) <= entry.amountReceived
            /\ rebateOf(entry, s) \in Nat
            /\ entry.amountReceived \in Nat
<1> DEFINE entry == exchanges[h][s][i]
<1>1. /\ entry \in ExchangeEntry /\ entry.roundIdForDest \in DOMAIN rounds[s]
  BY PendingEntry
<1>2. rateAtRound(s, Max(Reached(s, entry.roundIdForDest, PeriodEnd(entry)))) > 0
  BY <1>1, WalkEndsAtRate
<1>3. destRate(entry, s) > 0
  BY <1>2, RateOfWalk DEF destRate
<1>4. RatesTypeOK /\ entry.amountReceived \in Nat
  BY <1>1 DEF ExchangerTypeOK, ExchangeEntry
<1> HIDE DEF entry
<1>5. /\ amountShouldHaveReceived(entry, s) \in Nat
      /\ reclaimOf(entry, s) \in Nat /\ reclaimOf(entry, s) <= entry.amountReceived
      /\ rebateOf(entry, s) \in Nat
  BY <1>1, <1>3, <1>4, EntryOwes
<1> QED BY <1>3, <1>4, <1>5 DEF entry

\* A report that is too late for a pending exchange changes nothing it owes.
LEMMA OwesTheSame ==
  ASSUME ExchangerTypeOK, RatesInv, UNCHANGED exchanges,
         NEW key \in Currencies, NEW report \in RateAndUpdatedTime, ReportAppended(key, report),
         NEW h \in Holders, NEW s \in Currencies, RatesAreFinalFor(h, s),
         NEW i \in Pending(h, s), IsOver(exchanges[h][s][i])
  PROVE  /\ reclaimOf(exchanges[h][s][i], s)' = reclaimOf(exchanges[h][s][i], s)
         /\ rebateOf(exchanges[h][s][i], s)' = rebateOf(exchanges[h][s][i], s)
<1>1. PICK entry : entry = exchanges[h][s][i]
  OBVIOUS
<1>2. /\ entry \in ExchangeEntry /\ entry.src \in Currencies
      /\ entry.roundIdForSrc \in DOMAIN rounds[entry.src]
      /\ entry.roundIdForDest \in DOMAIN rounds[s]
  BY <1>1, PendingEntry
<1>3. report.time > PeriodEnd(entry)
  <2>1. rounds[key] \in Seq(RateAndUpdatedTime) /\ rounds'[key] = Append(rounds[key], report)
    BY DEF ReportAppended, ExchangerTypeOK, RatesTypeOK
  <2>2. /\ Len(rounds'[key]) = Len(rounds[key]) + 1 /\ Len(rounds[key]) \in Nat
        /\ rounds'[key][Len(rounds[key]) + 1] = report
    BY <2>1, Appends
  <2>3. Len(rounds[key]) + 1 \in Len(rounds[key]) + 1 .. Len(rounds'[key])
    BY <2>2
  <2>4. rounds'[key][Len(rounds[key]) + 1].time > PeriodEnd(exchanges[h][s][i])
    BY <2>3 DEF RatesAreFinalFor
  <2> QED BY <1>1, <2>2, <2>4
<1>4. /\ srcRate(entry)' = srcRate(entry)
      /\ destRate(entry, s)' = destRate(entry, s)
  BY <1>2, <1>3, RateIsFinal DEF srcRate, destRate
<1>5. /\ reclaimOf(entry, s)' = reclaimOf(entry, s)
      /\ rebateOf(entry, s)' = rebateOf(entry, s)
  BY <1>4 DEF reclaimOf, rebateOf, settles, amountShouldHaveReceived
<1>6. exchanges'[h][s][i] = entry
  BY <1>1
<1> QED BY <1>1, <1>5, <1>6

\* What a queue owes is final once its waiting period is over.
LEMMA ReportsKeepOwing ==
  ASSUME ExchangerInv, RatesInv, UpdateRates,
         NEW h \in Holders, NEW s \in Currencies, RatesAreFinalFor(h, s), waitingIsOver(h, s)
  PROVE  /\ reclaimAmount(h, s)' = reclaimAmount(h, s)
         /\ rebateAmount(h, s)' = rebateAmount(h, s)
<1>1. ExchangerTypeOK
  BY DEF ExchangerInv
<1>2. PICK key \in Currencies, report \in RateAndUpdatedTime : ReportAppended(key, report)
  BY <1>1, ReportAppends
<1>3. UNCHANGED exchanges
  BY DEF UpdateRates
<1>4. \A i \in Pending(h, s) :
        /\ reclaimOf(exchanges[h][s][i], s)' = reclaimOf(exchanges[h][s][i], s)
        /\ rebateOf(exchanges[h][s][i], s)' = rebateOf(exchanges[h][s][i], s)
  BY <1>1, <1>2, <1>3, OwesTheSame, WaitingIsOverForAll
<1>5. reclaims(h, s)' = reclaims(h, s) /\ rebates(h, s)' = rebates(h, s)
  BY <1>3, <1>4 DEF reclaims, rebates, Pending
<1> QED BY <1>5 DEF reclaimAmount, rebateAmount

(* Once the waiting period is over, what a settlement will pay is fixed for
   whoever settles whenever: no report changes it but one that is dated within
   the period.  A deleted round that is reported again could.                  *)
THEOREM OwingFinal ==
  ASSUME Deletable = {}
  PROVE  ExchangerSpec => OwingIsFinal
<1>1. ASSUME ExchangerInv, RatesInv, [ExchangerNext]_exchangerVars
      PROVE  [\A h \in Holders, s \in Currencies :
               (/\ rounds' # rounds
                /\ waitingIsOver(h, s) /\ settlementIsDefined(h, s)
                /\ RatesAreFinalFor(h, s)) =>
               /\ reclaimAmount(h, s)' = reclaimAmount(h, s)
               /\ rebateAmount(h, s)' = rebateAmount(h, s)]_exchangerVars
  <2>1. rounds' # rounds => UpdateRates
    <3>1. CASE ExchangerStep
      BY <1>1, <3>1, StepsQueue DEF ExchangerInv
    <3>2. CASE DeleteRate
      BY <3>2 DEF DeleteRate
    <3>3. CASE UpdateSuspension \/ Tick \/ UNCHANGED exchangerVars
      BY <3>3 DEF UpdateSuspension, Tick, exchangerVars
    <3> QED BY <1>1, <3>1, <3>2, <3>3 DEF ExchangerNext
  <2> QED BY <1>1, <2>1, ReportsKeepOwing
<1> QED BY <1>1, RatesStayInOrder, PTL DEF ExchangerSpec, OwingIsFinal
------------------------------------------------------------------------------
(* What is owed stays covered. *)

\* What is still at risk of the entries of a queue.
atRisk(h, s) == [i \in Pending(h, s) |-> MayBeReclaimed(h, s, i)]

\* It is an amount, of each entry.
LEMMA RiskNat ==
  ASSUME ExchangerTypeOK, RatesInv, NEW h \in Holders, NEW s \in Currencies
  PROVE  /\ DOMAIN atRisk(h, s) = DOMAIN exchanges[h][s]
         /\ IsFiniteSet(DOMAIN exchanges[h][s])
         /\ \A i \in DOMAIN exchanges[h][s] :
              MayBeReclaimed(h, s, i) \in Nat /\ atRisk(h, s)[i] = MayBeReclaimed(h, s, i)
         /\ sumOfAll(atRisk(h, s)) \in Nat
<1>1. IsFiniteSet(DOMAIN exchanges[h][s])
  BY QueueIsFinite DEF ExchangerTypeOK
<1>2. \A i \in DOMAIN exchanges[h][s] : MayBeReclaimed(h, s, i) \in Nat
  BY PendingOwes DEF MayBeReclaimed, Pending
<1>3. /\ DOMAIN atRisk(h, s) = DOMAIN exchanges[h][s]
      /\ \A i \in DOMAIN exchanges[h][s] : atRisk(h, s)[i] = MayBeReclaimed(h, s, i)
  BY DEF atRisk, Pending
<1> QED BY <1>1, <1>2, <1>3, TotalNat

\* A queue that is emptied puts nothing at risk.
LEMMA EmptyIsCovered ==
  ASSUME NEW h, NEW s, exchanges'[h][s] = <<>>, balance'[h][s] \in Nat
  PROVE  Covered(h, s)'
<1>1. DOMAIN [i \in DOMAIN exchanges'[h][s] |-> MayBeReclaimed(h, s, i)'] = {}
  OBVIOUS
<1>2. sumOfAll([i \in DOMAIN exchanges'[h][s] |-> MayBeReclaimed(h, s, i)']) = 0
  BY <1>1, TotalOfNone
<1> QED BY <1>2 DEF Covered, Pending

\* Nor does a queue lose cover whose entries put no more at risk than before.
LEMMA NoMoreAtRisk ==
  ASSUME ExchangerTypeOK, RatesInv, NEW h \in Holders, NEW s \in Currencies,
         exchanges'[h][s] = exchanges[h][s],
         \A i \in Pending(h, s) :
           MayBeReclaimed(h, s, i)' \in Nat /\ MayBeReclaimed(h, s, i)' <= MayBeReclaimed(h, s, i),
         balance'[h][s] \in Nat,
         \/ Covered(h, s) /\ balance'[h][s] >= balance[h][s]
         \/ balance'[h][s] >= sumOfAll(atRisk(h, s))
  PROVE  Covered(h, s)'
<1> DEFINE f == atRisk(h, s)
           g == [i \in DOMAIN exchanges[h][s] |-> MayBeReclaimed(h, s, i)']
<1>1. /\ DOMAIN f = DOMAIN exchanges[h][s] /\ DOMAIN g = DOMAIN exchanges[h][s]
      /\ IsFiniteSet(DOMAIN exchanges[h][s])
      /\ sumOfAll(f) \in Nat
  BY RiskNat
<1>2. \A i \in DOMAIN exchanges[h][s] : f[i] \in Int /\ g[i] \in Int /\ g[i] <= f[i]
  BY RiskNat DEF Pending
<1>3. balance'[h][s] >= sumOfAll(f)
  <2>1. balance[h][s] \in Nat
    BY DEF ExchangerTypeOK
  <2>2. Covered(h, s) => balance[h][s] >= sumOfAll(f)
    BY DEF Covered, atRisk
  <2> HIDE DEF f
  <2> QED BY <1>1, <2>1, <2>2 DEF f
<1>4. sumOfAll(g) = sumOver(g, DOMAIN exchanges[h][s]) /\ sumOfAll(f) = sumOver(f, DOMAIN exchanges[h][s])
  <2> HIDE DEF f, g
  <2> QED BY <1>1, SumOfAllDef
<1>5. Covered(h, s)' <=> balance'[h][s] >= sumOfAll(g)
  BY DEF Covered, Pending
<1> HIDE DEF f, g
<1>6. /\ sumOver(f, DOMAIN exchanges[h][s]) \in Int /\ sumOver(g, DOMAIN exchanges[h][s]) \in Int
      /\ sumOver(g, DOMAIN exchanges[h][s]) <= sumOver(f, DOMAIN exchanges[h][s])
  BY <1>1, <1>2, SumMonotone
<1> QED BY <1>3, <1>4, <1>5, <1>6

\* While time and rates stand still an entry is as much at risk as before.
LEMMA SameRisk ==
  ASSUME UNCHANGED <<now, rounds>>, NEW h, NEW s, NEW i,
         exchanges'[h][s][i] = exchanges[h][s][i]
  PROVE  MayBeReclaimed(h, s, i)' = MayBeReclaimed(h, s, i)
<1>1. PICK entry : entry = exchanges[h][s][i]
  OBVIOUS
<1>2. reclaimOf(entry, s)' = reclaimOf(entry, s)
  BY DEF reclaimOf, settles, amountShouldHaveReceived, srcRate, destRate, rateAtPeriodEnd,
         rateAtRound, getLastRoundIdBeforeElapsedSecs, timestampAtRound, currentRound
<1> QED BY <1>1, <1>2 DEF MayBeReclaimed, IsOver, PeriodEnd

\* A queue that stays as it is keeps its cover while the balance does not shrink.
LEMMA SameQueueIsCovered ==
  ASSUME ExchangerTypeOK, RatesInv, UNCHANGED <<now, rounds>>,
         NEW h \in Holders, NEW s \in Currencies,
         exchanges'[h][s] = exchanges[h][s], balance'[h][s] \in Nat,
         \/ Covered(h, s) /\ balance'[h][s] >= balance[h][s]
         \/ balance'[h][s] >= sumOfAll(atRisk(h, s))
  PROVE  Covered(h, s)'
<1>1. \A i \in Pending(h, s) : MayBeReclaimed(h, s, i)' = MayBeReclaimed(h, s, i)
  BY SameRisk
<1>2. \A i \in Pending(h, s) : MayBeReclaimed(h, s, i) \in Nat
  BY RiskNat DEF Pending
<1>3. \A i \in Pending(h, s) :
        MayBeReclaimed(h, s, i)' \in Nat /\ MayBeReclaimed(h, s, i)' <= MayBeReclaimed(h, s, i)
  BY <1>1, <1>2
<1> QED BY <1>3, NoMoreAtRisk
------------------------------------------------------------------------------
(* The steps that put more at risk. *)

\* An exchange puts at risk what it brings, and no more.
LEMMA AppendedIsCovered ==
  ASSUME ExchangerTypeOK, RatesInv, UNCHANGED <<now, rounds>>,
         NEW h \in Holders, NEW s \in Currencies, Covered(h, s),
         NEW entry \in ExchangeEntry, exchanges'[h][s] = Append(exchanges[h][s], entry),
         entry.roundIdForDest = currentRound(s),
         balance'[h][s] \in Nat, balance'[h][s] >= balance[h][s] + entry.amountReceived
  PROVE  Covered(h, s)'
<1>0. PICK q : q = exchanges[h][s]
  OBVIOUS
<1> DEFINE D == DOMAIN q
           a == Len(q) + 1
           g == [i \in D \cup {a} |-> MayBeReclaimed(h, s, i)']
<1>1. /\ q \in Seq(ExchangeEntry) /\ balance[h][s] \in Nat /\ entry.amountReceived \in Nat
      /\ RatesTypeOK
  BY <1>0 DEF ExchangerTypeOK, ExchangeEntry
<1>2. /\ DOMAIN exchanges'[h][s] = D \cup {a} /\ a \notin D
      /\ exchanges'[h][s][a] = entry
      /\ \A i \in D : exchanges'[h][s][i] = exchanges[h][s][i]
  BY <1>0, <1>1, Appends
<1>3. IsFiniteSet(D) /\ \A i \in D : MayBeReclaimed(h, s, i) \in Nat
  BY <1>0, RiskNat
<1>4. \A i \in D : MayBeReclaimed(h, s, i)' = MayBeReclaimed(h, s, i)
  BY <1>2, SameRisk
<1>5. MayBeReclaimed(h, s, a)' \in Nat /\ MayBeReclaimed(h, s, a)' <= entry.amountReceived
  <2>1. currentRound(s) \in DOMAIN rounds[s]
    BY DEF ExchangerTypeOK, RatesTypeOK, RatesInv, currentRound
  <2>2. rateAtRound(s, Max(Reached(s, currentRound(s), PeriodEnd(entry)))) > 0
    BY <2>1, WalkEndsAtRate
  <2>3. destRate(entry, s) > 0
    BY <2>2, RateOfWalk DEF destRate
  <2>4. reclaimOf(entry, s) \in Nat /\ reclaimOf(entry, s) <= entry.amountReceived
    BY <1>1, <2>3, EntryOwes
  <2>5. reclaimOf(entry, s)' = reclaimOf(entry, s)
    BY DEF reclaimOf, settles, amountShouldHaveReceived, srcRate, destRate, rateAtPeriodEnd,
           rateAtRound, getLastRoundIdBeforeElapsedSecs, timestampAtRound, currentRound
  <2>6. \/ MayBeReclaimed(h, s, a)' = reclaimOf(entry, s)
        \/ MayBeReclaimed(h, s, a)' = entry.amountReceived
    <3>1. PICK b : b = a
      OBVIOUS
    <3>2. exchanges'[h][s][b] = entry
      BY <1>2, <3>1
    <3>3. \/ MayBeReclaimed(h, s, b)' = reclaimOf(entry, s)
          \/ MayBeReclaimed(h, s, b)' = entry.amountReceived
      BY <2>5, <3>2 DEF MayBeReclaimed, IsOver, PeriodEnd
    <3> QED BY <3>1, <3>3
  <2> QED BY <1>1, <2>4, <2>6
<1> HIDE DEF a
<1>6. DOMAIN g = D \cup {a} /\ \A i \in D \cup {a} : g[i] = MayBeReclaimed(h, s, i)'
  OBVIOUS
<1>7. sumOfAll(g) = sumOver(g, D \cup {a})
  BY <1>6, SumOfAllDef
<1>8. Covered(h, s)' <=> balance'[h][s] >= sumOfAll(g)
  BY <1>2 DEF Covered, Pending
<1>9. \A i \in D \cup {a} : g[i] \in Int
  BY <1>3, <1>4, <1>5, <1>6
<1>10. \A i \in D : g[i] = atRisk(h, s)[i]
  BY <1>0, <1>4, <1>6 DEF atRisk, Pending
<1> HIDE DEF g
<1>11. sumOver(g, D \cup {a}) = sumOver(g, D) + g[a]
  BY <1>2, <1>3, <1>9, SumWithMember
<1>12. sumOver(g, D) = sumOver(atRisk(h, s), D) /\ sumOver(atRisk(h, s), D) \in Nat
  <2>1. \A i \in D : atRisk(h, s)[i] \in Int /\ g[i] = atRisk(h, s)[i]
    BY <1>9, <1>10
  <2>2. sumOver(g, D) = sumOver(atRisk(h, s), D)
    BY <1>3, <2>1, SumOfEqual
  <2>3. sumOfAll(atRisk(h, s)) \in Nat /\ DOMAIN atRisk(h, s) = D
    BY <1>0, RiskNat
  <2> QED BY <2>2, <2>3, SumOfAllDef
<1>13. balance[h][s] >= sumOver(atRisk(h, s), D)
  <2>1. balance[h][s] >= sumOfAll(atRisk(h, s)) /\ DOMAIN atRisk(h, s) = D
    BY <1>0, RiskNat DEF Covered, atRisk
  <2> QED BY <2>1, SumOfAllDef
<1>14. g[a] \in Nat /\ g[a] <= entry.amountReceived
  BY <1>5, <1>6
<1> QED BY <1>1, <1>7, <1>8, <1>11, <1>12, <1>13, <1>14

\* An exchange keeps every queue covered.
LEMMA ExchangeKeepsCover ==
  ASSUME ExchangerTypeOK, RatesInv, NEW from \in Accounts, NEW src \in Currencies,
         NEW amount \in Nat, NEW dest \in Currencies, NEW to \in Holders,
         exchange(from, src, amount, dest, to),
         NEW h \in Holders, NEW s \in Currencies, Covered(h, s)
  PROVE  Covered(h, s)'
<1>1. /\ src # dest /\ UNCHANGED <<now, rounds>> /\ ExchangerTables
      /\ \/ SettlesOnly(from, src, balanceAfterSettlement(from, src))
         \/ \E left, received, fee \in Nat, entry \in ExchangeEntry :
              ExchangesInto(from, src, left, to, dest, received, fee, entry)
  BY ExchangeMoves
<1>2. balance'[h][s] \in Nat /\ balance[h][s] \in Nat
  BY <1>1 DEF ExchangerTables, ExchangerTypeOK
<1>3. CASE SettlesOnly(from, src, balanceAfterSettlement(from, src))
  <2>1. CASE h = from /\ s = src
    BY <1>2, <1>3, <2>1, EmptyIsCovered DEF SettlesOnly
  <2>2. CASE ~(h = from /\ s = src)
    <3>1. exchanges'[h][s] = exchanges[h][s] /\ balance'[h][s] = balance[h][s]
      BY <1>3, <2>2 DEF SettlesOnly
    <3>2. balance'[h][s] >= balance[h][s]
      BY <1>2, <3>1
    <3> QED BY <1>1, <1>2, <3>1, <3>2, SameQueueIsCovered
  <2> QED BY <2>1, <2>2
<1>4. ASSUME NEW left \in Nat, NEW received \in Nat, NEW fee \in Nat, NEW entry \in ExchangeEntry,
             ExchangesInto(from, src, left, to, dest, received, fee, entry)
      PROVE  Covered(h, s)'
  <2>1. CASE h = from /\ s = src
    BY <1>2, <1>4, <2>1, EmptyIsCovered DEF ExchangesInto
  <2>2. CASE h = to /\ s = dest
    <3>1. exchanges'[h][s] = Append(exchanges[h][s], entry)
      BY <1>1, <1>4, <2>2 DEF ExchangesInto
    <3>2. /\ balance'[h][s] >= balance[h][s] + received
          /\ entry.amountReceived = received /\ entry.roundIdForDest = currentRound(s)
      BY <1>1, <1>2, <1>4, <2>2 DEF ExchangesInto
    <3> QED BY <1>1, <1>2, <3>1, <3>2, AppendedIsCovered
  <2>3. CASE ~(h = from /\ s = src) /\ ~(h = to /\ s = dest)
    <3>1. exchanges'[h][s] = exchanges[h][s]
      BY <1>4, <2>3 DEF ExchangesInto
    <3>2. balance'[h][s] >= balance[h][s]
      BY <1>2, <1>4, <2>3 DEF ExchangesInto
    <3> QED BY <1>1, <1>2, <3>1, <3>2, SameQueueIsCovered
  <2> QED BY <2>1, <2>2, <2>3
<1> QED BY <1>1, <1>3, <1>4

\* A transfer takes nothing that is owed, once everything pending is final.
LEMMA TransferKeepsCover ==
  ASSUME ExchangerInv, RatesInv, UNCHANGED <<now, rounds, exchanges>>,
         NEW a \in Holders, NEW b \in Holders, a # b, NEW t \in Currencies, NEW value \in Nat,
         canTransfer(a, t, value), Moved(a, b, t, value),
         NEW h \in Holders, NEW s \in Currencies, Covered(h, s)
  PROVE  Covered(h, s)'
<1>1. ExchangerTypeOK
  BY DEF ExchangerInv
<1>2. /\ waitingIsOver(a, t)
      /\ balance' \in [Holders -> [Currencies -> Nat]]
      /\ MovesTo(a, b, t, balance[a][t] - value, value)
      /\ value = 0 \/ balance[a][t] - value >= reclaimAmount(a, t)
  BY <1>1, TransferMoves
<1>3. balance'[h][s] \in Nat /\ balance[h][s] \in Nat
  BY <1>1, <1>2 DEF ExchangerTypeOK
<1>4. CASE h = a /\ s = t /\ value # 0
  <2>1. \A i \in Pending(h, s) : MayBeReclaimed(h, s, i) = reclaimOf(exchanges[h][s][i], s)
    BY <1>2, <1>4, WaitingIsOverForAll DEF MayBeReclaimed
  <2>2. atRisk(h, s) = reclaims(h, s)
    BY <2>1 DEF atRisk, reclaims, Pending
  <2>3. balance'[h][s] >= sumOfAll(atRisk(h, s))
    BY <1>2, <1>4, <2>2 DEF MovesTo, reclaimAmount
  <2> QED BY <1>1, <1>3, <2>3, SameQueueIsCovered
<1>5. CASE ~(h = a /\ s = t /\ value # 0)
  <2>1. balance'[h][s] >= balance[h][s]
    BY <1>2, <1>3, <1>5 DEF MovesTo
  <2> QED BY <1>1, <1>3, <2>1, SameQueueIsCovered
<1> QED BY <1>4, <1>5
------------------------------------------------------------------------------
(* Every step keeps the cover. *)

\* The operations of the holders.
LEMMA StepsKeepCover ==
  ASSUME ExchangerInv, RatesInv, ExchangerStep, NEW h \in Holders, NEW s \in Currencies, Covered(h, s)
  PROVE  Covered(h, s)'
<1> USE AmountsNat, HoldersAndSynths
<1>1. ExchangerTypeOK /\ balance[h][s] \in Nat
  BY DEF ExchangerInv, ExchangerTypeOK
<1>2. ASSUME NEW a \in Accounts, NEW src \in Currencies, NEW dest \in Currencies,
             NEW amount \in ExchangeAmounts, Exchange(a, src, amount, dest)
      PROVE  Covered(h, s)'
  BY <1>1, <1>2, ExchangeKeepsCover DEF Exchange
<1>3. ASSUME NEW k \in Holders, NEW t \in Currencies, Settle(k, t) PROVE Covered(h, s)'
  <2>1. /\ UNCHANGED <<now, rounds>> /\ ExchangerTables
        /\ SettlesOnly(k, t, balanceAfterSettlement(k, t))
    BY <1>1, <1>3, SettleMoves
  <2>2. balance'[h][s] \in Nat
    BY <2>1 DEF ExchangerTables
  <2>3. CASE h = k /\ s = t
    BY <2>1, <2>2, <2>3, EmptyIsCovered DEF SettlesOnly
  <2>4. CASE ~(h = k /\ s = t)
    <3>1. exchanges'[h][s] = exchanges[h][s] /\ balance'[h][s] = balance[h][s]
      BY <2>1, <2>4 DEF SettlesOnly
    <3>2. balance'[h][s] >= balance[h][s]
      BY <1>1, <3>1
    <3> QED BY <1>1, <2>1, <2>2, <3>1, <3>2, SameQueueIsCovered
  <2> QED BY <2>3, <2>4
<1>4. ASSUME NEW a \in Accounts, NEW b \in Holders, NEW t \in Currencies, a # b,
             NEW value \in ExchangeAmounts, TransferSynth(a, b, t, value)
      PROVE  Covered(h, s)'
  BY <1>4, TransferKeepsCover DEF TransferSynth, Moved
<1>5. ASSUME NEW a \in Accounts, NEW b \in Holders, NEW t \in Currencies, a # b,
             NEW value \in ExchangeAmounts, TransferAndSettle(a, b, t, value)
      PROVE  Covered(h, s)'
  <2>1. /\ UNCHANGED <<now, rounds>> /\ ExchangerTables
        /\ \E left, moved \in Nat : MovesTo(a, b, t, left, moved)
        /\ exchanges' = [exchanges EXCEPT ![a][t] = <<>>]
    BY <1>1, <1>5, TransferAndSettleMoves
  <2>2. balance'[h][s] \in Nat /\ exchanges \in [Holders -> [Currencies -> Seq(ExchangeEntry)]]
    BY <1>1, <2>1 DEF ExchangerTables, ExchangerTypeOK
  <2>3. CASE h = a /\ s = t
    <3>1. exchanges'[h][s] = <<>>
      BY <2>1, <2>2, <2>3
    <3> QED BY <2>2, <3>1, EmptyIsCovered
  <2>4. CASE ~(h = a /\ s = t)
    <3>1. exchanges'[h][s] = exchanges[h][s]
      BY <2>1, <2>2, <2>4
    <3>2. balance'[h][s] >= balance[h][s]
      BY <1>1, <2>1, <2>4 DEF MovesTo
    <3> QED BY <1>1, <2>1, <2>2, <3>1, <3>2, SameQueueIsCovered
  <2> QED BY <2>3, <2>4
<1>6. ASSUME NEW a \in Accounts, NEW t \in Currencies, NEW value \in ExchangeAmounts,
             TransferToFeeAddress(a, t, value)
      PROVE  Covered(h, s)'
  <2>1. CASE exchange(a, t, value, "sUSD", FEE_ADDRESS)
    BY <1>1, <2>1, ExchangeKeepsCover
  <2>2. CASE Moved(a, FEE_ADDRESS, t, value) /\ UNCHANGED <<now, rounds, exchanges>>
    BY <1>6, <2>2, TransferKeepsCover DEF TransferToFeeAddress
  <2> QED BY <1>6, <2>1, <2>2 DEF TransferToFeeAddress, Moved
<1>7. ASSUME NEW t \in Currencies, SuspendSynthWithInvalidRate(t) PROVE Covered(h, s)'
  <2>1. UNCHANGED <<now, rounds, balance, exchanges>>
    BY <1>7 DEF SuspendSynthWithInvalidRate
  <2>2. balance'[h][s] >= balance[h][s] /\ balance'[h][s] \in Nat
    BY <1>1, <2>1
  <2> QED BY <1>1, <2>1, <2>2, SameQueueIsCovered
<1> QED BY <1>2, <1>3, <1>4, <1>5, <1>6, <1>7 DEF ExchangerStep

\* Rates that are too late, and the passing of time.
LEMMA EnvironmentKeepsCover ==
  ASSUME ExchangerInv, RatesInv, NEW h \in Holders, NEW s \in Currencies, Covered(h, s),
         RatesAreFinalFor(h, s),
         UpdateRates \/ UpdateSuspension \/ Tick \/ UNCHANGED exchangerVars
  PROVE  Covered(h, s)'
<1>1. ExchangerTypeOK /\ balance[h][s] \in Nat
  BY DEF ExchangerInv, ExchangerTypeOK
<1>2. UNCHANGED <<balance, exchanges>>
  BY DEF UpdateRates, UpdateSuspension, Tick, exchangerVars
<1>3. balance'[h][s] \in Nat /\ balance'[h][s] >= balance[h][s]
  BY <1>1, <1>2
<1>4. /\ \A i \in Pending(h, s) :
           /\ reclaimOf(exchanges[h][s][i], s) \in Nat /\ exchanges[h][s][i].amountReceived \in Nat
           /\ reclaimOf(exchanges[h][s][i], s) <= exchanges[h][s][i].amountReceived
  BY <1>1, PendingOwes
<1>5. CASE UNCHANGED <<now, rounds>>
  BY <1>1, <1>2, <1>3, <1>5, SameQueueIsCovered
<1>6. CASE UpdateRates
  <2>1. PICK key \in Currencies, report \in RateAndUpdatedTime : ReportAppended(key, report)
    BY <1>1, <1>6, ReportAppends
  <2>2. now' = now
    BY <1>6 DEF UpdateRates
  <2>3. ASSUME NEW i \in Pending(h, s)
        PROVE  MayBeReclaimed(h, s, i)' = MayBeReclaimed(h, s, i)
    <3>1. CASE IsOver(exchanges[h][s][i])
      <4>1. reclaimOf(exchanges[h][s][i], s)' = reclaimOf(exchanges[h][s][i], s)
        BY <1>1, <1>2, <2>1, <2>3, <3>1, OwesTheSame
      <4>2. IsOver(exchanges[h][s][i])'
        BY <1>2, <2>2, <3>1 DEF IsOver, PeriodEnd
      <4> QED BY <3>1, <4>1, <4>2 DEF MayBeReclaimed
    <3>2. CASE ~IsOver(exchanges[h][s][i])
      <4>1. ~IsOver(exchanges[h][s][i])'
        BY <1>2, <2>2, <3>2 DEF IsOver, PeriodEnd
      <4> QED BY <1>2, <3>2, <4>1 DEF MayBeReclaimed
    <3> QED BY <3>1, <3>2
  <2>4. \A i \in Pending(h, s) :
          MayBeReclaimed(h, s, i)' \in Nat /\ MayBeReclaimed(h, s, i)' <= MayBeReclaimed(h, s, i)
    BY <1>4, <2>3 DEF MayBeReclaimed
  <2> QED BY <1>1, <1>2, <1>3, <2>4, NoMoreAtRisk
<1>7. CASE Tick
  <2>1. now \in Nat /\ now' = now + 1 /\ UNCHANGED rounds
    BY <1>1, <1>7 DEF Tick, ExchangerTypeOK, RatesTypeOK
  <2>2. ASSUME NEW i \in Pending(h, s)
        PROVE  MayBeReclaimed(h, s, i)' \in Nat /\ MayBeReclaimed(h, s, i)' <= MayBeReclaimed(h, s, i)
    <3>1. PICK entry \in ExchangeEntry : entry = exchanges[h][s][i]
      BY <1>1, PendingEntry
    <3>2. reclaimOf(entry, s)' = reclaimOf(entry, s)
      BY <2>1 DEF reclaimOf, settles, amountShouldHaveReceived, srcRate, destRate,
         rateAtPeriodEnd, rateAtRound, getLastRoundIdBeforeElapsedSecs, timestampAtRound,
         currentRound
    <3>3. reclaimOf(entry, s) \in Nat /\ entry.amountReceived \in Nat
          /\ reclaimOf(entry, s) <= entry.amountReceived
      BY <1>4, <2>2, <3>1
    <3>4. IsOver(entry) => now' >= PeriodEnd(entry)
      <4>1. PeriodEnd(entry) \in Nat
        BY ExchangerAssumption DEF ExchangeEntry, PeriodEnd
      <4> QED BY <2>1, <4>1 DEF IsOver
    <3>5. /\ MayBeReclaimed(h, s, i) = IF IsOver(entry) THEN reclaimOf(entry, s)
                                       ELSE entry.amountReceived
          /\ MayBeReclaimed(h, s, i)' = IF now' >= PeriodEnd(entry) THEN reclaimOf(entry, s)
                                        ELSE entry.amountReceived
      BY <1>2, <3>1, <3>2 DEF MayBeReclaimed, IsOver, PeriodEnd
    <3> QED BY <3>3, <3>4, <3>5
  <2> QED BY <1>1, <1>2, <1>3, <2>2, NoMoreAtRisk
<1> QED BY <1>5, <1>6, <1>7 DEF UpdateSuspension, exchangerVars

(* A balance that covers what may be reclaimed from it goes on covering it, so
   that its settlement cannot fail: no transfer or exchange takes what is owed,
   no report changes it but one dated within a period that is over.  Rounds are
   not deleted.                                                                *)
THEOREM CoverOfOwed ==
  ASSUME Deletable = {}
  PROVE  ExchangerSpec => OwedStaysCovered
<1>1. ASSUME ExchangerInv, RatesInv, [ExchangerNext]_exchangerVars
      PROVE  [\A h \in Holders, s \in Currencies :
                Covered(h, s) /\ RatesAreFinalFor(h, s) => Covered(h, s)']_exchangerVars
  <2>1. ~DeleteRate
    BY DEF DeleteRate
  <2>2. \A h \in Holders, s \in Currencies :
          Covered(h, s) /\ RatesAreFinalFor(h, s) => Covered(h, s)'
    BY <1>1, <2>1, StepsKeepCover, EnvironmentKeepsCover DEF ExchangerNext
  <2> QED BY <2>2
<1> QED BY <1>1, RatesStayInOrder, PTL DEF ExchangerSpec, OwedStaysCovered
------------------------------------------------------------------------------
(* What a settlement pays. *)

\* A walk that stops at the first late round ends at the last that is not: the
\* rounds are in the order of their times.
LEMMA WalkFindsPeriodEnd ==
  ASSUME ExchangerTypeOK, RatesInv, NEW key \in Currencies, NEW start \in DOMAIN rounds[key],
         NEW end \in Nat
  PROVE  rateAtRound(key, Max(Reached(key, start, end))) = RateAtEnd(key, start, end)
<1> DEFINE n == Len(rounds[key])
           upTo == {start} \cup {id \in start .. n : rounds[key][id].time <= end}
<1>1. /\ rounds[key] \in Seq(RateAndUpdatedTime) /\ n \in Nat /\ DOMAIN rounds[key] = 1 .. n
      /\ start \in 1 .. n
  BY DEF ExchangerTypeOK, RatesTypeOK
<1>2. \A id \in 1 .. n : /\ rounds[key][id].time \in Nat
                         /\ timestampAtRound(key, id) = rounds[key][id].time
  <2> TAKE id \in 1 .. n
  <2>1. rounds[key][id] \in RateAndUpdatedTime
    BY <1>1
  <2> QED BY <1>1, <2>1 DEF RateAndUpdatedTime, timestampAtRound
<1>3. \A id, later \in 1 .. n : id <= later => rounds[key][id].time <= rounds[key][later].time
  BY <1>1 DEF RatesInv
<1> HIDE DEF n
<1>4. ASSUME NEW id \in start .. n, id # start
      PROVE  (\A next \in start + 1 .. id : timestampAtRound(key, next) <= end)
             <=> rounds[key][id].time <= end
  <2>1. id \in start + 1 .. id /\ id \in 1 .. n
    BY <1>1, <1>4
  <2>2. \A next \in start + 1 .. id : next \in 1 .. n /\ next <= id
    BY <1>1, <1>4
  <2>3. ASSUME rounds[key][id].time <= end, NEW next \in start + 1 .. id
        PROVE  timestampAtRound(key, next) <= end
    <3>1. rounds[key][next].time <= rounds[key][id].time
      BY <1>3, <2>1, <2>2
    <3> QED BY <1>2, <2>1, <2>2, <2>3, <3>1
  <2> QED BY <1>2, <2>1, <2>3
<1>5. Reached(key, start, end) = upTo
  <2>1. currentRound(key) = n
    BY DEF currentRound, n
  <2> QED BY <1>4, <2>1 DEF Reached
<1>6. Max(Reached(key, start, end)) \in DOMAIN rounds[key]
  BY WalkEndsAtRate
<1> HIDE DEF upTo
<1>7. RateAtEnd(key, start, end) = rounds[key][Max(upTo)].rate
  BY DEF RateAtEnd, upTo, n
<1> QED BY <1>5, <1>6, <1>7 DEF rateAtRound

\* A dividend below so many times its divisor has a quotient below that.
LEMMA BelowQuotient ==
  ASSUME NEW x \in Nat, NEW y \in Nat, y > 0, NEW k \in Nat, x < k * y
  PROVE  x \div y < k
<1> DEFINE d == x \div y
<1>1. d \in Nat /\ y * d <= x
  BY DivNat
<1> HIDE DEF d
<1>2. ASSUME k <= d PROVE FALSE
  <2>1. k * y <= d * y
    BY <1>1, <1>2, MulMonotone
  <2>2. d * y = y * d /\ d * y \in Nat /\ k * y \in Nat
    BY <1>1, MulNat
  <2> QED BY <1>1, <2>1, <2>2
<1> QED BY <1>1, <1>2 DEF d

\* Within the threshold is what the breaker's division says it is.
LEMMA WithinThreshold ==
  ASSUME NEW x \in Nat, NEW y \in Nat
  PROVE  ~isDeviationAboveThreshold(x, y)
         <=> Max({x, y}) * UNIT < PriceDeviationThresholdFactor * Min({x, y})
<1> DEFINE top == Max({x, y})
           low == Min({x, y})
<1> SUFFICES ASSUME top * UNIT < PriceDeviationThresholdFactor * low
             PROVE  ~isDeviationAboveThreshold(x, y)
  BY NoDeviation
<1>1. x \in Int /\ y \in Int
  OBVIOUS
<1>2. top \in Nat /\ low \in Nat /\ (x = 0 \/ y = 0 => low = 0)
  BY <1>1, MaxMinOfTwo
<1>3. isDeviationAboveThreshold(x, y)
      = IF 0 \in {x, y} THEN TRUE ELSE divideDecimal(top, low) >= PriceDeviationThresholdFactor
  BY DEF isDeviationAboveThreshold
<1> HIDE DEF top, low
<1>4. /\ UNIT \in Nat /\ PriceDeviationThresholdFactor \in Nat /\ top * UNIT \in Nat
  BY <1>2, UnitAssumption, ExchangerAssumption, MulNat
<1>5. low > 0
  <2>1. low # 0
    <3> SUFFICES ASSUME low = 0 PROVE FALSE
      OBVIOUS
    <3>1. PriceDeviationThresholdFactor * low = 0
      BY <1>4
    <3> QED BY <1>4, <3>1
  <2> QED BY <1>2, <2>1
<1>6. divideDecimal(top, low) < PriceDeviationThresholdFactor /\ divideDecimal(top, low) \in Nat
  BY <1>2, <1>4, <1>5, BelowQuotient, DivideNat DEF divideDecimal
<1>7. 0 \notin {x, y}
  BY <1>2, <1>5
<1>8. isDeviationAboveThreshold(x, y) = (divideDecimal(top, low) >= PriceDeviationThresholdFactor)
  BY <1>3, <1>7
<1>9. ~(divideDecimal(top, low) >= PriceDeviationThresholdFactor)
  BY <1>4, <1>6
<1> QED BY <1>8, <1>9
------------------------------------------------------------------------------
(* The adjustments of a settlement. *)

\* What is refunded for an exchange is what is reclaimed for it and the
\* difference to the price at the end of its period.
LEMMA AdjustmentOfEntry ==
  ASSUME ExchangerTypeOK, RatesInv, NEW h \in Holders, NEW s \in Currencies, NEW i \in Pending(h, s)
  PROVE  LET entry == exchanges[h][s][i]
         IN /\ Adjustment(entry, s) \in Int
            /\ rebateOf(entry, s) = reclaimOf(entry, s) + Adjustment(entry, s)
<1> DEFINE entry == exchanges[h][s][i]
           due == amountShouldHaveReceived(entry, s)
           received == entry.amountReceived
           end == PeriodEnd(entry)
<1>1. /\ entry \in ExchangeEntry /\ entry.src \in Currencies
      /\ entry.roundIdForSrc \in DOMAIN rounds[entry.src]
      /\ entry.roundIdForDest \in DOMAIN rounds[s]
  BY PendingEntry
<1>2. due \in Nat /\ received \in Nat
  BY PendingOwes
<1> HIDE DEF entry
<1>3. end \in Nat
  BY <1>1, ExchangerAssumption DEF ExchangeEntry, PeriodEnd
<1>4. /\ srcRate(entry) = RateAtEnd(entry.src, entry.roundIdForSrc, end)
      /\ destRate(entry, s) = RateAtEnd(s, entry.roundIdForDest, end)
  BY <1>1, <1>3, RateOfWalk, WalkFindsPeriodEnd DEF srcRate, destRate
<1>5. due = amountAfterFee(valueAt(entry.amount, RateAtEnd(entry.src, entry.roundIdForSrc, end),
                                   RateAtEnd(s, entry.roundIdForDest, end)), s)
  BY <1>4 DEF amountShouldHaveReceived
<1>6. {due, received} = {received, due}
  OBVIOUS
<1>7. Adjustment(entry, s)
      = IF Max({received, due}) * UNIT < PriceDeviationThresholdFactor * Min({received, due})
        THEN due - received ELSE 0
  BY <1>5, <1>6 DEF Adjustment
<1>8. settles(entry, s)
      <=> Max({received, due}) * UNIT < PriceDeviationThresholdFactor * Min({received, due})
  BY <1>2, WithinThreshold DEF settles
<1>9. Adjustment(entry, s) = IF settles(entry, s) THEN due - received ELSE 0
  BY <1>7, <1>8
<1>10. /\ reclaimOf(entry, s) = IF settles(entry, s) /\ received > due THEN received - due ELSE 0
       /\ rebateOf(entry, s) = IF settles(entry, s) /\ due > received THEN due - received ELSE 0
  BY DEF reclaimOf, rebateOf
<1> HIDE DEF due, received
<1>11. /\ Adjustment(entry, s) \in Int
       /\ rebateOf(entry, s) = reclaimOf(entry, s) + Adjustment(entry, s)
  <2>1. CASE settles(entry, s)
    BY <1>2, <1>9, <1>10, <2>1
  <2>2. CASE ~settles(entry, s)
    BY <1>2, <1>9, <1>10, <2>2
  <2> QED BY <2>1, <2>2
<1> QED BY <1>11 DEF entry

\* So for the sums that _internalSettle pays.
LEMMA SettlementPaysAdjustments ==
  ASSUME ExchangerTypeOK, RatesInv, NEW h \in Holders, NEW s \in Currencies, Settle(h, s)
  PROVE  balance'[h][s] = balance[h][s] +
           sumOfAll([i \in Pending(h, s) |-> Adjustment(exchanges[h][s][i], s)])
<1> DEFINE D == DOMAIN exchanges[h][s]
           f == reclaims(h, s)
           g == [i \in D |-> Adjustment(exchanges[h][s][i], s)]
           k == rebates(h, s)
<1>1. IsFiniteSet(D)
  BY QueueIsFinite DEF ExchangerTypeOK
<1>2. /\ DOMAIN f = D /\ DOMAIN g = D /\ DOMAIN k = D
      /\ \A i \in D : f[i] \in Int /\ g[i] \in Int /\ k[i] = f[i] + g[i]
  <2>1. \A i \in D : /\ reclaimOf(exchanges[h][s][i], s) \in Nat
                     /\ Adjustment(exchanges[h][s][i], s) \in Int
                     /\ rebateOf(exchanges[h][s][i], s)
                        = reclaimOf(exchanges[h][s][i], s) + Adjustment(exchanges[h][s][i], s)
    BY AdjustmentOfEntry, PendingOwes DEF Pending
  <2> QED BY <2>1 DEF reclaims, rebates
<1> HIDE DEF f, g, k
<1>3. /\ sumOver(f, D) \in Int /\ sumOver(g, D) \in Int
      /\ sumOver(k, D) = sumOver(f, D) + sumOver(g, D)
  BY <1>1, <1>2, SumOfTwo
<1>4. sumOfAll(f) = sumOver(f, D) /\ sumOfAll(g) = sumOver(g, D) /\ sumOfAll(k) = sumOver(k, D)
  BY <1>2, SumOfAllDef
<1>5. balance'[h][s] = balance[h][s] + sumOfAll(k) - sumOfAll(f) /\ balance[h][s] \in Nat
  <2>1. balance'[h][s] = balanceAfterSettlement(h, s)
    BY SettleMoves DEF SettlesOnly
  <2> QED BY <2>1 DEF balanceAfterSettlement, rebateAmount, reclaimAmount, f, k, ExchangerTypeOK
<1>6. balance'[h][s] = balance[h][s] + sumOfAll(g)
  BY <1>3, <1>4, <1>5
<1> QED BY <1>6 DEF g, Pending

(* Whenever a queue is settled, its holder is left with what each exchange is
   worth at the rates of the end of its waiting period, however many rates came
   since, unless that is beyond the threshold.  Rounds are not deleted.        *)
THEOREM SettlesAtPeriodEnd ==
  ASSUME Deletable = {}
  PROVE  ExchangerSpec => SettledAtPeriodEnd
<1>1. ASSUME ExchangerInv, RatesInv, [ExchangerNext]_exchangerVars
      PROVE  [\A h \in Holders, s \in Currencies : Settled(h, s) /\ Settle(h, s) =>
                balance'[h][s] = balance[h][s] +
                  sumOfAll([i \in Pending(h, s) |->
                              Adjustment(exchanges[h][s][i], s)])]_exchangerVars
  BY <1>1, SettlementPaysAdjustments DEF ExchangerInv
<1> QED BY <1>1, RatesStayInOrder, PTL DEF ExchangerSpec, SettledAtPeriodEnd
------------------------------------------------------------------------------
(* The value of all synths.  It is the sum over the synths of what their        *)
(* holders have, at the present rates.                                          *)

supplyOf(b, s) == sumOfAll([h \in Holders |-> b[h][s]])
valueOf(b) == sumOfAll([s \in Currencies |-> rateForCurrency(s) * supplyOf(b, s)])

Balances == [Holders -> [Currencies -> Nat]]

\* Holders and synths can be summed over.
LEMMA FiniteTables == IsFiniteSet(Holders) /\ IsFiniteSet(Currencies)
<1>1. IsFiniteSet(Accounts) /\ IsFiniteSet(Currencies)
  BY ExchangerAssumption, ExchangeRatesAssumption
<1>2. IsFiniteSet(Accounts \cup {FEE_ADDRESS})
  BY <1>1, FS_AddElement
<1> QED BY <1>1, <1>2 DEF Holders

\* One balance changes the supply of its synth, and no other.
LEMMA SupplyOfChanged ==
  ASSUME NEW b \in Balances, NEW h \in Holders, NEW s \in Currencies, NEW v \in Nat,
         NEW t \in Currencies
  PROVE  /\ supplyOf(b, t) \in Nat
         /\ supplyOf([b EXCEPT ![h][s] = v], t)
              = supplyOf(b, t) + (IF t = s THEN v - b[h][s] ELSE 0)
<1> DEFINE c == [b EXCEPT ![h][s] = v]
           f == [k \in Holders |-> b[k][t]]
           g == [k \in Holders |-> c[k][t]]
<1>1. \A k \in Holders : f[k] \in Nat /\ g[k] = IF k = h /\ t = s THEN v ELSE b[k][t]
  BY DEF Balances
<1>2. supplyOf(b, t) = sumOver(f, Holders) /\ supplyOf(c, t) = sumOver(g, Holders)
  BY SumOfAllDef DEF supplyOf
<1>3. f[h] = b[h][t] /\ f[h] \in Nat
  BY <1>1
<1>4. \A k \in Holders : k # h => g[k] = f[k]
  BY <1>1
<1>5. g[h] \in Int /\ g[h] - f[h] = IF t = s THEN v - b[h][s] ELSE 0
  BY <1>1, <1>3
<1> HIDE DEF f, g, c
<1>6. sumOver(f, Holders) \in Nat
  BY <1>1, FiniteTables, SumNat
<1>7. sumOver(g, Holders) = sumOver(f, Holders) + (g[h] - f[h])
  <2>1. \A k \in Holders : f[k] \in Int
    BY <1>1
  <2> QED BY <1>4, <1>5, <2>1, FiniteTables, SumOfChanged
<1> QED BY <1>2, <1>5, <1>6, <1>7 DEF c

\* So it changes the value by what the difference is worth.
LEMMA ValueOfChanged ==
  ASSUME RatesTypeOK, NEW b \in Balances, NEW h \in Holders, NEW s \in Currencies, NEW v \in Nat
  PROVE  /\ valueOf(b) \in Nat /\ [b EXCEPT ![h][s] = v] \in Balances
         /\ valueOf([b EXCEPT ![h][s] = v]) + rateForCurrency(s) * b[h][s]
              = valueOf(b) + rateForCurrency(s) * v
<1> DEFINE c == [b EXCEPT ![h][s] = v]
           R == rateForCurrency(s)
           f == [t \in Currencies |-> rateForCurrency(t) * supplyOf(b, t)]
           g == [t \in Currencies |-> rateForCurrency(t) * supplyOf(c, t)]
<1>1. c \in Balances /\ b[h][s] \in Nat
  BY DEF Balances
<1>2. \A t \in Currencies : rateForCurrency(t) \in Nat
  BY RateNat
<1>3. \A t \in Currencies :
        /\ supplyOf(b, t) \in Nat
        /\ supplyOf(c, t) = supplyOf(b, t) + (IF t = s THEN v - b[h][s] ELSE 0)
  BY SupplyOfChanged
<1>4. valueOf(b) = sumOver(f, Currencies) /\ valueOf(c) = sumOver(g, Currencies)
  BY SumOfAllDef DEF valueOf
<1> HIDE DEF c
<1>5. \A t \in Currencies : f[t] \in Nat
  BY <1>2, <1>3, MulNat
<1>6. \A t \in Currencies : t # s => g[t] = f[t]
  BY <1>2, <1>3
<1>7. g[s] \in Int /\ g[s] - f[s] = R * v - R * b[h][s] /\ R * v \in Nat /\ R * b[h][s] \in Nat
  <2>1. /\ g[s] = R * supplyOf(c, s) /\ f[s] = R * supplyOf(b, s)
        /\ supplyOf(b, s) \in Nat /\ supplyOf(c, s) = supplyOf(b, s) + (v - b[h][s])
    BY <1>3
  <2> DEFINE x == supplyOf(b, s)
             y == supplyOf(c, s)
  <2>2. R \in Nat /\ x \in Nat /\ y = x + (v - b[h][s])
    BY <1>2, <2>1
  <2> HIDE DEF R, x, y
  <2>3. R * y = R * x + (R * v - R * b[h][s])
    BY <1>1, <2>2
  <2>4. R * x \in Nat /\ R * v \in Nat /\ R * b[h][s] \in Nat
    BY <1>1, <2>2, MulNat
  <2> QED BY <2>1, <2>3, <2>4 DEF x, y
<1> HIDE DEF f, g, R
<1>8. sumOver(f, Currencies) \in Nat
  BY <1>5, FiniteTables, SumNat
<1>9. sumOver(g, Currencies) = sumOver(f, Currencies) + (g[s] - f[s])
  <2>1. \A t \in Currencies : f[t] \in Int
    BY <1>5
  <2> QED BY <1>6, <1>7, <2>1, FiniteTables, SumOfChanged
<1> QED BY <1>1, <1>4, <1>7, <1>8, <1>9 DEF c, R

\* What is moved from one holder to another is worth the same.
LEMMA ValueOfMoved ==
  ASSUME RatesTypeOK, NEW b \in Balances, NEW from \in Holders, NEW to \in Holders, from # to,
         NEW s \in Currencies, NEW value \in Nat, value <= b[from][s]
  PROVE  valueOf([b EXCEPT ![from][s] = @ - value, ![to][s] = @ + value]) = valueOf(b)
<1> DEFINE taken == [b EXCEPT ![from][s] = b[from][s] - value]
           R == rateForCurrency(s)
<1>1. b[from][s] \in Nat /\ b[to][s] \in Nat /\ b[from][s] - value \in Nat /\ R \in Nat
  BY RateNat DEF Balances
<1>2. /\ valueOf(b) \in Nat /\ taken \in Balances
      /\ valueOf(taken) + R * b[from][s] = valueOf(b) + R * (b[from][s] - value)
  BY <1>1, ValueOfChanged
<1>3. taken[to][s] = b[to][s]
  BY DEF Balances
<1>4. [b EXCEPT ![from][s] = @ - value, ![to][s] = @ + value]
        = [taken EXCEPT ![to][s] = b[to][s] + value]
  BY <1>3
<1> HIDE DEF taken, R
<1>5. /\ valueOf(taken) \in Nat
      /\ valueOf([taken EXCEPT ![to][s] = b[to][s] + value]) + R * b[to][s]
           = valueOf(taken) + R * (b[to][s] + value)
  <2>1. b[to][s] + value \in Nat
    BY <1>1
  <2> QED BY <1>2, <1>3, <2>1, ValueOfChanged DEF R
<1>6. /\ R * (b[from][s] - value) = R * b[from][s] - R * value
      /\ R * (b[to][s] + value) = R * b[to][s] + R * value
      /\ R * b[from][s] \in Nat /\ R * b[to][s] \in Nat /\ R * value \in Nat
  BY <1>1, MulNat
<1> QED
  <2> DEFINE new == valueOf([taken EXCEPT ![to][s] = b[to][s] + value])
  <2>1. new + R * b[to][s] = valueOf(taken) + (R * b[to][s] + R * value)
    BY <1>5, <1>6
  <2>2. valueOf(taken) + R * b[from][s] = valueOf(b) + (R * b[from][s] - R * value)
    BY <1>2, <1>6
  <2>3. new \in Nat
    <3>1. b[to][s] + value \in Nat
      BY <1>1
    <3>2. [taken EXCEPT ![to][s] = b[to][s] + value] \in Balances
      BY <1>2, <3>1, ValueOfChanged
    <3> QED BY <1>1, <3>2, ValueOfChanged
  <2> HIDE DEF new
  <2>4. new = valueOf(b)
    BY <1>2, <1>5, <1>6, <2>1, <2>2, <2>3
  <2> QED BY <1>4, <2>4 DEF new

\* What an exchange pays for an amount, the fee included, is worth as much as
\* the amount but for the roundings: g is what is received before the fee, v its
\* value in sUSD, f the fee and w the value of that.
LEMMA ConversionsKeepValue ==
  ASSUME NEW U \in Nat, NEW left \in Nat, NEW rs \in Nat, NEW rd \in Nat, NEW ru \in Nat, ru <= U,
         NEW v \in Nat, NEW g \in Nat, 2 * (v * U) <= 2 * (left * rs) + U,
         2 * (g * rd) <= 2 * (v * U) + rd,
         NEW received \in Nat, NEW f \in Nat, g = received + f,
         NEW w \in Nat, ru * w <= rd * f \/ 2 * (w * U) <= 2 * (f * rd) + U
  PROVE  2 * (rd * received + ru * w) <= 2 * (rs * left) + 2 * U + rd
<1>1. /\ left * rs = rs * left /\ g * rd = rd * received + rd * f /\ f * rd = rd * f
      /\ w * U = U * w
  OBVIOUS
<1>2. /\ rs * left \in Nat /\ rd * received \in Nat /\ rd * f \in Nat /\ U * w \in Nat
      /\ v * U \in Nat /\ ru * w \in Nat
  BY MulNat
<1>3. ru * w <= U * w
  BY MulMonotone
<1>4. 2 * (rd * received) + 2 * (rd * f) <= 2 * (rs * left) + U + rd
  BY <1>1, <1>2
<1>5. 2 * (ru * w) <= 2 * (rd * f) + U
  BY <1>1, <1>2, <1>3
<1> QED BY <1>2, <1>4, <1>5

\* The synth of the unit is worth the unit, or nothing once its rate is deleted.
RateOfSUSD ==
  \A id \in DOMAIN rounds["sUSD"] : rounds["sUSD"][id].rate = UNIT

LEMMA SUSDAtMostUnit ==
  ASSUME RatesTypeOK, RateOfSUSD
  PROVE  rateForCurrency("sUSD") \in Nat /\ rateForCurrency("sUSD") <= UNIT
<1>1. UNIT \in Nat
  BY UnitAssumption
<1> QED BY <1>1 DEF RateOfSUSD, rateForCurrency, rateAtRound

\* Reports are of the other synths.
LEMMA RateOfSUSDInvariant == ExchangerSpec => []RateOfSUSD
<1>1. ExchangerInit => RateOfSUSD
  <2> SUFFICES ASSUME ExchangerInit PROVE RateOfSUSD
    OBVIOUS
  <2>1. rounds["sUSD"] = <<[rate |-> UNIT, time |-> StartTime]>>
    BY DEF ExchangerInit, ExchangeRatesInit
  <2> QED BY <2>1 DEF RateOfSUSD
<1>2. ASSUME ExchangerInv, RateOfSUSD, [ExchangerNext]_exchangerVars PROVE RateOfSUSD'
  <2> USE HoldersAndSynths
  <2>1. /\ rounds \in [Currencies -> Seq(RateAndUpdatedTime)]
        /\ rounds["sUSD"] \in Seq(RateAndUpdatedTime)
    BY <1>2 DEF ExchangerInv, ExchangerTypeOK, RatesTypeOK
  <2>2. CASE rounds' = rounds
    BY <1>2, <2>2 DEF RateOfSUSD
  <2>3. CASE UpdateRates
    BY <1>2, <2>1, <2>3 DEF UpdateRates, updateRate, RateOfSUSD
  <2>4. CASE DeleteRate
    <3>1. PICK key \in Currencies : deleteRate(key)
      BY <2>4, ExchangeRatesAssumption DEF DeleteRate
    <3>2. CASE key = "sUSD"
      <4> DEFINE q == rounds["sUSD"]
      <4>1. rounds'["sUSD"] = SubSeq(q, 1, Len(q) - 1)
        BY <2>1, <3>1, <3>2 DEF deleteRate, currentRound
      <4>2. Len(q) \in Nat /\ Len(q) > 0
        BY <2>1, <3>1, <3>2 DEF deleteRate, rateForCurrency, rateAtRound, currentRound
      <4> HIDE DEF q
      <4>3. \A id \in DOMAIN rounds'["sUSD"] : id \in DOMAIN q /\ rounds'["sUSD"][id] = q[id]
        BY <2>1, <4>1, <4>2 DEF q
      <4> QED BY <1>2, <4>3 DEF RateOfSUSD, q
    <3> QED BY <1>2, <2>1, <3>1, <3>2 DEF deleteRate, RateOfSUSD
  <2>5. ExchangerStep => rounds' = rounds
    BY <1>2, StepsQueue DEF ExchangerInv
  <2>6. UpdateSuspension \/ Tick \/ UNCHANGED exchangerVars => rounds' = rounds
    BY DEF UpdateSuspension, Tick, exchangerVars
  <2> QED BY <1>2, <2>2, <2>3, <2>4, <2>5, <2>6 DEF ExchangerNext
<1> QED BY <1>1, <1>2, ExchangerInvariance, PTL DEF ExchangerSpec

\* What the property says of a step.
LittleValueAdded ==
  \E s \in Currencies : 2 * TotalValue' <= 2 * (TotalValue + UNIT) + rateForCurrency(s)

\* A table of balances that is worth as much as the present one.
LEMMA SameValue ==
  ASSUME ExchangerTypeOK, UNCHANGED rounds, valueOf(balance') = valueOf(balance)
  PROVE  LittleValueAdded
<1>1. balance \in Balances /\ RatesTypeOK /\ UNIT \in Nat /\ "sUSD" \in Currencies
  BY UnitAssumption, HoldersAndSynths DEF ExchangerTypeOK, Balances
<1>2. TotalValue = valueOf(balance)
  BY DEF TotalValue, valueOf, supplyOf
<1>3. TotalValue' = valueOf(balance')
  BY DEF TotalValue, valueOf, supplyOf, rateForCurrency, rateAtRound, currentRound
<1>4. rateForCurrency("sUSD") \in Nat
  BY <1>1, RateNat
<1>5. TotalValue \in Nat /\ TotalValue' = TotalValue
  <2>1. balance[FEE_ADDRESS]["sUSD"] \in Nat
    BY <1>1, HoldersAndSynths DEF Balances
  <2> QED BY <1>1, <1>2, <1>3, <2>1, HoldersAndSynths, ValueOfChanged
<1> HIDE DEF LittleValueAdded
<1>6. 2 * TotalValue' <= 2 * (TotalValue + UNIT) + rateForCurrency("sUSD")
  BY <1>1, <1>4, <1>5
<1> QED BY <1>1, <1>6 DEF LittleValueAdded

\* A queue that does not become shorter was not settled, or empty before: then
\* the settlement pays nothing.
LEMMA NothingSettled ==
  ASSUME ExchangerTypeOK, NEW h \in Holders, NEW s \in Currencies, exchanges'[h][s] = <<>>,
         Len(exchanges'[h][s]) >= Len(exchanges[h][s])
  PROVE  /\ exchanges[h][s] = <<>> /\ balanceAfterSettlement(h, s) = balance[h][s]
         /\ \A amount \in Nat : amountAfterSettlement(h, s, amount) = amount
<1>1. exchanges[h][s] \in Seq(ExchangeEntry) /\ balance[h][s] \in Nat
  BY DEF ExchangerTypeOK
<1>2. exchanges[h][s] = <<>>
  BY <1>1
<1>3. reclaimAmount(h, s) = 0 /\ rebateAmount(h, s) = 0
  <2>1. DOMAIN reclaims(h, s) = {} /\ DOMAIN rebates(h, s) = {}
    BY <1>2 DEF reclaims, rebates
  <2> QED BY <2>1, TotalOfNone DEF reclaimAmount, rebateAmount
<1>4. balanceAfterSettlement(h, s) = balance[h][s]
  BY <1>1, <1>3 DEF balanceAfterSettlement
<1>5. Max({balance[h][s] - balance[h][s], 0}) = 0
  BY <1>1, MaxMinOfTwo
<1>6. \A amount \in Nat : amountAfterSettlement(h, s, amount) = amount
  BY <1>2, <1>4, <1>5 DEF amountAfterSettlement
<1> QED BY <1>2, <1>4, <1>6

\* What an exchange that is done burns, issues and pays.
Exchanged(b, from, src, left, to, dest, received, fee) ==
  LET burned == [b EXCEPT ![from][src] = @ - left]
      issued == [burned EXCEPT ![to][dest] = @ + received]
  IN  [issued EXCEPT ![FEE_ADDRESS]["sUSD"] = @ + fee]

\* Three balances change in an exchange that is done: its value follows.
LEMMA ValueOfExchanged ==
  ASSUME RatesTypeOK, NEW b \in Balances, NEW from \in Holders, NEW src \in Currencies,
         NEW left \in Nat, left <= b[from][src],
         NEW to \in Holders, NEW dest \in Currencies, NEW received \in Nat, NEW fee \in Nat
  PROVE  /\ valueOf(b) \in Nat
         /\ valueOf(Exchanged(b, from, src, left, to, dest, received, fee)) \in Nat
         /\ valueOf(Exchanged(b, from, src, left, to, dest, received, fee))
                + rateForCurrency(src) * left
              = valueOf(b) + (rateForCurrency(dest) * received
                              + rateForCurrency("sUSD") * fee)
<1> DEFINE burned == [b EXCEPT ![from][src] = b[from][src] - left]
           issued == [burned EXCEPT ![to][dest] = burned[to][dest] + received]
           paid == [issued EXCEPT ![FEE_ADDRESS]["sUSD"] = issued[FEE_ADDRESS]["sUSD"] + fee]
           rs == rateForCurrency(src)
           rd == rateForCurrency(dest)
           ru == rateForCurrency("sUSD")
<1>1. /\ FEE_ADDRESS \in Holders /\ "sUSD" \in Currencies
      /\ rs \in Nat /\ rd \in Nat /\ ru \in Nat
  BY HoldersAndSynths, RateNat
<1>2. b[from][src] \in Nat /\ b[from][src] - left \in Nat
  BY DEF Balances
<1>3. /\ valueOf(b) \in Nat /\ burned \in Balances
      /\ valueOf(burned) + rs * b[from][src] = valueOf(b) + rs * (b[from][src] - left)
  BY <1>2, ValueOfChanged
<1> HIDE DEF burned
<1>4. burned[to][dest] \in Nat /\ burned[to][dest] + received \in Nat
  BY <1>3 DEF Balances
<1>5. /\ valueOf(burned) \in Nat /\ issued \in Balances
      /\ valueOf(issued) + rd * burned[to][dest]
           = valueOf(burned) + rd * (burned[to][dest] + received)
  BY <1>3, <1>4, ValueOfChanged
<1> HIDE DEF issued
<1>6. issued[FEE_ADDRESS]["sUSD"] \in Nat /\ issued[FEE_ADDRESS]["sUSD"] + fee \in Nat
  BY <1>1, <1>5 DEF Balances
<1>7. /\ valueOf(issued) \in Nat /\ paid \in Balances
      /\ valueOf(paid) + ru * issued[FEE_ADDRESS]["sUSD"]
           = valueOf(issued) + ru * (issued[FEE_ADDRESS]["sUSD"] + fee)
  BY <1>1, <1>5, <1>6, ValueOfChanged
<1> HIDE DEF paid
<1>8. valueOf(paid) \in Nat
  BY <1>1, <1>6, <1>7, ValueOfChanged
<1> DEFINE x == b[from][src]
           y == burned[to][dest]
           z == issued[FEE_ADDRESS]["sUSD"]
<1> HIDE DEF x, y, z, rs, rd, ru
<1>9. /\ rs * (x - left) = rs * x - rs * left /\ rd * (y + received) = rd * y + rd * received
      /\ ru * (z + fee) = ru * z + ru * fee
  BY <1>1, <1>2, <1>4, <1>6 DEF x, y, z
<1>10. /\ rs * x \in Nat /\ rs * left \in Nat /\ rd * y \in Nat /\ rd * received \in Nat
       /\ ru * z \in Nat /\ ru * fee \in Nat
  BY <1>1, <1>2, <1>4, <1>6, MulNat DEF x, y, z
<1>11. valueOf(burned) + rs * left = valueOf(b)
  BY <1>3, <1>5, <1>9, <1>10 DEF x
<1>12. valueOf(issued) = valueOf(burned) + rd * received
  <2>1. valueOf(issued) + rd * y = valueOf(burned) + rd * (y + received)
    BY <1>5 DEF y
  <2>2. valueOf(issued) \in Nat /\ valueOf(burned) \in Nat
    BY <1>5, <1>7
  <2> QED BY <1>9, <1>10, <2>1, <2>2
<1>13. valueOf(paid) = valueOf(issued) + ru * fee
  BY <1>7, <1>8, <1>9, <1>10 DEF z
<1>14. valueOf(paid) + rs * left = valueOf(b) + (rd * received + ru * fee)
  BY <1>3, <1>5, <1>7, <1>8, <1>10, <1>11, <1>12, <1>13
<1>15. Exchanged(b, from, src, left, to, dest, received, fee) = paid
  BY DEF Exchanged, burned, issued, paid
<1> QED BY <1>3, <1>8, <1>14, <1>15 DEF rs, rd, ru

\* The amounts of an exchange: what is received, the fee and what they are worth.
LEMMA ExchangeIsWorth ==
  ASSUME RatesTypeOK, RateOfSUSD, NEW left \in Nat, NEW src \in Currencies,
         NEW dest \in Currencies, rateForCurrency(dest) > 0
  PROVE  LET gross == valueAt(left, rateForCurrency(src), rateForCurrency(dest))
             received == amountAfterFee(gross, dest)
             fee == feeInSUSD(gross - received, dest)
         IN  /\ received \in Nat /\ fee \in Nat
             /\ 2 * (rateForCurrency(dest) * received + rateForCurrency("sUSD") * fee)
                  <= 2 * (rateForCurrency(src) * left) + 2 * UNIT + rateForCurrency(dest)
<1> DEFINE rs == rateForCurrency(src)
           rd == rateForCurrency(dest)
           ru == rateForCurrency("sUSD")
           v == multiplyDecimalRound(left, rs)
           g == valueAt(left, rs, rd)
           received == amountAfterFee(g, dest)
           f == g - received
           w == multiplyDecimalRound(f, rd)
           fee == feeInSUSD(f, dest)
<1>1. /\ rs \in Nat /\ rd \in Nat /\ rd > 0 /\ ru \in Nat /\ ru <= UNIT
      /\ UNIT \in Nat /\ UNIT > 0
  BY RateNat, SUSDAtMostUnit, UnitAssumption
<1>2. v \in Nat /\ Nearest(v, left * rs, UNIT)
  BY <1>1, MultiplyNat, MultiplicationRoundsToNearest
<1>3. g \in Nat /\ Nearest(g, v * UNIT, rd)
  <2>1. g = divideDecimalRound(v, rd)
    BY DEF valueAt
  <2> HIDE DEF v, rd, g
  <2> QED BY <1>1, <1>2, <2>1, DivideNat, DivisionRoundsToNearest
<1> HIDE DEF g, v
<1>4. received \in Nat /\ f \in Nat /\ g = received + f
  <2>1. received \in Nat /\ received <= g
    BY <1>3, AfterFeeNat
  <2> QED BY <1>3, <2>1
<1> HIDE DEF received, f
<1>5. w \in Nat /\ Nearest(w, f * rd, UNIT)
  BY <1>1, <1>4, MultiplyNat, MultiplicationRoundsToNearest
<1>6. dest = "sUSD" => fee = f
  BY DEF feeInSUSD
<1>7. dest # "sUSD" => fee = w
  <2> SUFFICES ASSUME dest # "sUSD" PROVE fee = w
    OBVIOUS
  <2>1. fee = divideDecimalRound(w, UNIT)
    BY DEF feeInSUSD, valueAt
  <2> HIDE DEF w, fee
  <2>2. fee \in Nat /\ Nearest(fee, w * UNIT, UNIT)
    BY <1>1, <1>5, <2>1, DivideNat, DivisionRoundsToNearest
  <2>3. Nearest(w, w * UNIT, UNIT)
    BY <1>1, <1>5, MulNat DEF Nearest
  <2>4. w * UNIT \in Nat
    BY <1>1, <1>5, MulNat
  <2> QED BY <1>1, <1>5, <2>2, <2>3, <2>4, NearestIsUnique
<1> HIDE DEF rs, fee, w
<1>8. /\ fee \in Nat
      /\ ru * fee <= rd * f \/ 2 * (fee * UNIT) <= 2 * (f * rd) + UNIT
  <2>1. CASE dest = "sUSD"
    <3>1. ru * f \in Nat
      BY <1>1, <1>4, MulNat
    <3> QED BY <1>4, <1>6, <2>1, <3>1
  <2>2. CASE dest # "sUSD"
    BY <1>5, <1>7, <2>2 DEF Nearest
  <2> QED BY <2>1, <2>2
<1> HIDE DEF rd, ru
<1>9. 2 * (v * UNIT) <= 2 * (left * rs) + UNIT /\ 2 * (g * rd) <= 2 * (v * UNIT) + rd
  BY <1>2, <1>3 DEF Nearest
<1>10. 2 * (rd * received + ru * fee) <= 2 * (rs * left) + 2 * UNIT + rd
  BY <1>1, <1>2, <1>3, <1>4, <1>8, <1>9, ConversionsKeepValue
<1> QED BY <1>4, <1>8, <1>10 DEF g, received, f, fee, rs, rd, ru

\* The queues do not become shorter: nothing is settled that was waiting.
QueuesKept ==
  \A h \in Holders, s \in Currencies : Len(exchanges'[h][s]) >= Len(exchanges[h][s])

\* An exchange adds its roundings at most.
LEMMA ExchangeAddsLittle ==
  ASSUME ExchangerTypeOK, RateOfSUSD, NEW from \in Accounts, NEW src \in Currencies,
         NEW amount \in Nat, NEW dest \in Currencies, NEW to \in Holders,
         exchange(from, src, amount, dest, to), QueuesKept
  PROVE  LittleValueAdded
<1> DEFINE after == balanceAfterSettlement(from, src)
           settled == [balance EXCEPT ![from][src] = after]
           left == amountAfterSettlement(from, src, amount)
           gross == valueAt(left, rateForCurrency(src), rateForCurrency(dest))
           received == amountAfterFee(gross, dest)
           fee == feeInSUSD(gross - received, dest)
           burned == [settled EXCEPT ![from][src] = @ - left]
           issued == [burned EXCEPT ![to][dest] = @ + received]
           paid == [issued EXCEPT ![FEE_ADDRESS]["sUSD"] = @ + fee]
<1>1. /\ UNCHANGED rounds /\ rateForCurrency(dest) > 0
      /\ balance' = settled \/ (left <= settled[from][src] /\ balance' = paid)
  BY DEF exchange
<1>2. from \in Holders /\ balance \in Balances /\ RatesTypeOK
  BY HoldersAndSynths DEF ExchangerTypeOK, Balances
<1>3. exchanges'[from][src] = <<>>
  <2>1. src # dest /\ (\/ SettlesOnly(from, src, after)
                       \/ \E l, r, x \in Nat, entry \in ExchangeEntry :
                            ExchangesInto(from, src, l, to, dest, r, x, entry))
    BY ExchangeMoves
  <2> QED BY <1>2, <2>1 DEF SettlesOnly, ExchangesInto
<1>4. after = balance[from][src] /\ left = amount
  BY <1>2, <1>3, NothingSettled DEF QueuesKept
<1>5. settled = balance
  BY <1>2, <1>4 DEF Balances
<1> HIDE DEF after, left
<1>6. CASE balance' = settled
  BY <1>1, <1>5, <1>6, SameValue
<1>7. CASE left <= settled[from][src] /\ balance' = paid
  <2> HIDE DEF settled
  <2>1. /\ received \in Nat /\ fee \in Nat
        /\ 2 * (rateForCurrency(dest) * received + rateForCurrency("sUSD") * fee)
             <= 2 * (rateForCurrency(src) * left) + 2 * UNIT + rateForCurrency(dest)
    BY <1>1, <1>2, <1>4, ExchangeIsWorth
  <2> HIDE DEF received, fee
  <2>2. /\ valueOf(balance) \in Nat /\ valueOf(balance') \in Nat
        /\ valueOf(balance') + rateForCurrency(src) * left
             = valueOf(balance) + (rateForCurrency(dest) * received
                                   + rateForCurrency("sUSD") * fee)
    <3>1. left \in Nat /\ left <= balance[from][src]
      BY <1>4, <1>5, <1>7
    <3> DEFINE done == Exchanged(balance, from, src, left, to, dest, received, fee)
    <3>2. /\ valueOf(balance) \in Nat /\ valueOf(done) \in Nat
          /\ valueOf(done) + rateForCurrency(src) * left
               = valueOf(balance) + (rateForCurrency(dest) * received
                                     + rateForCurrency("sUSD") * fee)
      BY <1>2, <2>1, <3>1, ValueOfExchanged
    <3>3. balance' = done
      BY <1>5, <1>7 DEF Exchanged
    <3> HIDE DEF done
    <3> QED BY <3>2, <3>3
  <2>3. TotalValue = valueOf(balance) /\ TotalValue' = valueOf(balance')
    BY <1>1 DEF TotalValue, valueOf, supplyOf, rateForCurrency, rateAtRound, currentRound
  <2> DEFINE V == valueOf(balance)
             VV == valueOf(balance')
             sold == rateForCurrency(src) * left
             bought == rateForCurrency(dest) * received + rateForCurrency("sUSD") * fee
  <2>4. sold \in Nat /\ bought \in Nat /\ rateForCurrency(dest) \in Nat /\ UNIT \in Nat
    <3>1. rateForCurrency("sUSD") * fee \in Nat /\ rateForCurrency(dest) * received \in Nat
      BY <1>2, <2>1, HoldersAndSynths, RateNat, MulNat
    <3> QED BY <1>2, <1>4, <3>1, RateNat, MulNat, UnitAssumption
  <2> HIDE DEF V, VV, sold, bought
  <2>5. V \in Nat /\ VV \in Nat /\ VV + sold = V + bought
    BY <2>2 DEF V, VV, sold, bought
  <2>6. 2 * bought <= 2 * sold + 2 * UNIT + rateForCurrency(dest)
    BY <2>1 DEF sold, bought
  <2>7. 2 * VV <= 2 * (V + UNIT) + rateForCurrency(dest)
    BY <2>4, <2>5, <2>6
  <2> QED BY <2>3, <2>7 DEF LittleValueAdded, V, VV
<1> QED BY <1>1, <1>6, <1>7

\* No operation of a holder that settles nothing adds value.
LEMMA StepsAddLittle ==
  ASSUME ExchangerInv, RateOfSUSD, ExchangerNext, UNCHANGED rounds, QueuesKept
  PROVE  LittleValueAdded
<1> USE AmountsNat, HoldersAndSynths
<1>1. ExchangerTypeOK /\ RatesTypeOK /\ balance \in Balances
  BY DEF ExchangerInv, ExchangerTypeOK, Balances
<1>2. ASSUME balance' = balance PROVE LittleValueAdded
  BY <1>1, <1>2, SameValue
<1>3. ASSUME NEW a \in Accounts, NEW b \in Holders, NEW s \in Currencies, a # b,
             NEW value \in Nat, value <= balance[a][s], Moved(a, b, s, value)
      PROVE  LittleValueAdded
  <2> DEFINE moved == [balance EXCEPT ![a][s] = @ - value, ![b][s] = @ + value]
  <2>1. a \in Holders
    OBVIOUS
  <2>2. valueOf(moved) = valueOf(balance)
    BY <1>1, <1>3, <2>1, ValueOfMoved
  <2>3. balance' = moved
    BY <1>3 DEF Moved
  <2> HIDE DEF moved
  <2>4. valueOf(balance') = valueOf(balance)
    BY <2>2, <2>3
  <2> QED BY <1>1, <2>4, SameValue
<1>4. ASSUME NEW a \in Accounts, NEW b \in Holders, NEW s \in Currencies, a # b,
             NEW value \in ExchangeAmounts, canTransfer(a, s, value), Moved(a, b, s, value)
      PROVE  LittleValueAdded
  <2>1. value <= transferableSynths(a, s) /\ settlementIsDefined(a, s)
    BY <1>4 DEF canTransfer
  <2>2. reclaimAmount(a, s) \in Nat /\ balance[a][s] \in Nat
    BY <1>1, <1>4, <2>1, OwedNat DEF Balances
  <2>3. value <= balance[a][s]
    BY <2>1, <2>2 DEF transferableSynths
  <2> QED BY <1>3, <1>4, <2>3
<1>5. ASSUME NEW a \in Accounts, NEW src \in Currencies, NEW dest \in Currencies,
             NEW amount \in ExchangeAmounts, Exchange(a, src, amount, dest)
      PROVE  LittleValueAdded
  BY <1>1, <1>5, ExchangeAddsLittle DEF Exchange
<1>6. ASSUME NEW h \in Holders, NEW s \in Currencies, Settle(h, s)
      PROVE  LittleValueAdded
  <2>1. exchanges[h][s] # <<>> /\ exchanges'[h][s] = <<>>
    BY <1>1, <1>6 DEF Settle, ExchangerTypeOK
  <2> QED BY <1>1, <2>1, NothingSettled DEF QueuesKept
<1>7. ASSUME NEW a \in Accounts, NEW b \in Holders, NEW s \in Currencies, a # b,
             NEW value \in ExchangeAmounts, TransferSynth(a, b, s, value)
      PROVE  LittleValueAdded
  BY <1>4, <1>7 DEF TransferSynth, Moved
<1>8. ASSUME NEW a \in Accounts, NEW b \in Holders, NEW s \in Currencies, a # b,
             NEW value \in ExchangeAmounts, TransferAndSettle(a, b, s, value)
      PROVE  LittleValueAdded
  <2>1. exchanges'[a][s] = <<>>
    BY <1>1, <1>8 DEF TransferAndSettle, ExchangerTypeOK
  <2>2. exchanges[a][s] = <<>> /\ balanceAfterSettlement(a, s) = balance[a][s]
    BY <1>1, <2>1, NothingSettled DEF QueuesKept
  <2>3. /\ value <= balance[a][s]
        /\ balance' = [balance EXCEPT ![a][s] = balance[a][s] - value, ![b][s] = @ + value]
    BY <1>8, <2>2 DEF TransferAndSettle
  <2>4. Moved(a, b, s, value)
    BY <2>3 DEF Moved
  <2> QED BY <1>3, <1>8, <2>3, <2>4
<1>9. ASSUME NEW a \in Accounts, NEW s \in Currencies, NEW value \in ExchangeAmounts,
             TransferToFeeAddress(a, s, value)
      PROVE  LittleValueAdded
  <2>1. CASE exchange(a, s, value, "sUSD", FEE_ADDRESS)
    BY <1>1, <2>1, ExchangeAddsLittle
  <2>2. CASE Moved(a, FEE_ADDRESS, s, value)
    BY <1>4, <1>9, <2>2 DEF TransferToFeeAddress
  <2> QED BY <1>9, <2>1, <2>2 DEF TransferToFeeAddress, Moved
<1>10. CASE ExchangerStep
  <2>1. ASSUME NEW s \in Currencies, SuspendSynthWithInvalidRate(s) PROVE LittleValueAdded
    BY <1>2, <2>1 DEF SuspendSynthWithInvalidRate
  <2> QED BY <1>5, <1>6, <1>7, <1>8, <1>9, <1>10, <2>1 DEF ExchangerStep
<1>11. CASE UpdateRates \/ DeleteRate \/ UpdateSuspension \/ Tick
  BY <1>2, <1>11 DEF UpdateRates, DeleteRate, UpdateSuspension, Tick
<1> QED BY <1>10, <1>11 DEF ExchangerNext

\* Synths get worth more by settlements and rates only: what exchanges, their
\* fees and transfers add is the roundings of the conversions, whatever the
\* rates, deleted and invalid ones included.
THEOREM ValueIsKept == ExchangerSpec => ExchangesAddNoValue
<1>1. ASSUME ExchangerInv, RateOfSUSD, [ExchangerNext]_exchangerVars
      PROVE  [UNCHANGED rounds /\ QueuesKept => LittleValueAdded]_exchangerVars
  BY <1>1, StepsAddLittle
<1>2. ExchangerInv /\ RateOfSUSD /\ [ExchangerNext]_exchangerVars =>
        [(UNCHANGED rounds /\ \A h \in Holders, s \in Currencies :
                                Len(exchanges'[h][s]) >= Len(exchanges[h][s])) =>
           \E s \in Currencies :
             2 * TotalValue' <= 2 * (TotalValue + UNIT) + rateForCurrency(s)]_exchangerVars
  BY <1>1 DEF QueuesKept, LittleValueAdded
<1> QED BY <1>2, ExchangerInvariance, RateOfSUSDInvariant, PTL DEF ExchangerSpec, ExchangesAddNoValue
==============================================================================
