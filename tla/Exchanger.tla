------------------------------- MODULE Exchanger -------------------------------
(***************************************************************************)
(* Exchanging synths and settling what was exchanged                       *)
(* (contracts/Exchanger.sol, with the queues of                            *)
(* contracts/ExchangeState.sol and the transfers of contracts/Synth.sol    *)
(* that depend on them).                                                   *)
(* An exchange is done at the present rates; once its waiting period has   *)
(* passed it is settled, for anyone who asks, at the rates of the end of   *)
(* that period: what was received too much is reclaimed, what is missing   *)
(* is refunded.  A rate too far from the last one trips a circuit breaker. *)
(***************************************************************************)
EXTENDS ExchangeRates

CONSTANTS Accounts, FEE_ADDRESS,
          InitialSUSD,        \* what each account has issued of sUSD
          ExchangeAmounts,    \* the amounts that are exchanged and transferred
          ExchangeFeeRate,    \* synth exchanged into -> fee rate
          WaitingPeriodSecs,
          PriceDeviationThresholdFactor,
          MaxEntriesInQueue,
          Suspensions         \* the sections and synths that get suspended

ASSUME ExchangerAssumption ==
  /\ IsFiniteSet(Accounts) /\ FEE_ADDRESS \notin Accounts
  /\ InitialSUSD \in Nat /\ ExchangeAmounts \subseteq Nat
  /\ ExchangeFeeRate \in [Currencies -> 0 .. UNIT]
  /\ WaitingPeriodSecs \in Nat /\ MaxEntriesInQueue \in Nat
  /\ PriceDeviationThresholdFactor \in Nat
  /\ Suspensions \subseteq {"System", "Exchange"} \cup Currencies

Holders == Accounts \cup {FEE_ADDRESS}

VARIABLES balance,          \* holder -> synth -> balance
          exchanges,        \* holder -> synth -> its unsettled exchanges
          lastExchangeRate, \* synth -> rate of its last exchange, 0 before
          suspended,        \* the suspended sections and synths
          feesRecorded      \* fees the FeePool was told of

exchangerVars == <<now, rounds, balance, exchanges, lastExchangeRate, suspended, feesRecorded>>

ExchangeEntry == [src : Currencies, amount : Nat, amountReceived : Nat, timestamp : Nat,
                  roundIdForSrc : Nat, roundIdForDest : Nat]

ExchangerInit ==
  /\ ExchangeRatesInit
  /\ balance = [h \in Holders |-> [s \in Currencies |->
       IF h \in Accounts /\ s = "sUSD" THEN InitialSUSD ELSE 0]]
  /\ exchanges = [h \in Holders |-> [s \in Currencies |-> <<>>]]
  /\ lastExchangeRate = [s \in Currencies |-> 0]
  /\ suspended = {}
  /\ feesRecorded = 0
------------------------------------------------------------------------------
(* Views. *)

synthActive(s) == suspended \cap {"System", s} = {}
exchangeActive == suspended \cap {"System", "Exchange"} = {}

\* Mutant: the period of the first exchange decides.
getFirstTimestamp(h, s) ==
  IF exchanges[h][s] = <<>> THEN 0 ELSE exchanges[h][s][1].timestamp

getMaxTimestamp(h, s) ==
  Max({exchanges[h][s][i].timestamp : i \in DOMAIN exchanges[h][s]} \cup {0})

\* maxSecsLeftInWaitingPeriod is zero.
waitingIsOver(h, s) ==
  getMaxTimestamp(h, s) = 0 \/ now >= getMaxTimestamp(h, s) + WaitingPeriodSecs

isDeviationAboveThreshold(base, comparison) ==
  IF 0 \in {base, comparison} THEN TRUE
  ELSE divideDecimal(Max({base, comparison}), Min({base, comparison}))
         >= PriceDeviationThresholdFactor

amountAfterFee(amount, dest) == multiplyDecimal(amount, UNIT - ExchangeFeeRate[dest])

\* getRoundIdsAtPeriodEnd, and the rate of that round.
rateAtPeriodEnd(key, start, entry) ==
  rateAtRound(key, getLastRoundIdBeforeElapsedSecs(key, start, entry.timestamp,
                                                   WaitingPeriodSecs))
srcRate(entry) == rateAtPeriodEnd(entry.src, entry.roundIdForSrc, entry)
destRate(entry, dest) == rateAtPeriodEnd(dest, entry.roundIdForDest, entry)

amountShouldHaveReceived(entry, dest) ==
  amountAfterFee(valueAt(entry.amount, srcRate(entry), destRate(entry, dest)), dest)

\* The settlement divides by the rate of the destination.
settlementIsDefined(h, s) ==
  \A i \in DOMAIN exchanges[h][s] : destRate(exchanges[h][s][i], s) > 0

settles(entry, dest) ==
  ~isDeviationAboveThreshold(entry.amountReceived, amountShouldHaveReceived(entry, dest))

reclaimOf(entry, dest) ==
  LET due == amountShouldHaveReceived(entry, dest)
  IN IF settles(entry, dest) /\ entry.amountReceived > due THEN entry.amountReceived - due ELSE 0

rebateOf(entry, dest) ==
  LET due == amountShouldHaveReceived(entry, dest)
  IN IF settles(entry, dest) /\ due > entry.amountReceived THEN due - entry.amountReceived ELSE 0

\* _settlementOwing adds up the entries of a queue.
sumOfAll(amounts) == MapThenSumSet(LAMBDA i : amounts[i], DOMAIN amounts)
reclaims(h, s) == [i \in DOMAIN exchanges[h][s] |-> reclaimOf(exchanges[h][s][i], s)]
rebates(h, s) == [i \in DOMAIN exchanges[h][s] |-> rebateOf(exchanges[h][s][i], s)]
reclaimAmount(h, s) == sumOfAll(reclaims(h, s))
rebateAmount(h, s) == sumOfAll(rebates(h, s))

\* Mutant: the burn is not checked.
reclaimIsUnchecked(h, s) == TRUE

\* What a reclaim burns has to be there.
reclaimIsCovered(h, s) == balance[h][s] + rebateAmount(h, s) >= reclaimAmount(h, s)
balanceAfterSettlement(h, s) == balance[h][s] + rebateAmount(h, s) - reclaimAmount(h, s)

\* Mutant: what is owed can be transferred.
transferableOfAll(h, s) == balance[h][s]

transferableSynths(h, s) ==
  IF reclaimAmount(h, s) > balance[h][s] THEN 0 ELSE balance[h][s] - reclaimAmount(h, s)

\* _internalSettle reverts unless all of this holds.
canSettle(h, s) == waitingIsOver(h, s) /\ settlementIsDefined(h, s) /\ reclaimIsCovered(h, s)

\* Mutant: only the last rate of the oracle is compared.
deviatesFromPrevious(s) ==
  LET previous == rateAtRound(s, currentRound(s) - 1)
  IN previous > 0 /\ isDeviationAboveThreshold(previous, rateForCurrency(s))

\* Against the rate of the last exchange or, before there is one, the three
\* rounds before the present one.
isSynthRateInvalid(s) ==
  \/ rateForCurrency(s) = 0
  \/ /\ lastExchangeRate[s] > 0
     /\ isDeviationAboveThreshold(lastExchangeRate[s], rateForCurrency(s))
  \/ /\ lastExchangeRate[s] = 0
     /\ \E i \in 1 .. 3 : LET past == rateAtRound(s, currentRound(s) - i)
                          IN past > 0 /\ isDeviationAboveThreshold(past, rateForCurrency(s))
------------------------------------------------------------------------------
(* Operations. *)

\* calculateAmountAfterSettlement
amountAfterSettlement(from, src, amount) ==
  LET after == balanceAfterSettlement(from, src)
      refunded == Max({after - balance[from][src], 0})
  IN IF exchanges[from][src] = <<>> THEN amount ELSE Min({amount, after}) + refunded

\* Mutant: the fee is recorded in the synth it was taken in.
feeOfDestination(fee, dest) == fee

feeInSUSD(fee, dest) ==
  IF dest = "sUSD" THEN fee ELSE valueAt(fee, rateForCurrency(dest), UNIT)

\* Mutant: the amount is recorded as it was before its exchange.
transferredUnconverted(to, amount, received) == IF to = FEE_ADDRESS THEN amount ELSE 0

\* Exchanges for the fee address are those of Synth._transferToFeeAddress, which
\* records all that was received as a fee.
transferredFee(to, amount, received) == IF to = FEE_ADDRESS THEN received ELSE 0

\* _exchange, in its four outcomes: nothing is left to exchange, the breaker
\* trips on the source or on the destination, or the exchange is done.  The
\* settlement before it stays in each of them.
exchange(from, src, amount, dest, to) ==
  LET settled == [balance EXCEPT ![from][src] = balanceAfterSettlement(from, src)]
      emptied == [exchanges EXCEPT ![from][src] = <<>>]
      left == amountAfterSettlement(from, src, amount)
      gross == valueAt(left, rateForCurrency(src), rateForCurrency(dest))
      received == amountAfterFee(gross, dest)
      fee == feeInSUSD(gross - received, dest)
      entry == [src |-> src, amount |-> left, amountReceived |-> received, timestamp |-> now,
                roundIdForSrc |-> currentRound(src), roundIdForDest |-> currentRound(dest)]
      nothingLeft == exchanges[from][src] # <<>> /\ left = 0
      done == ~nothingLeft /\ ~isSynthRateInvalid(src) /\ ~isSynthRateInvalid(dest)
  IN
  /\ src # dest
  /\ amount > 0
  /\ ~rateIsStale(src) /\ ~rateIsStale(dest)
  /\ canSettle(from, src)
  /\ rateForCurrency(dest) > 0
  /\ \/ /\ ~done
        /\ balance' = settled
        /\ exchanges' = emptied
        /\ feesRecorded' = feesRecorded
     \/ /\ done
        /\ left <= settled[from][src]
        /\ Len(emptied[to][dest]) < MaxEntriesInQueue
        /\ LET burned == [settled EXCEPT ![from][src] = @ - left]
               issued == [burned EXCEPT ![to][dest] = @ + received]
           IN balance' = [issued EXCEPT ![FEE_ADDRESS]["sUSD"] = @ + fee]
        /\ exchanges' = [emptied EXCEPT ![to][dest] = Append(@, entry)]
        /\ feesRecorded' = feesRecorded + fee + transferredFee(to, left, received)
  /\ suspended' = suspended \cup
       IF nothingLeft \/ done THEN {}
       ELSE IF isSynthRateInvalid(src) THEN {src} ELSE {dest}
  /\ lastExchangeRate' = IF nothingLeft \/ isSynthRateInvalid(src) THEN lastExchangeRate
       ELSE IF isSynthRateInvalid(dest)
       THEN [lastExchangeRate EXCEPT ![src] = rateForCurrency(src)]
       ELSE [lastExchangeRate EXCEPT ![src] = rateForCurrency(src),
                                     ![dest] = rateForCurrency(dest)]
  /\ UNCHANGED <<now, rounds>>

\* Synthetix.exchange
Exchange(from, src, amount, dest) ==
  /\ exchangeActive /\ synthActive(src) /\ synthActive(dest)
  /\ exchange(from, src, amount, dest, from)

\* settle, which anyone may call for any holder
Settle(h, s) ==
  /\ synthActive(s)
  /\ exchanges[h][s] # <<>>
  /\ canSettle(h, s)
  /\ balance' = [balance EXCEPT ![h][s] = balanceAfterSettlement(h, s)]
  /\ exchanges' = [exchanges EXCEPT ![h][s] = <<>>]
  /\ UNCHANGED <<now, rounds, lastExchangeRate, suspended, feesRecorded>>

\* Synth._ensureCanTransfer
canTransfer(from, s, value) ==
  /\ waitingIsOver(from, s)
  /\ settlementIsDefined(from, s)
  /\ value <= transferableSynths(from, s)
  /\ synthActive(s)

\* transfer, and transferFrom, which does not record what goes to the fee address
TransferSynth(from, to, s, value) ==
  /\ canTransfer(from, s, value)
  /\ balance' = [balance EXCEPT ![from][s] = @ - value, ![to][s] = @ + value]
  /\ UNCHANGED <<now, rounds, exchanges, lastExchangeRate, suspended, feesRecorded>>

\* transferAndSettle: what is left after the settlement is transferred at most
TransferAndSettle(from, to, s, value) ==
  LET after == balanceAfterSettlement(from, s)
      moved == IF exchanges[from][s] = <<>> THEN value ELSE Min({value, after})
  IN
  /\ synthActive(s)
  /\ canSettle(from, s)
  /\ moved <= after
  /\ balance' = [balance EXCEPT ![from][s] = after - moved, ![to][s] = @ + moved]
  /\ exchanges' = [exchanges EXCEPT ![from][s] = <<>>]
  /\ UNCHANGED <<now, rounds, lastExchangeRate, suspended, feesRecorded>>

\* Synth._transferToFeeAddress: another synth than sUSD is exchanged for the
\* fee address.
TransferToFeeAddress(from, s, value) ==
  /\ canTransfer(from, s, value)
  /\ \/ /\ s # "sUSD"
        /\ exchange(from, s, value, "sUSD", FEE_ADDRESS)
     \/ /\ s = "sUSD"
        /\ balance' = [balance EXCEPT ![from][s] = @ - value, ![FEE_ADDRESS][s] = @ + value]
        /\ feesRecorded' = feesRecorded + value
        /\ UNCHANGED <<now, rounds, exchanges, lastExchangeRate, suspended>>

SuspendSynthWithInvalidRate(s) ==
  /\ "System" \notin suspended
  /\ isSynthRateInvalid(s)
  /\ suspended' = suspended \cup {s}
  /\ suspended' # suspended
  /\ UNCHANGED <<now, rounds, balance, exchanges, lastExchangeRate, feesRecorded>>
------------------------------------------------------------------------------
(* The environment. *)

UpdateRates ==
  /\ \E key \in Currencies, newRate \in OracleRates,
        timeSent \in now - MaxDelay .. now + ORACLE_FUTURE_LIMIT :
       timeSent > 0 /\ updateRate(key, newRate, timeSent)
  /\ UNCHANGED <<now, balance, exchanges, lastExchangeRate, suspended, feesRecorded>>

DeleteRate ==
  /\ \E key \in Deletable : deleteRate(key)
  /\ UNCHANGED <<now, balance, exchanges, lastExchangeRate, suspended, feesRecorded>>

\* Suspensions by the authority, and resumption.
UpdateSuspension ==
  /\ \E section \in Suspensions :
       suspended' = IF section \in suspended THEN suspended \ {section}
                    ELSE suspended \cup {section}
  /\ UNCHANGED <<now, rounds, balance, exchanges, lastExchangeRate, feesRecorded>>

Tick ==
  /\ now < MaxTime
  /\ now' = now + 1
  /\ UNCHANGED <<rounds, balance, exchanges, lastExchangeRate, suspended, feesRecorded>>

ExchangerStep ==
  \/ \E a \in Accounts, src, dest \in Currencies, amount \in ExchangeAmounts :
       Exchange(a, src, amount, dest)
  \/ \E h \in Holders, s \in Currencies : Settle(h, s)
  \/ \E a \in Accounts, b \in Holders, s \in Currencies, value \in ExchangeAmounts :
       a # b /\ (TransferSynth(a, b, s, value) \/ TransferAndSettle(a, b, s, value))
  \/ \E a \in Accounts, s \in Currencies, value \in ExchangeAmounts :
       TransferToFeeAddress(a, s, value)
  \/ \E s \in Currencies : SuspendSynthWithInvalidRate(s)

ExchangerNext ==
  ExchangerStep \/ UpdateRates \/ DeleteRate \/ UpdateSuspension \/ Tick

ExchangerSpec == ExchangerInit /\ [][ExchangerNext]_exchangerVars
------------------------------------------------------------------------------
(* Properties. *)

\* Types: amounts are naturals, every pending exchange names rounds of synths.
ExchangerTypeOK ==
  /\ RatesTypeOK
  /\ balance \in [Holders -> [Currencies -> Nat]]
  /\ exchanges \in [Holders -> [Currencies -> Seq(ExchangeEntry)]]
  /\ lastExchangeRate \in [Currencies -> Nat]
  /\ suspended \subseteq {"System", "Exchange"} \cup Currencies
  /\ feesRecorded \in Nat

Pending(h, s) == DOMAIN exchanges[h][s]
PeriodEnd(entry) == entry.timestamp + WaitingPeriodSecs
IsOver(entry) == now >= PeriodEnd(entry)

\* The waiting period: what was received in an exchange stays until the period
\* of the latest exchange into that synth is over.  A second exchange extends
\* the wait for the first (ExchangeState.getMaxTimestamp).
FundsStayWhileWaiting ==
  [][\A h \in Holders, s \in Currencies : balance'[h][s] < balance[h][s] =>
       \A i \in Pending(h, s) : IsOver(exchanges[h][s][i])]_exchangerVars

\* The rate a settlement uses: the last one dated up to the end of the period,
\* or the one of the exchange if there is none.
RateAtEnd(key, start, end) ==
  rounds[key][Max({start} \cup {id \in start .. Len(rounds[key]) : rounds[key][id].time <= end})].rate

\* What is paid when an exchange is settled: the difference to the price at the
\* end of its period, unless the two are beyond the threshold.
Adjustment(entry, dest) ==
  LET end == PeriodEnd(entry)
      due == amountAfterFee(valueAt(entry.amount, RateAtEnd(entry.src, entry.roundIdForSrc, end),
                                    RateAtEnd(dest, entry.roundIdForDest, end)), dest)
      amounts == {due, entry.amountReceived}
  IN IF Max(amounts) * UNIT < PriceDeviationThresholdFactor * Min(amounts)
     THEN due - entry.amountReceived ELSE 0

\* The step empties this queue and no other.
Settled(h, s) == exchanges[h][s] # <<>> /\ exchanges' = [exchanges EXCEPT ![h][s] = <<>>]

\* Settling gives every holder the price of the end of the waiting period
\* whenever the settlement takes place and however many rates have come since.
SettledAtPeriodEnd ==
  [][\A h \in Holders, s \in Currencies : Settled(h, s) /\ Settle(h, s) =>
       balance'[h][s] = balance[h][s] +
         sumOfAll([i \in Pending(h, s) |-> Adjustment(exchanges[h][s][i], s)])]_exchangerVars

\* This step brings no rate dated within a period that is over, and deletes none.
RatesAreFinalFor(h, s) ==
  \A key \in Currencies :
    /\ Len(rounds'[key]) >= Len(rounds[key])
    /\ \A id \in Len(rounds[key]) + 1 .. Len(rounds'[key]), i \in Pending(h, s) :
         IsOver(exchanges[h][s][i]) => rounds'[key][id].time > PeriodEnd(exchanges[h][s][i])

\* Once the waiting period is over, no new rate changes what is owed, unless it
\* is dated within the period and comes late.
OwingIsFinal ==
  [][\A h \in Holders, s \in Currencies :
       (/\ rounds' # rounds
        /\ waitingIsOver(h, s) /\ settlementIsDefined(h, s)
        /\ RatesAreFinalFor(h, s)) =>
       /\ reclaimAmount(h, s)' = reclaimAmount(h, s)
       /\ rebateAmount(h, s)' = rebateAmount(h, s)]_exchangerVars

\* The most that a pending exchange may still have reclaimed.
MayBeReclaimed(h, s, i) ==
  LET entry == exchanges[h][s][i]
  IN IF IsOver(entry) THEN reclaimOf(entry, s) ELSE entry.amountReceived

Covered(h, s) ==
  balance[h][s] >= sumOfAll([i \in Pending(h, s) |-> MayBeReclaimed(h, s, i)])

\* What will be reclaimed stays in the holder's balance through transfers,
\* exchanges and the passing of time, so that the settlement cannot fail; only a
\* rate dated within a period that is over can take it beyond the balance.
OwedStaysCovered ==
  [][\A h \in Holders, s \in Currencies :
       Covered(h, s) /\ RatesAreFinalFor(h, s) => Covered(h, s)']_exchangerVars

\* The circuit breaker: the rate a synth is exchanged at never moves by the
\* threshold factor from one exchange to the next, over any number of rates
\* reported in between.
BreakerBoundsPriceSteps ==
  [][\A s \in Currencies :
       LET used == {lastExchangeRate[s], lastExchangeRate'[s]}
       IN 0 \in used \/ Max(used) * UNIT < PriceDeviationThresholdFactor * Min(used)
          \/ lastExchangeRate'[s] = lastExchangeRate[s]]_exchangerVars

\* The value of all synths at the present rates, times UNIT.
TotalValue ==
  sumOfAll([s \in Currencies |-> rateForCurrency(s) * sumOfAll([h \in Holders |-> balance[h][s]])])

\* Only settlements and rates add value: an exchange with its fee, and every
\* transfer, keep it up to half a unit for each of three conversions, two of
\* which end in sUSD and one in a synth.
ExchangesAddNoValue ==
  [][(UNCHANGED rounds /\ \A h \in Holders, s \in Currencies :
                            Len(exchanges'[h][s]) >= Len(exchanges[h][s])) =>
       \E s \in Currencies :
         2 * TotalValue' <= 2 * (TotalValue + UNIT) + rateForCurrency(s)]_exchangerVars

Shortfall == feesRecorded - balance[FEE_ADDRESS]["sUSD"]

\* Fees are recorded as they reach the fee address: what was recorded and is
\* not held grows by nothing but a settlement for the fee address.
FeesRecordedAreHeld ==
  [][Shortfall' > Shortfall => Settled(FEE_ADDRESS, "sUSD")]_exchangerVars
================================================================================
