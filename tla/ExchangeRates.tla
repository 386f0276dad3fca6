----------------------------- MODULE ExchangeRates -----------------------------
(***************************************************************************)
(* The rounds of rates that the oracle reports                             *)
(* (contracts/ExchangeRates.sol).  A rate carries the time it was sent,    *)
(* which may lie before or shortly after the block that stores it.         *)
(* Aggregators and inverse pricing are left out: rounds are those the      *)
(* contract stores.                                                        *)
(***************************************************************************)
EXTENDS SafeDecimalMath, Sequences, FiniteSets, FiniteSetsExt

CONSTANTS Currencies,          \* the synths' keys, "sUSD" among them
          OracleRates,         \* the rates the oracle reports
          ORACLE_FUTURE_LIMIT, \* how far ahead of the block a rate may be dated
          RateStalePeriod,
          MaxDelay,            \* how late a rate may arrive
          Deletable,           \* the synths whose rates the oracle deletes
          MaxRounds,           \* bound on the rounds of a synth
          MaxTime              \* bound on now

\* The time of deployment: a time of zero, which stands for no rate, is stale.
StartTime == RateStalePeriod + 1

ASSUME ExchangeRatesAssumption ==
  /\ IsFiniteSet(Currencies) /\ "sUSD" \in Currencies
  /\ OracleRates \subseteq Nat \ {0} /\ OracleRates # {}
  /\ ORACLE_FUTURE_LIMIT \in Nat /\ RateStalePeriod \in Nat /\ MaxDelay \in Nat
  /\ Deletable \subseteq Currencies
  /\ MaxRounds \in Nat /\ MaxTime \in Nat

VARIABLES now,
          rounds \* synth -> its rounds; round ids start at 1

RateAndUpdatedTime == [rate : Nat, time : Nat]

\* The deployment sets the rate of sUSD, the oracle the first of the others.
ExchangeRatesInit ==
  /\ now = StartTime
  /\ rounds \in [Currencies -> {<<[rate |-> r, time |-> StartTime]>> :
                                  r \in OracleRates \cup {UNIT}}]
  /\ rounds["sUSD"] = <<[rate |-> UNIT, time |-> StartTime]>>
  /\ \A key \in Currencies \ {"sUSD"} : rounds[key][1].rate \in OracleRates
------------------------------------------------------------------------------
\* A round that is not stored has rate and time zero.
rateAtRound(key, id) == IF id \in DOMAIN rounds[key] THEN rounds[key][id].rate ELSE 0
timestampAtRound(key, id) == IF id \in DOMAIN rounds[key] THEN rounds[key][id].time ELSE 0

currentRound(key) == Len(rounds[key])
rateForCurrency(key) == rateAtRound(key, currentRound(key))
lastRateUpdateTime(key) == timestampAtRound(key, currentRound(key))

rateIsStale(key) == key # "sUSD" /\ lastRateUpdateTime(key) + RateStalePeriod < now

\* From source to sUSD to destination; a destination without a rate reverts.
valueAt(amount, sourceRate, destRate) ==
  divideDecimalRound(multiplyDecimalRound(amount, sourceRate), destRate)

\* Mutant: a round dated at the very end is left out.
lastRoundStrictlyBefore(key, start, timestamp, diff) ==
  LET reached == {id \in start .. currentRound(key) :
                    \A next \in start + 1 .. id : timestampAtRound(key, next) < timestamp + diff}
  IN Max(reached \cup {start})

\* Mutant: the walk goes on to the latest round.
latestRoundOfAll(key, start, timestamp, diff) == currentRound(key)

\* The walk from a round to the next ones, up to the last not dated after the
\* end of the period.
getLastRoundIdBeforeElapsedSecs(key, start, timestamp, diff) ==
  LET reached == {id \in start .. currentRound(key) :
                    \A next \in start + 1 .. id : timestampAtRound(key, next) <= timestamp + diff}
  IN Max(reached \cup {start})
------------------------------------------------------------------------------
\* Mutant: an update older than the last one is stored as well.
isNotOutdatedOrIs(key, timeSent) == TRUE

isNotOutdated(key, timeSent) == timeSent >= lastRateUpdateTime(key)

\* internalUpdateRates, one key at a time: an update dated before the last is
\* skipped.
updateRate(key, newRate, timeSent) ==
  /\ currentRound(key) < MaxRounds
  /\ key # "sUSD"
  /\ timeSent < now + ORACLE_FUTURE_LIMIT
  /\ isNotOutdated(key, timeSent)
  /\ rounds' = [rounds EXCEPT ![key] = Append(@, [rate |-> newRate, time |-> timeSent])]

deleteRate(key) ==
  /\ rateForCurrency(key) > 0
  /\ rounds' = [rounds EXCEPT ![key] = SubSeq(@, 1, currentRound(key) - 1)]
------------------------------------------------------------------------------
RatesTypeOK ==
  /\ now \in Nat
  /\ rounds \in [Currencies -> Seq(RateAndUpdatedTime)]
================================================================================
